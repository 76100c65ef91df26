----------------------------- MODULE WaitProofs -----------------------------
(***************************************************************************)
(* What the operations of KernelOps do to waiting threads: each leaves a   *)
(* thread as it was, or ends its wait, and in both cases the wait queues   *)
(* hold just the threads that sleep on them.                               *)
(***************************************************************************)
EXTENDS BlockingCalls, KernelOpsProofs

Asleep(kk, t) == "SLEEPING" \in kk.state[t]

\* The queues hold the threads that are marked as queued, once.
Lists(kk) ==
    /\ \A q \in WaitQueues : Distinct(kk.wait_queue[q])
    /\ \A q \in WaitQueues, t \in Threads : holds(kk.wait_queue[q], t) <=> kk.queue[t] = q

QueuedSleeps(kk, t) == kk.queue[t] # NoQueue => Asleep(kk, t)

\* A queued thread sleeps, and has not been told that its wait is over.
Waits(kk) ==
    /\ Lists(kk)
    /\ \A t \in Threads : kk.queue[t] # NoQueue =>
         /\ Asleep(kk, t)
         /\ kk.sleep_reason[t] \in {"WAIT", "TIMEOUT"} /\ kk.wake_reason[t] = "NONE"

SameWaits(kk, k2) == /\ k2.wait_queue = kk.wait_queue /\ k2.queue = kk.queue
                     /\ k2.sleep_reason = kk.sleep_reason
                     /\ k2.wake_reason = kk.wake_reason
SamePriorities(kk, k2) == /\ k2.priority = kk.priority
                          /\ k2.priority_inherited = kk.priority_inherited
                          /\ k2.original_priority = kk.original_priority
Plain(kk, k2) == k2.mutex_count = kk.mutex_count /\ SamePriorities(kk, k2)
\* At most a wait keeps t off the run queues: it is not suspended, in a
\* counted sleep or dead.
Clear(kk, t)    == kk.state[t] \subseteq {"SLEEPING"}
Cleared(kk, k2) == \A t \in Threads : Clear(kk, t) => Clear(k2, t)

\* Only what concerns the run queues has changed.
Unseen(kk, k2) == /\ SameWaits(kk, k2) /\ Plain(kk, k2)
                  /\ k2.state = kk.state /\ k2.timer = kk.timer

-----------------------------------------------------------------------------
(* Fields.                                                                 *)

\* Taking a thread off the run queues, or putting it there, is not seen by
\* waiting threads.
LEMMA RemUnseen ==
    ASSUME NEW kk \in KernelState, NEW t \in Threads
    PROVE  Unseen(kk, rem_thread(kk, t))
<1> DEFINE pri  == kk.priority[t]
           rest == remove(kk.run_queue[pri], t)
           rq   == [kk.run_queue EXCEPT ![pri] = rest]
           qm   == IF rest = <<>> THEN kk.queue_map \ {pri} ELSE kk.queue_map
           k2   == rem_thread(kk, t)
<1>1. k2 = [kk EXCEPT !.run_queue = rq, !.queue_map = qm]
  BY DEF rem_thread
<1> HIDE DEF rq, qm, k2
<1>2. Unseen(kk, k2)
  BY <1>1 DEF KernelState, Unseen, SameWaits, Plain, SamePriorities
<1> QED BY <1>2 DEF k2

\* The types of the fields of a good kernel state, one by one.
LEMMA FieldTypes ==
    ASSUME NEW kk, Good(kk)
    PROVE  /\ kk \in KernelState
           /\ kk.current_thread \in Threads
           /\ kk.queue \in [Threads -> WaitQueues \cup {NoQueue}]
           /\ kk.wait_queue \in [WaitQueues -> Seq(Threads)]
           /\ kk.state \in [Threads -> SUBSET StateBits]
           /\ kk.sleep_reason \in [Threads -> Reasons]
           /\ kk.wake_reason \in [Threads -> Reasons]
           /\ kk.timer \in [Threads -> BOOLEAN]
           /\ kk.mutex_count \in [Threads -> Nat]
           /\ kk.priority \in [Threads -> Priorities]
           /\ kk.priority_inherited \in [Threads -> BOOLEAN]
           /\ kk.original_priority \in [Threads -> Priorities]
<1>1. kk \in KernelState
  BY GoodType
<1> QED BY <1>1 DEF KernelState

\* add_thread() of a thread that is on no queue touches the run queues only.
LEMMA AddUnseen ==
    ASSUME NEW kk \in KernelState, NEW t \in Threads, kk.queue[t] = NoQueue
    PROVE  Unseen(kk, add_thread(kk, t))
<1> DEFINE pri == kk.priority[t]
           rq  == [kk.run_queue EXCEPT ![pri] = Append(@, t)]
           qm  == kk.queue_map \cup {pri}
           n   == link(kk, t)
           s   == set_need_reschedule_for(n, t)
           tc  == [s.timeslice_count EXCEPT ![t] = Quantum]
           k2  == add_thread(kk, t)
<1>1. n = [kk EXCEPT !.run_queue = rq, !.queue_map = qm] /\ n \in KernelState
  BY Link DEF link
<1>2. s \in {n, [n EXCEPT !.need_reschedule = TRUE]}
  BY DEF set_need_reschedule_for, set_need_reschedule
<1>3. k2 = [s EXCEPT !.timeslice_count = tc]
  BY DEF add_thread, leave_queue, timeslice_reset
<1> HIDE DEF rq, qm, n, s, tc, k2
<1>4. Unseen(kk, n)
  BY <1>1 DEF KernelState, Unseen, SameWaits, Plain, SamePriorities
<1>5. s \in KernelState /\ Unseen(n, s)
  <2> DEFINE m == [n EXCEPT !.need_reschedule = TRUE]
  <2>1. m \in KernelState
    BY <1>1, SetNeed DEF set_need_reschedule
  <2>2. Unseen(n, m)
    BY <1>1 DEF KernelState, Unseen, SameWaits, Plain, SamePriorities
  <2> HIDE DEF m
  <2> QED BY <1>1, <1>2, <2>1, <2>2 DEF m, Unseen, SameWaits, Plain, SamePriorities
<1>6. Unseen(s, k2)
  BY <1>3, <1>5 DEF KernelState, Unseen, SameWaits, Plain, SamePriorities
<1>7. Unseen(kk, k2)
  BY <1>4, <1>5, <1>6 DEF Unseen, SameWaits, Plain, SamePriorities
<1> QED BY <1>7 DEF k2

\* Making a thread runnable again touches the run queues only.
LEMMA AgainUnseen ==
    ASSUME NEW kk \in KernelState, NEW t \in Threads,
           kk.state[t] = RUNNING => kk.queue[t] = NoQueue
    PROVE  Unseen(kk, runnable_again(kk, t))
BY AddUnseen DEF runnable_again, Unseen, SameWaits, Plain, SamePriorities

\* What set_need_reschedule() and its overload do is not seen either.
LEMMA NeedUnseen ==
    ASSUME NEW kk \in KernelState, NEW t
    PROVE  /\ Unseen(kk, set_need_reschedule(kk))
           /\ Unseen(kk, set_need_reschedule_for(kk, t))
BY DEF set_need_reschedule_for, set_need_reschedule, KernelState,
       Unseen, SameWaits, Plain, SamePriorities

\* A thread leaves its queue.
LEMMA LeaveLists ==
    ASSUME NEW kk \in KernelState, NEW t \in Threads, Lists(kk)
    PROVE  LET k2 == leave_queue(kk, t)
           IN  /\ Lists(k2) /\ Plain(kk, k2)
               /\ k2.queue = [kk.queue EXCEPT ![t] = NoQueue]
               /\ k2.state = kk.state /\ k2.timer = kk.timer
               /\ k2.sleep_reason = kk.sleep_reason
               /\ k2.wake_reason = kk.wake_reason
<1>0. /\ kk.queue \in [Threads -> WaitQueues \cup {NoQueue}]
      /\ kk.wait_queue \in [WaitQueues -> Seq(Threads)]
  BY DEF KernelState
<1>1. CASE kk.queue[t] = NoQueue
  <2>1. kk.queue = [kk.queue EXCEPT ![t] = NoQueue]
    BY <1>0, <1>1
  <2> QED BY <1>1, <2>1 DEF leave_queue, Plain, SamePriorities
<1>2. CASE kk.queue[t] # NoQueue
  <2> DEFINE q0 == kk.queue[t]
             wq == [kk.wait_queue EXCEPT ![q0] = remove(@, t)]
             qu == [kk.queue EXCEPT ![t] = NoQueue]
             k2 == leave_queue(kk, t)
  <2>1. k2 = [kk EXCEPT !.wait_queue = wq, !.queue = qu] /\ q0 \in WaitQueues
    BY <1>0, <1>2 DEF leave_queue
  <2>2. /\ Distinct(remove(kk.wait_queue[q0], t))
        /\ \A u : holds(remove(kk.wait_queue[q0], t), u)
                    <=> holds(kk.wait_queue[q0], u) /\ u # t
    BY <1>0, <2>1, RemoveFacts DEF Lists
  <2>3. ASSUME NEW q \in WaitQueues
        PROVE  /\ Distinct(wq[q])
               /\ \A u \in Threads : holds(wq[q], u) <=> qu[u] = q
    <3>1. CASE q = q0
      <4>1. wq[q] = remove(kk.wait_queue[q0], t)
        BY <1>0, <3>1
      <4>2. \A u \in Threads : holds(kk.wait_queue[q0], u) <=> kk.queue[u] = q0
        BY <2>1 DEF Lists
      <4> HIDE DEF wq
      <4> QED BY <1>0, <2>1, <2>2, <3>1, <4>1, <4>2, QueueAssumption
    <3>2. CASE q # q0
      <4>1. wq[q] = kk.wait_queue[q]
        BY <1>0, <3>2
      <4>2. \A u \in Threads : holds(kk.wait_queue[q], u) <=> kk.queue[u] = q
        BY DEF Lists
      <4> HIDE DEF wq
      <4> QED BY <1>0, <3>2, <4>1, <4>2, QueueAssumption DEF Lists
    <3> QED BY <3>1, <3>2
  <2> HIDE DEF wq, qu, k2
  <2>5. /\ Plain(kk, k2) /\ k2.wait_queue = wq /\ k2.queue = qu
        /\ k2.state = kk.state /\ k2.timer = kk.timer
        /\ k2.sleep_reason = kk.sleep_reason /\ k2.wake_reason = kk.wake_reason
    BY <2>1 DEF KernelState, Plain, SamePriorities
  <2>6. Lists(k2)
    BY <2>3, <2>5 DEF Lists
  <2> QED BY <2>5, <2>6 DEF k2, qu
<1> QED BY <1>1, <1>2

\* A thread that is on no queue joins one, which was empty or not.
LEMMA EnqueueLists ==
    ASSUME NEW kk \in KernelState, NEW t \in Threads, NEW q0 \in WaitQueues,
           Lists(kk), kk.queue[t] = NoQueue
    PROVE  LET k2 == enqueue(kk, q0, t)
           IN  /\ Lists(k2) /\ Plain(kk, k2)
               /\ k2.queue = [kk.queue EXCEPT ![t] = q0]
               /\ k2.state = kk.state /\ k2.timer = kk.timer
               /\ k2.sleep_reason = kk.sleep_reason
               /\ k2.wake_reason = kk.wake_reason
               /\ \A q \in WaitQueues \ {q0} : k2.wait_queue[q] = kk.wait_queue[q]
<1> DEFINE wq == [kk.wait_queue EXCEPT ![q0] = Append(@, t)]
           qu == [kk.queue EXCEPT ![t] = q0]
           k2 == enqueue(kk, q0, t)
<1>0. /\ kk.queue \in [Threads -> WaitQueues \cup {NoQueue}]
      /\ kk.wait_queue \in [WaitQueues -> Seq(Threads)]
  BY DEF KernelState
<1>1. k2 = [kk EXCEPT !.wait_queue = wq, !.queue = qu]
  BY DEF enqueue
<1>2. ~holds(kk.wait_queue[q0], t)
  BY QueueAssumption DEF Lists
<1>3. /\ Distinct(Append(kk.wait_queue[q0], t))
      /\ \A u : holds(Append(kk.wait_queue[q0], t), u)
                  <=> holds(kk.wait_queue[q0], u) \/ u = t
  BY <1>0, <1>2, AppendFacts DEF Lists
<1>4. ASSUME NEW q \in WaitQueues
      PROVE  /\ Distinct(wq[q])
             /\ \A u \in Threads : holds(wq[q], u) <=> qu[u] = q
  <2>0. \A u \in Threads : holds(kk.wait_queue[q], u) <=> kk.queue[u] = q
    BY DEF Lists
  <2>1. CASE q = q0
    <3>1. wq[q] = Append(kk.wait_queue[q0], t)
      BY <1>0, <2>1
    <3> HIDE DEF wq
    <3> QED BY <1>0, <1>3, <2>0, <2>1, <3>1, QueueAssumption
  <2>2. CASE q # q0
    <3>1. wq[q] = kk.wait_queue[q]
      BY <1>0, <2>2
    <3> HIDE DEF wq
    <3> QED BY <1>0, <2>0, <2>2, <3>1, QueueAssumption DEF Lists
  <2> QED BY <2>1, <2>2
<1>5. \A q \in WaitQueues \ {q0} : wq[q] = kk.wait_queue[q]
  BY <1>0
<1> HIDE DEF wq, qu, k2
<1>6. /\ Plain(kk, k2) /\ k2.wait_queue = wq /\ k2.queue = qu
      /\ k2.state = kk.state /\ k2.timer = kk.timer
      /\ k2.sleep_reason = kk.sleep_reason /\ k2.wake_reason = kk.wake_reason
  BY <1>1 DEF KernelState, Plain, SamePriorities
<1>7. Lists(k2)
  BY <1>4, <1>6 DEF Lists
<1> QED BY <1>5, <1>6, <1>7 DEF k2, qu

-----------------------------------------------------------------------------
(* Waits that go on, and waits that end.                                   *)

HasAlarm(kk, t) == Asleep(kk, t) => kk.sleep_reason[t] = "TIMEOUT" /\ kk.timer[t]

\* Nothing has changed for t (a kill may end a sleep that is in no queue).
GoesOn(kk, k2, t) ==
    /\ k2.queue[t] = kk.queue[t]
    /\ Asleep(k2, t) => Asleep(kk, t)
    /\ k2.sleep_reason[t] = kk.sleep_reason[t]
    /\ k2.wake_reason[t] = kk.wake_reason[t]

\* What a thread is told when its wait is over.
Outcomes == {"DONE", "TIMEOUT", "BREAK", "EXIT"}

\* The wait of t is over; it is told DONE only if it is one of D, or its
\* delay() is over.
Ends(kk, k2, t, D) ==
    /\ kk.sleep_reason[t] # "NONE"
    /\ k2.queue[t] = NoQueue /\ ~Asleep(k2, t)
    /\ k2.sleep_reason[t] = "NONE"
    /\ k2.wake_reason[t] = "DONE" => t \in D \/ kk.sleep_reason[t] = "DELAY"
    /\ k2.wake_reason[t] \in Outcomes

Continued(kk, k2, D) ==
    /\ Step(kk, k2) /\ Waits(k2)
    /\ \A t \in Threads : /\ GoesOn(kk, k2, t) \/ Ends(kk, k2, t, D)
                          /\ HasAlarm(kk, t) => HasAlarm(k2, t)

\* The waits of all threads go on or end, in several steps as in one.
LEMMA ContinuedTransitive ==
    ASSUME NEW k1, NEW k2, NEW k3, NEW D, Continued(k1, k2, D), Continued(k2, k3, D)
    PROVE  Continued(k1, k3, D)
<1>1. Step(k1, k3) /\ Waits(k3)
  BY StepTransitive DEF Continued
<1>2. ASSUME NEW t \in Threads
      PROVE  /\ GoesOn(k1, k3, t) \/ Ends(k1, k3, t, D)
             /\ HasAlarm(k1, t) => HasAlarm(k3, t)
  <2>1. /\ GoesOn(k1, k2, t) \/ Ends(k1, k2, t, D)
        /\ GoesOn(k2, k3, t) \/ Ends(k2, k3, t, D)
        /\ HasAlarm(k1, t) => HasAlarm(k2, t)
        /\ HasAlarm(k2, t) => HasAlarm(k3, t)
    BY DEF Continued
  <2> QED BY <2>1 DEF GoesOn, Ends
<1> QED BY <1>1, <1>2 DEF Continued

\* A Step that changes no mark of a wait continues all waits.
LEMMA MarksContinued ==
    ASSUME NEW kk, NEW k2, NEW D, Waits(kk), Step(kk, k2), Lists(k2),
           k2.queue = kk.queue, k2.state = kk.state, k2.timer = kk.timer,
           k2.sleep_reason = kk.sleep_reason, k2.wake_reason = kk.wake_reason
    PROVE  Continued(kk, k2, D)
<1>1. Waits(k2)
  BY DEF Waits, Asleep
<1>2. \A t \in Threads : GoesOn(kk, k2, t) /\ (HasAlarm(kk, t) => HasAlarm(k2, t))
  BY DEF GoesOn, HasAlarm, Asleep
<1> QED BY <1>1, <1>2 DEF Continued

\* A Step that only the scheduler sees continues all waits.
LEMMA UnseenContinued ==
    ASSUME NEW kk, NEW k2, NEW D, Waits(kk), Step(kk, k2), SameWaits(kk, k2),
           \A t \in Threads : (Asleep(k2, t) => Asleep(kk, t)),
           \A t \in Threads : (kk.queue[t] # NoQueue => Asleep(k2, t)),
           \A t \in Threads : (kk.timer[t] => k2.timer[t])
    PROVE  Continued(kk, k2, D)
<1>1. Waits(k2)
  BY DEF Waits, Lists, SameWaits
<1>2. \A t \in Threads : GoesOn(kk, k2, t) /\ (HasAlarm(kk, t) => HasAlarm(k2, t))
  BY DEF GoesOn, HasAlarm, SameWaits
<1> QED BY <1>1, <1>2 DEF Continued

\* Doing nothing continues all waits.
LEMMA ContinuedRefl ==
    ASSUME NEW kk, NEW D, Good(kk), Waits(kk)
    PROVE  Continued(kk, kk, D)
BY StepRefl, UnseenContinued DEF Waits, SameWaits

\* wake(): the thread leaves its queue and does not sleep.
LEMMA WakeFields ==
    ASSUME NEW kk, Good(kk), NEW t \in Users, Lists(kk), QueuedSleeps(kk, t)
    PROVE  LET k2 == wake(kk, t)
           IN  /\ Step(kk, k2) /\ Lists(k2) /\ Plain(kk, k2)
               /\ k2.queue = [kk.queue EXCEPT ![t] = NoQueue]
               /\ k2.state = [kk.state EXCEPT ![t] = @ \ SLEEPSET]
               /\ k2.timer = kk.timer
               /\ k2.sleep_reason = kk.sleep_reason
               /\ k2.wake_reason = kk.wake_reason
<1> DEFINE v  == kk.state[t] \ SLEEPSET
           m  == [kk EXCEPT !.state[t] = v]
           l  == leave_queue(m, t)
           k2 == wake(kk, t)
<1>0. /\ kk \in KernelState /\ t \in Threads \ {Idle} /\ Step(kk, k2)
      /\ kk.queue \in [Threads -> WaitQueues \cup {NoQueue}]
      /\ kk.state \in [Threads -> SUBSET StateBits] /\ v \in SUBSET StateBits
  <2>1. t \in Threads \ {Idle}
    BY DEF Users
  <2>2. kk \in KernelState
    BY GoodType
  <2>3. Step(kk, k2)
    BY <2>1, Wake
  <2>4. /\ kk.queue \in [Threads -> WaitQueues \cup {NoQueue}]
        /\ kk.state \in [Threads -> SUBSET StateBits]
    BY <2>2 DEF KernelState
  <2> QED BY <2>1, <2>2, <2>3, <2>4
<1>1. CASE kk.state[t] \cap SLEEPSET = {}
  <2>1. k2 = kk
    BY <1>1 DEF wake
  <2>2. kk.queue = [kk.queue EXCEPT ![t] = NoQueue]
    BY <1>0, <1>1 DEF QueuedSleeps, Asleep, SLEEPSET
  <2>3. kk.state = [kk.state EXCEPT ![t] = @ \ SLEEPSET]
    BY <1>0, <1>1
  <2> QED BY <1>0, <2>1, <2>2, <2>3 DEF Plain, SamePriorities
<1>2. CASE kk.state[t] \cap SLEEPSET # {}
  <2>1. k2 = runnable_again(l, t)
    BY <1>2 DEF wake
  <2>2. /\ m \in KernelState /\ Lists(m) /\ Plain(kk, m)
        /\ m.queue = kk.queue /\ m.wait_queue = kk.wait_queue
        /\ m.state = [kk.state EXCEPT ![t] = v]
        /\ m.timer = kk.timer /\ m.sleep_reason = kk.sleep_reason
        /\ m.wake_reason = kk.wake_reason
    <3> DEFINE st == [kk.state EXCEPT ![t] = v]
    <3>1. m = [kk EXCEPT !.state = st] /\ m \in KernelState
      BY <1>0, SetState DEF KernelState
    <3> HIDE DEF m, st
    <3>2. /\ m.queue = kk.queue /\ m.wait_queue = kk.wait_queue
          /\ m.state = st /\ m.timer = kk.timer
          /\ m.sleep_reason = kk.sleep_reason /\ m.wake_reason = kk.wake_reason
          /\ Plain(kk, m)
      BY <1>0, <3>1 DEF KernelState, Plain, SamePriorities
    <3> QED BY <3>1, <3>2 DEF Lists, st
  <2> HIDE DEF m
  <2>3. /\ l \in KernelState /\ Lists(l) /\ Plain(m, l)
        /\ l.queue = [kk.queue EXCEPT ![t] = NoQueue]
        /\ l.state = m.state /\ l.timer = kk.timer
        /\ l.sleep_reason = kk.sleep_reason /\ l.wake_reason = kk.wake_reason
    BY <1>0, <2>2, LeaveLists, LeaveQueue DEF Quietly
  <2> HIDE DEF l
  <2>4. l.queue[t] = NoQueue
    BY <1>0, <2>3
  <2>5. Unseen(l, k2)
    BY <1>0, <2>1, <2>3, <2>4, AgainUnseen
  <2> HIDE DEF k2
  <2>6. /\ Lists(k2) /\ Plain(kk, k2)
        /\ k2.queue = l.queue /\ k2.state = l.state /\ k2.timer = l.timer
        /\ k2.sleep_reason = l.sleep_reason /\ k2.wake_reason = l.wake_reason
        /\ k2.wait_queue = l.wait_queue
    BY <2>2, <2>3, <2>5 DEF Unseen, SameWaits, Plain, SamePriorities, Lists
  <2>7. k2.state = [kk.state EXCEPT ![t] = @ \ SLEEPSET]
    BY <1>0, <2>2, <2>3, <2>6
  <2> QED BY <1>0, <2>3, <2>6, <2>7 DEF k2
<1> QED BY <1>1, <1>2

\* What the waker of t sees: t is off its queue and told r.
Woken(kk, k2, t, r) ==
    /\ Lists(k2) /\ Plain(kk, k2)
    /\ k2.queue = [kk.queue EXCEPT ![t] = NoQueue]
    /\ k2.state = [kk.state EXCEPT ![t] = @ \ SLEEPSET]
    /\ k2.timer = kk.timer
    /\ k2.sleep_reason = [kk.sleep_reason EXCEPT ![t] = "NONE"]
    /\ k2.wake_reason = [kk.wake_reason EXCEPT ![t] = r]

\* set_wake_reason() changes the two reasons of the thread and nothing else.
LEMMA WakeReasonFields ==
    ASSUME NEW kk \in KernelState, NEW t \in Threads, NEW r
    PROVE  LET k2 == set_wake_reason(kk, t, r)
           IN  /\ Plain(kk, k2)
               /\ k2.queue = kk.queue /\ k2.wait_queue = kk.wait_queue
               /\ k2.state = kk.state /\ k2.timer = kk.timer
               /\ k2.sleep_reason = [kk.sleep_reason EXCEPT ![t] = "NONE"]
               /\ k2.wake_reason = [kk.wake_reason EXCEPT ![t] = r]
<1> DEFINE sr == [kk.sleep_reason EXCEPT ![t] = "NONE"]
           wr == [kk.wake_reason EXCEPT ![t] = r]
           k2 == set_wake_reason(kk, t, r)
<1>1. k2 = [kk EXCEPT !.sleep_reason = sr, !.wake_reason = wr]
  BY DEF set_wake_reason
<1> HIDE DEF sr, wr, k2
<1>2. /\ Plain(kk, k2)
      /\ k2.queue = kk.queue /\ k2.wait_queue = kk.wait_queue
      /\ k2.state = kk.state /\ k2.timer = kk.timer
      /\ k2.sleep_reason = sr /\ k2.wake_reason = wr
  BY <1>1 DEF KernelState, Plain, SamePriorities
<1> QED BY <1>2 DEF sr, wr, k2

\* A waiter that is given a wake reason and woken is Woken: off its queue,
\* awake, with that reason.
LEMMA WokenFields ==
    ASSUME NEW kk, Good(kk), NEW t \in Users, NEW r \in Reasons,
           Lists(kk), QueuedSleeps(kk, t)
    PROVE  LET k2 == wake(set_wake_reason(kk, t, r), t)
           IN  Step(kk, k2) /\ Woken(kk, k2, t, r)
<1> DEFINE m  == set_wake_reason(kk, t, r)
           k2 == wake(m, t)
<1>1. /\ kk \in KernelState /\ t \in Threads
      /\ Step(kk, m) /\ Good(m)
  BY GoodType, ReasonSteps DEF Users, Step
<1>2. /\ Plain(kk, m)
      /\ m.queue = kk.queue /\ m.wait_queue = kk.wait_queue
      /\ m.state = kk.state /\ m.timer = kk.timer
      /\ m.sleep_reason = [kk.sleep_reason EXCEPT ![t] = "NONE"]
      /\ m.wake_reason = [kk.wake_reason EXCEPT ![t] = r]
  BY <1>1, WakeReasonFields
<1> HIDE DEF m
<1>3. Lists(m) /\ QueuedSleeps(m, t)
  BY <1>2 DEF Lists, QueuedSleeps, Asleep
<1>4. /\ Step(m, k2) /\ Lists(k2) /\ Plain(m, k2)
      /\ k2.queue = [m.queue EXCEPT ![t] = NoQueue]
      /\ k2.state = [m.state EXCEPT ![t] = @ \ SLEEPSET]
      /\ k2.timer = m.timer
      /\ k2.sleep_reason = m.sleep_reason
      /\ k2.wake_reason = m.wake_reason
  BY <1>1, <1>3, WakeFields
<1> HIDE DEF k2
<1>5. Step(kk, k2)
  BY <1>1, <1>4, StepTransitive
<1>6. Woken(kk, k2, t, r)
  BY <1>2, <1>4 DEF Woken, Plain, SamePriorities
<1> QED BY <1>5, <1>6 DEF k2, m

\* A thread that is woken only loses marks.
LEMMA WokenCleared ==
    ASSUME NEW kk, Good(kk), NEW t \in Threads, NEW k2,
           k2.state = [kk.state EXCEPT ![t] = @ \ SLEEPSET]
    PROVE  Cleared(kk, k2)
BY FieldTypes DEF Cleared, Clear

\* A waiter that is dismissed is off its queue before it is woken.
LEMMA DismissDone ==
    ASSUME NEW kk, Good(kk), NEW t \in Users, Lists(kk)
    PROVE  LET k2 == dismiss(kk, t, "DONE")
           IN  Step(kk, k2) /\ Woken(kk, k2, t, "DONE")
<1> DEFINE l  == leave_queue(kk, t)
           k2 == dismiss(kk, t, "DONE")
<1>0. kk \in KernelState /\ t \in Threads /\ "DONE" \in Reasons
  BY GoodType DEF Users, Reasons
<1>1. /\ Lists(l) /\ Plain(kk, l)
      /\ l.queue = [kk.queue EXCEPT ![t] = NoQueue]
      /\ l.state = kk.state /\ l.timer = kk.timer
      /\ l.sleep_reason = kk.sleep_reason /\ l.wake_reason = kk.wake_reason
  BY <1>0, LeaveLists
<1>2. Good(l) /\ Step(kk, l)
  BY <1>0, LeaveQueue, QuietStep DEF Step
<1>3. k2 = wake(set_wake_reason(l, t, "DONE"), t)
  BY DEF dismiss, wake_done
<1> HIDE DEF l, k2
<1>4. l.queue[t] = NoQueue
  BY <1>0, <1>1 DEF KernelState
<1>5. Step(l, k2) /\ Woken(l, k2, t, "DONE")
  BY <1>0, <1>1, <1>2, <1>3, <1>4, WokenFields DEF QueuedSleeps
<1>6. [l.queue EXCEPT ![t] = NoQueue] = l.queue
  BY <1>0, <1>1 DEF KernelState
<1>7. Step(kk, k2)
  BY <1>2, <1>5, StepTransitive
<1>8. Woken(kk, k2, t, "DONE")
  BY <1>1, <1>5, <1>6 DEF Woken, Plain, SamePriorities
<1> QED BY <1>7, <1>8 DEF k2

\* A wait that is woken ends, and all others go on.
LEMMA WokenContinued ==
    ASSUME NEW kk, Waits(kk), NEW t \in Users, NEW r \in Reasons, NEW k2, NEW D,
           Good(kk), Step(kk, k2), Woken(kk, k2, t, r),
           kk.sleep_reason[t] # "NONE", r \in Outcomes,
           r = "DONE" => t \in D \/ kk.sleep_reason[t] = "DELAY"
    PROVE  Continued(kk, k2, D)
<1>0. /\ kk.queue \in [Threads -> WaitQueues \cup {NoQueue}]
      /\ kk.state \in [Threads -> SUBSET StateBits]
      /\ kk.sleep_reason \in [Threads -> Reasons]
      /\ kk.wake_reason \in [Threads -> Reasons]
      /\ t \in Threads
  BY FieldTypes DEF Users
<1>1. /\ k2.queue[t] = NoQueue /\ ~Asleep(k2, t)
      /\ k2.sleep_reason[t] = "NONE" /\ k2.wake_reason[t] = r
  BY <1>0 DEF Woken, Asleep, SLEEPSET
<1>2. ASSUME NEW u \in Threads, u # t
      PROVE  /\ GoesOn(kk, k2, u) /\ (HasAlarm(kk, u) => HasAlarm(k2, u))
             /\ Asleep(k2, u) <=> Asleep(kk, u)
  BY <1>0, <1>2 DEF Woken, GoesOn, HasAlarm, Asleep
<1>3. Ends(kk, k2, t, D) /\ HasAlarm(k2, t)
  BY <1>1 DEF Ends, HasAlarm
<1>4. Waits(k2)
  <2>1. ASSUME NEW u \in Threads, k2.queue[u] # NoQueue
        PROVE  /\ Asleep(k2, u)
               /\ k2.sleep_reason[u] \in {"WAIT", "TIMEOUT"} /\ k2.wake_reason[u] = "NONE"
    <3>1. u # t
      BY <1>1, <2>1
    <3> QED BY <1>2, <2>1, <3>1 DEF Waits, GoesOn
  <2> QED BY <2>1 DEF Waits, Woken
<1> QED BY <1>2, <1>3, <1>4 DEF Continued

\* release() ends a wait, or does nothing.
LEMMA ReleaseContinued ==
    ASSUME NEW kk, Good(kk), Waits(kk), NEW t \in Users, NEW D
    PROVE  /\ Continued(kk, release(kk, t), D)
           /\ Plain(kk, release(kk, t))
<1> DEFINE k2 == wake(set_wake_reason(kk, t, "BREAK"), t)
<1>1. CASE kk.sleep_reason[t] \notin Breakable
  BY <1>1, ContinuedRefl DEF release, Plain, SamePriorities
<1>2. CASE kk.sleep_reason[t] \in Breakable
  <2>1. Step(kk, k2) /\ Woken(kk, k2, t, "BREAK")
    <3>1. Lists(kk) /\ QueuedSleeps(kk, t) /\ "BREAK" \in Reasons
      BY DEF Waits, QueuedSleeps, Reasons, Users
    <3> QED BY <3>1, WokenFields
  <2>2. release(kk, t) = k2
    BY <1>2 DEF release
  <2> HIDE DEF k2
  <2>3. Continued(kk, k2, D)
    BY <1>2, <2>1, WokenContinued DEF Reasons, Breakable, Outcomes
  <2> QED BY <2>1, <2>2, <2>3 DEF Woken
<1> QED BY <1>1, <1>2

\* A thread's timer is no field of the others.
LEMMA TimerFields ==
    ASSUME NEW kk, Good(kk), Waits(kk), NEW t \in Threads
    PROVE  LET k2 == clear_timer(kk, t)
           IN  /\ Good(k2) /\ Step(kk, k2) /\ Waits(k2)
               /\ SameWaits(kk, k2) /\ Plain(kk, k2) /\ k2.state = kk.state
               /\ k2.timer = [kk.timer EXCEPT ![t] = FALSE]
<1> DEFINE ti == [kk.timer EXCEPT ![t] = FALSE]
           k2 == clear_timer(kk, t)
<1>1. k2 = [kk EXCEPT !.timer = ti] /\ kk \in KernelState
  BY GoodType DEF clear_timer
<1>2. Step(kk, k2) /\ Good(k2)
  <2>1. "NONE" \in Reasons
    BY DEF Reasons
  <2> QED BY <2>1, ReasonSteps DEF Step
<1> HIDE DEF ti, k2
<1>3. /\ SameWaits(kk, k2) /\ Plain(kk, k2) /\ k2.state = kk.state /\ k2.timer = ti
  BY <1>1 DEF KernelState, SameWaits, Plain, SamePriorities
<1>4. Waits(k2)
  BY <1>3 DEF Waits, Lists, SameWaits, Asleep
<1> QED BY <1>2, <1>3, <1>4 DEF ti, k2

\* A timer that is not what ends a thread's wait may be cleared.
LEMMA ClearTimerContinued ==
    ASSUME NEW kk, Good(kk), Waits(kk), NEW t \in Threads, NEW D,
           Asleep(kk, t) => kk.sleep_reason[t] # "TIMEOUT"
    PROVE  Continued(kk, clear_timer(kk, t), D) /\ Plain(kk, clear_timer(kk, t))
<1> DEFINE k2 == clear_timer(kk, t)
<1>1. /\ Good(k2) /\ Step(kk, k2) /\ Waits(k2)
      /\ SameWaits(kk, k2) /\ Plain(kk, k2) /\ k2.state = kk.state
      /\ k2.timer = [kk.timer EXCEPT ![t] = FALSE]
  BY TimerFields
<1>2. kk.timer \in [Threads -> BOOLEAN]
  BY FieldTypes
<1> HIDE DEF k2
<1>3. ASSUME NEW u \in Threads
      PROVE  GoesOn(kk, k2, u) /\ (HasAlarm(kk, u) => HasAlarm(k2, u))
  <2>1. u # t => k2.timer[u] = kk.timer[u]
    BY <1>1, <1>2
  <2> QED BY <1>1, <2>1 DEF GoesOn, HasAlarm, SameWaits, Asleep
<1> QED BY <1>1, <1>3 DEF Continued, k2

\* The alarm of a thread's timer ends its timed wait or delay.
LEMMA AlarmContinued ==
    ASSUME NEW kk, Good(kk), Waits(kk), NEW t \in Users, NEW D
    PROVE  Continued(kk, alarm(kk, t), D) /\ Plain(kk, alarm(kk, t))
<1> DEFINE off  == clear_timer(kk, t)
           r    == IF kk.sleep_reason[t] = "DELAY" THEN "DONE" ELSE "TIMEOUT"
           k2   == wake(set_wake_reason(off, t, r), t)
<1>1. t \in Threads /\ r \in Reasons /\ r \in Outcomes
  BY DEF Users, Reasons, Outcomes
<1>2. CASE kk.sleep_reason[t] \notin {"DELAY", "TIMEOUT"}
  <2>1. alarm(kk, t) = off
    BY <1>2 DEF alarm
  <2> QED BY <1>1, <1>2, <2>1, ClearTimerContinued
<1>3. CASE kk.sleep_reason[t] \in {"DELAY", "TIMEOUT"}
  <2>1. alarm(kk, t) = k2
    BY <1>3 DEF alarm
  <2>2. /\ Good(off) /\ Step(kk, off) /\ Waits(off)
        /\ SameWaits(kk, off) /\ Plain(kk, off) /\ off.state = kk.state
        /\ off.timer = [kk.timer EXCEPT ![t] = FALSE]
    BY <1>1, TimerFields
  <2>3. off.sleep_reason[t] = kk.sleep_reason[t]
    BY <2>2 DEF SameWaits
  <2> HIDE DEF off
  <2>4. Lists(off) /\ QueuedSleeps(off, t)
    BY <1>1, <2>2 DEF Waits, QueuedSleeps
  <2>5. Step(off, k2) /\ Woken(off, k2, t, r)
    BY <1>1, <2>2, <2>4, WokenFields
  <2>6. off.sleep_reason[t] # "NONE" /\ (r = "DONE" => off.sleep_reason[t] = "DELAY")
    BY <1>3, <2>3
  <2> HIDE DEF k2, r
  <2>7. Continued(off, k2, D)
    BY <1>1, <2>2, <2>5, <2>6, WokenContinued
  <2>8. ~Asleep(k2, t)
    BY <1>1, <2>2, <2>5, FieldTypes DEF Woken, Asleep, SLEEPSET
  <2>9. ASSUME NEW u \in Threads
        PROVE  /\ GoesOn(kk, k2, u) \/ Ends(kk, k2, u, D)
               /\ HasAlarm(kk, u) => HasAlarm(k2, u)
    <3>1. /\ GoesOn(off, k2, u) \/ Ends(off, k2, u, D)
          /\ HasAlarm(off, u) => HasAlarm(k2, u)
      BY <2>7 DEF Continued
    <3>2. GoesOn(kk, k2, u) \/ Ends(kk, k2, u, D)
      BY <2>2, <3>1 DEF GoesOn, Ends, SameWaits, Asleep
    <3>3. CASE u = t
      BY <2>8, <3>2, <3>3 DEF HasAlarm
    <3>4. CASE u # t
      <4>1. off.timer[u] = kk.timer[u]
        BY <1>1, <2>2, <3>4, FieldTypes
      <4> QED BY <2>2, <3>1, <3>2, <4>1 DEF HasAlarm, SameWaits, Asleep
    <3> QED BY <3>3, <3>4
  <2>10. Continued(kk, k2, D)
    BY <2>2, <2>7, <2>9, StepTransitive DEF Continued
  <2>11. Plain(kk, k2)
    BY <2>2, <2>5 DEF Woken, Plain, SamePriorities
  <2> QED BY <2>1, <2>10, <2>11
<1> QED BY <1>2, <1>3

\* suspend() and resume() do not concern waits.
LEMMA SuspendContinued ==
    ASSUME NEW kk, Good(kk), Waits(kk), NEW t \in Users, NEW D
    PROVE  Continued(kk, suspend(kk, t), D) /\ Plain(kk, suspend(kk, t))
<1> DEFINE off == IF kk.state[t] = RUNNING THEN rem_thread(kk, t) ELSE kk
           n   == off.suspend_count[t] + 1
           v   == off.state[t] \cup {"SUSPENDED"}
           sc  == [off.suspend_count EXCEPT ![t] = n]
           st  == [off.state EXCEPT ![t] = v]
           k2  == suspend(kk, t)
<1>1. t \in Threads /\ t \in Threads \ {Idle}
  BY DEF Users
<1>2. off \in KernelState /\ Unseen(kk, off)
  BY <1>1, RemThread, RemUnseen, GoodType DEF Unseen, SameWaits, Plain, SamePriorities
<1>3. k2 = [off EXCEPT !.suspend_count = sc, !.state = st]
  BY DEF suspend
<1>4. Step(kk, k2)
  BY <1>1, Suspend
<1> HIDE DEF off, k2, sc, st
<1>5. SameWaits(off, k2) /\ Plain(off, k2) /\ k2.state = st /\ k2.timer = off.timer
  BY <1>2, <1>3 DEF KernelState, SameWaits, Plain, SamePriorities
<1>6. SameWaits(kk, k2) /\ Plain(kk, k2) /\ k2.timer = kk.timer /\ off.state = kk.state
  BY <1>2, <1>5 DEF Unseen, SameWaits, Plain, SamePriorities
<1>7. \A u \in Threads : Asleep(k2, u) <=> Asleep(kk, u)
  BY <1>5, <1>6, FieldTypes DEF Asleep, st
<1>8. Continued(kk, k2, D)
  BY <1>4, <1>6, <1>7, UnseenContinued DEF Waits
<1> QED BY <1>6, <1>8 DEF k2

\* A suspended thread that goes on is still where its wait has put it.
LEMMA UnsuspendContinued ==
    ASSUME NEW kk, Good(kk), Waits(kk), NEW t \in Users, kk.suspend_count[t] > 0, NEW D
    PROVE  Continued(kk, unsuspend(kk, t), D) /\ Plain(kk, unsuspend(kk, t))
<1> DEFINE v  == kk.state[t] \ {"SUSPENDED"}
           sc == [kk.suspend_count EXCEPT ![t] = 0]
           st == [kk.state EXCEPT ![t] = v]
           m  == [kk EXCEPT !.suspend_count[t] = 0, !.state[t] = @ \ {"SUSPENDED"}]
           k2 == unsuspend(kk, t)
<1>1. t \in Threads /\ t \in Threads \ {Idle} /\ kk \in KernelState
  BY GoodType DEF Users
<1>2. m = [kk EXCEPT !.suspend_count = sc, !.state = st] /\ k2 = runnable_again(m, t)
  BY DEF unsuspend
<1>3. Step(kk, k2)
  BY <1>1, Unsuspend
<1>4. sc \in [Threads -> Nat] /\ st \in [Threads -> SUBSET StateBits]
  BY <1>1 DEF KernelState
<1> HIDE DEF m, k2, sc, st
<1>5. /\ m \in KernelState /\ SameWaits(kk, m) /\ Plain(kk, m)
      /\ m.state = st /\ m.timer = kk.timer
  BY <1>1, <1>2, <1>4 DEF KernelState, SameWaits, Plain, SamePriorities
<1>6. \A u \in Threads : Asleep(m, u) <=> Asleep(kk, u)
  BY <1>5, FieldTypes DEF Asleep, st
<1>7. m.state[t] = RUNNING => m.queue[t] = NoQueue
  BY <1>1, <1>5, <1>6 DEF Waits, SameWaits, Asleep, RUNNING
<1>8. Unseen(m, k2)
  BY <1>1, <1>2, <1>5, <1>7, AgainUnseen
<1>9. SameWaits(kk, k2) /\ Plain(kk, k2) /\ k2.timer = kk.timer
  BY <1>5, <1>8 DEF Unseen, SameWaits, Plain, SamePriorities
<1>10. \A u \in Threads : Asleep(k2, u) <=> Asleep(kk, u)
  BY <1>6, <1>8 DEF Unseen, Asleep
<1>11. Continued(kk, k2, D)
  BY <1>3, <1>9, <1>10, UnseenContinued DEF Waits
<1> QED BY <1>9, <1>11 DEF k2

\* resume() and force_resume() neither begin nor end a wait.
LEMMA ResumeContinued ==
    ASSUME NEW kk, Good(kk), Waits(kk), NEW t \in Users, NEW D
    PROVE  /\ Continued(kk, resume(kk, t), D) /\ Plain(kk, resume(kk, t))
           /\ Continued(kk, force_resume(kk, t), D) /\ Plain(kk, force_resume(kk, t))
<1>0. t \in Threads \ {Idle} /\ kk \in KernelState /\ kk.suspend_count[t] \in Nat
  BY CountTypes DEF Users
<1>1. Continued(kk, kk, D) /\ Plain(kk, kk)
  BY ContinuedRefl DEF Plain, SamePriorities
<1>2. kk.suspend_count[t] > 0 =>
        Continued(kk, unsuspend(kk, t), D) /\ Plain(kk, unsuspend(kk, t))
  BY UnsuspendContinued
<1>3. CASE kk.suspend_count[t] > 1
  <2> DEFINE sc == [kk.suspend_count EXCEPT ![t] = @ - 1]
             k2 == resume(kk, t)
  <2>1. k2 = [kk EXCEPT !.suspend_count = sc]
    BY <1>0, <1>3 DEF resume
  <2>2. Step(kk, k2)
    BY <1>0, Resume
  <2> HIDE DEF sc, k2
  <2>3. Unseen(kk, k2)
    BY <1>0, <2>1 DEF KernelState, Unseen, SameWaits, Plain, SamePriorities
  <2>4. Continued(kk, k2, D)
    BY <2>2, <2>3, UnseenContinued DEF Unseen, Waits, Asleep
  <2> QED BY <1>0, <1>2, <1>3, <2>3, <2>4 DEF k2, Unseen, force_resume
<1>4. CASE ~(kk.suspend_count[t] > 1)
  BY <1>0, <1>1, <1>2, <1>4 DEF resume, force_resume
<1> QED BY <1>3, <1>4

\* One thread does not sleep any more, and nothing changes for the others.
LEMMA OneContinued ==
    ASSUME NEW kk, Good(kk), Waits(kk), NEW t \in Threads, NEW k2, NEW D,
           Step(kk, k2), Lists(k2), ~Asleep(k2, t),
           k2.queue = [kk.queue EXCEPT ![t] = NoQueue],
           GoesOn(kk, k2, t) \/ Ends(kk, k2, t, D),
           \A u \in Threads \ {t} :
               /\ Asleep(k2, u) <=> Asleep(kk, u)
               /\ k2.sleep_reason[u] = kk.sleep_reason[u]
               /\ k2.wake_reason[u] = kk.wake_reason[u]
               /\ k2.timer[u] = kk.timer[u]
    PROVE  Continued(kk, k2, D)
<1>1. kk.queue \in [Threads -> WaitQueues \cup {NoQueue}]
  BY FieldTypes
<1>2. ASSUME NEW u \in Threads \ {t}
      PROVE  GoesOn(kk, k2, u) /\ (HasAlarm(kk, u) => HasAlarm(k2, u))
  BY <1>1 DEF GoesOn, HasAlarm
<1>3. HasAlarm(k2, t) /\ k2.queue[t] = NoQueue
  BY <1>1 DEF HasAlarm
<1>4. Waits(k2)
  <2>1. ASSUME NEW u \in Threads, k2.queue[u] # NoQueue
        PROVE  /\ Asleep(k2, u)
               /\ k2.sleep_reason[u] \in {"WAIT", "TIMEOUT"} /\ k2.wake_reason[u] = "NONE"
    <3>1. u \in Threads \ {t} /\ k2.queue[u] = kk.queue[u]
      BY <1>1, <1>3, <2>1
    <3> QED BY <2>1, <3>1 DEF Waits
  <2> QED BY <2>1 DEF Waits
<1> QED BY <1>2, <1>3, <1>4 DEF Continued

\* deschedule() of a thread that is on no queue.
LEMMA DescheduleFields ==
    ASSUME NEW kk, Good(kk), NEW t \in Users
    PROVE  LET k2 == deschedule(kk, t)
           IN  /\ Step(kk, k2) /\ Good(k2)
               /\ SameWaits(kk, k2) /\ Plain(kk, k2) /\ k2.timer = kk.timer
               /\ k2.state = [kk.state EXCEPT ![t] = {"EXITED"}]
<1> DEFINE off == IF kk.state[t] = RUNNING THEN rem_thread(kk, t) ELSE kk
           st  == [off.state EXCEPT ![t] = {"EXITED"}]
           k2  == deschedule(kk, t)
<1>1. t \in Threads /\ t \in Threads \ {Idle}
  BY DEF Users
<1>2. off \in KernelState /\ Unseen(kk, off)
  BY <1>1, RemThread, RemUnseen, GoodType DEF Unseen, SameWaits, Plain, SamePriorities
<1>3. k2 = [off EXCEPT !.state = st]
  BY DEF deschedule
<1>4. Step(kk, k2) /\ Good(k2)
  BY <1>1, Deschedule DEF Step
<1> HIDE DEF off, k2, st
<1>5. SameWaits(off, k2) /\ Plain(off, k2) /\ k2.state = st /\ k2.timer = off.timer
  BY <1>2, <1>3 DEF KernelState, SameWaits, Plain, SamePriorities
<1>6. off.state = kk.state
  BY <1>2 DEF Unseen
<1> QED BY <1>2, <1>4, <1>5, <1>6 DEF Unseen, SameWaits, Plain, SamePriorities, st, k2

\* kill() ends a wait, or leaves the waits of all threads as they are.
LEMMA KillContinued ==
    ASSUME NEW kk, Good(kk), Waits(kk), NEW t \in Users, NEW D
    PROVE  Continued(kk, kill(kk, t), D) /\ Plain(kk, kill(kk, t))
<1> DEFINE f  == force_resume(kk, t)
           up == clear_timer(f, t)
           d  == deschedule(up, t)
           k2 == kill(kk, t)
<1>1. t \in Threads /\ "EXIT" \in Reasons
  BY DEF Users, Reasons
<1>2. Continued(kk, f, D) /\ Plain(kk, f) /\ Good(f) /\ Waits(f)
  BY ResumeContinued DEF Continued, Step
<1> HIDE DEF f
<1>3. /\ Good(up) /\ Step(f, up) /\ Waits(up)
      /\ SameWaits(f, up) /\ Plain(f, up) /\ up.state = f.state
      /\ up.timer = [f.timer EXCEPT ![t] = FALSE]
  BY <1>1, <1>2, TimerFields
<1>4. k2 = CASE up.wake_reason[t] = "EXIT" -> wake(up, t)
             [] up.wake_reason[t] # "EXIT" /\ up.sleep_reason[t] = "NONE" -> wake(d, t)
             [] up.wake_reason[t] # "EXIT" /\ up.sleep_reason[t] \in Breakable
                  -> wake(set_wake_reason(up, t, "EXIT"), t)
             [] OTHER -> up
  BY DEF kill, f
<1>5. Lists(up) /\ QueuedSleeps(up, t)
  BY <1>1, <1>3 DEF Waits, QueuedSleeps
<1>6. ASSUME NEW u \in Threads \ {t} PROVE up.timer[u] = f.timer[u]
  BY <1>1, <1>2, <1>3, FieldTypes
<1> HIDE DEF up, d, k2
<1>7. SUFFICES Continued(f, k2, D) /\ Plain(f, k2)
  BY <1>2, ContinuedTransitive DEF k2, Plain, SamePriorities
<1>8. /\ up.queue \in [Threads -> WaitQueues \cup {NoQueue}]
      /\ up.state \in [Threads -> SUBSET StateBits]
      /\ up.sleep_reason \in [Threads -> Reasons]
      /\ up.wake_reason \in [Threads -> Reasons]
  BY <1>3, FieldTypes
<1>9. CASE up.wake_reason[t] = "EXIT"
  <2>1. k2 = wake(up, t)
    BY <1>4, <1>9
  <2>2. /\ Step(up, k2) /\ Lists(k2) /\ Plain(up, k2)
        /\ k2.queue = [up.queue EXCEPT ![t] = NoQueue]
        /\ k2.state = [up.state EXCEPT ![t] = @ \ SLEEPSET]
        /\ k2.timer = up.timer
        /\ k2.sleep_reason = up.sleep_reason /\ k2.wake_reason = up.wake_reason
    BY <1>3, <1>5, <2>1, WakeFields
  <2>3. up.queue[t] = NoQueue
    BY <1>1, <1>3, <1>9 DEF Waits
  <2>4. ~Asleep(k2, t) /\ k2.queue[t] = NoQueue
    BY <1>1, <1>8, <2>2 DEF Asleep, SLEEPSET
  <2>5. GoesOn(f, k2, t)
    BY <1>3, <2>2, <2>3, <2>4 DEF GoesOn, SameWaits
  <2>6. ASSUME NEW u \in Threads \ {t}
        PROVE  /\ Asleep(k2, u) <=> Asleep(f, u)
               /\ k2.sleep_reason[u] = f.sleep_reason[u]
               /\ k2.wake_reason[u] = f.wake_reason[u]
               /\ k2.timer[u] = f.timer[u]
    BY <1>3, <1>6, <1>8, <2>2 DEF SameWaits, Asleep
  <2>7. k2.queue = [f.queue EXCEPT ![t] = NoQueue] /\ Plain(f, k2) /\ Step(f, k2)
    BY <1>3, <2>2, StepTransitive DEF SameWaits, Plain, SamePriorities
  <2> QED BY <1>1, <1>2, <2>2, <2>4, <2>5, <2>6, <2>7, OneContinued
<1>10. CASE up.wake_reason[t] # "EXIT" /\ up.sleep_reason[t] = "NONE"
  <2>1. /\ Step(up, d) /\ SameWaits(up, d) /\ Plain(up, d) /\ d.timer = up.timer
        /\ d.state = [up.state EXCEPT ![t] = {"EXITED"}]
    BY <1>3, DescheduleFields DEF d
  <2>2. d.state[t] = {"EXITED"}
    BY <1>1, <1>8, <2>1
  <2>3. k2 = d
    <3>1. wake(d, t) = d
      BY <2>2 DEF wake, SLEEPSET
    <3> QED BY <1>4, <1>10, <3>1 DEF Breakable
  <2>4. up.queue[t] = NoQueue
    BY <1>1, <1>3, <1>10 DEF Waits
  <2>5. ~Asleep(k2, t) /\ k2.queue[t] = NoQueue
    BY <2>1, <2>2, <2>3, <2>4 DEF Asleep, SameWaits
  <2>6. GoesOn(f, k2, t)
    BY <1>3, <2>1, <2>3, <2>4, <2>5 DEF GoesOn, SameWaits
  <2>7. ASSUME NEW u \in Threads \ {t}
        PROVE  /\ Asleep(k2, u) <=> Asleep(f, u)
               /\ k2.sleep_reason[u] = f.sleep_reason[u]
               /\ k2.wake_reason[u] = f.wake_reason[u]
               /\ k2.timer[u] = f.timer[u]
    <3>1. k2.state[u] = f.state[u]
      BY ONLY <1>3, <1>8, <2>1, <2>3, u \in Threads \ {t}
    <3>2. /\ k2.sleep_reason = f.sleep_reason /\ k2.wake_reason = f.wake_reason
          /\ k2.timer = up.timer
      BY ONLY <1>3, <2>1, <2>3 DEF SameWaits
    <3> QED BY <1>6, <3>1, <3>2 DEF Asleep
  <2>8. k2.queue = [f.queue EXCEPT ![t] = NoQueue]
    BY <1>3, <1>8, <2>1, <2>3, <2>4 DEF SameWaits
  <2>9. Plain(f, k2) /\ Step(f, k2) /\ Lists(k2)
    BY <1>3, <1>5, <2>1, <2>3, StepTransitive DEF SameWaits, Plain, SamePriorities, Lists
  <2> QED BY <1>1, <1>2, <2>5, <2>6, <2>7, <2>8, <2>9, OneContinued
<1>11. CASE up.wake_reason[t] # "EXIT" /\ up.sleep_reason[t] \in Breakable
  <2>1. k2 = wake(set_wake_reason(up, t, "EXIT"), t)
    BY <1>4, <1>11 DEF Breakable
  <2>2. Step(up, k2) /\ Woken(up, k2, t, "EXIT")
    BY <1>1, <1>3, <1>5, <2>1, WokenFields
  <2>3. ~Asleep(k2, t) /\ k2.queue[t] = NoQueue
        /\ k2.sleep_reason[t] = "NONE" /\ k2.wake_reason[t] = "EXIT"
    BY <1>1, <1>8, <2>2 DEF Asleep, SLEEPSET, Woken
  <2>4. Ends(f, k2, t, D)
    BY <1>3, <1>11, <2>3 DEF Ends, SameWaits, Breakable, Outcomes
  <2>5. ASSUME NEW u \in Threads \ {t}
        PROVE  /\ Asleep(k2, u) <=> Asleep(f, u)
               /\ k2.sleep_reason[u] = f.sleep_reason[u]
               /\ k2.wake_reason[u] = f.wake_reason[u]
               /\ k2.timer[u] = f.timer[u]
    BY <1>3, <1>6, <1>8, <2>2 DEF SameWaits, Asleep, Woken
  <2>6. k2.queue = [f.queue EXCEPT ![t] = NoQueue] /\ Lists(k2)
    BY <1>3, <2>2 DEF SameWaits, Woken
  <2>7. Plain(f, k2) /\ Step(f, k2)
    BY <1>3, <2>2, StepTransitive DEF Plain, SamePriorities, Woken
  <2> QED BY <1>1, <1>2, <2>3, <2>4, <2>5, <2>6, <2>7, OneContinued
<1>12. CASE /\ up.wake_reason[t] # "EXIT" /\ up.sleep_reason[t] # "NONE"
            /\ up.sleep_reason[t] \notin Breakable
  <2>1. k2 = up
    BY <1>4, <1>12
  <2>2. f.sleep_reason[t] # "TIMEOUT"
    BY <1>3, <1>12 DEF SameWaits, Breakable
  <2> QED BY <1>1, <1>2, <2>1, <2>2, ClearTimerContinued DEF up
<1> QED BY <1>9, <1>10, <1>11, <1>12

-----------------------------------------------------------------------------
(* Priorities.                                                             *)

\* What set_priority() does to the priorities.
Assigned(kk, k2, t, new) ==
    /\ k2.mutex_count = kk.mutex_count
    /\ k2.priority_inherited = kk.priority_inherited
    /\ k2.priority = [kk.priority EXCEPT ![t] =
                        IF kk.priority_inherited[t] /\ ~(@ > new) THEN @ ELSE new]
    /\ k2.original_priority = [kk.original_priority EXCEPT ![t] =
                                 IF kk.priority_inherited[t] THEN new ELSE @]

SameMarks(kk, k2) == /\ k2.queue = kk.queue /\ k2.state = kk.state
                     /\ k2.timer = kk.timer
                     /\ k2.sleep_reason = kk.sleep_reason
                     /\ k2.wake_reason = kk.wake_reason

\* assign_priority() moves the thread between run queues; the wait queues
\* keep it where it is.
LEMMA AssignFields ==
    ASSUME NEW kk \in KernelState, NEW t \in Threads, NEW new \in Priorities
    PROVE  LET k2 == assign_priority(kk, t, new)
           IN  /\ k2 \in KernelState /\ Assigned(kk, k2, t, new)
               /\ SameMarks(kk, k2) /\ k2.wait_queue = kk.wait_queue
<1> DEFINE k2 == assign_priority(kk, t, new)
           pr == [kk.priority EXCEPT ![t] =
                    IF kk.priority_inherited[t] /\ ~(@ > new) THEN @ ELSE new]
           op == [kk.original_priority EXCEPT ![t] =
                    IF kk.priority_inherited[t] THEN new ELSE @]
<1>0. k2 \in KernelState
  BY AssignPriority
<1>1. CASE kk.priority_inherited[t]
  <2>1. pr = [kk.priority EXCEPT ![t] = IF @ > new THEN new ELSE @]
    BY <1>1
  <2>2. op = [kk.original_priority EXCEPT ![t] = new]
    BY <1>1
  <2>3. k2 = [kk EXCEPT !.original_priority = op, !.priority = pr]
    BY <1>1, <2>1, <2>2 DEF assign_priority
  <2> HIDE DEF pr, op, k2
  <2>4. /\ k2.priority = pr /\ k2.original_priority = op
        /\ k2.mutex_count = kk.mutex_count
        /\ k2.priority_inherited = kk.priority_inherited
        /\ SameMarks(kk, k2) /\ k2.wait_queue = kk.wait_queue
    BY <2>3 DEF KernelState, SameMarks
  <2> QED BY <1>0, <2>4 DEF Assigned, pr, op, k2
<1>2. CASE ~kk.priority_inherited[t]
  <2>1. pr = [kk.priority EXCEPT ![t] = new]
    BY <1>2
  <2>2. op = kk.original_priority
    BY <1>2 DEF KernelState
  <2>3. k2 = [kk EXCEPT !.priority = pr]
    BY <1>2, <2>1 DEF assign_priority
  <2> HIDE DEF pr, op, k2
  <2>4. /\ k2.priority = pr /\ k2.original_priority = op
        /\ k2.mutex_count = kk.mutex_count
        /\ k2.priority_inherited = kk.priority_inherited
        /\ SameMarks(kk, k2) /\ k2.wait_queue = kk.wait_queue
    BY <2>2, <2>3 DEF KernelState, SameMarks
  <2> QED BY <1>0, <2>4 DEF Assigned, pr, op, k2
<1> QED BY <1>1, <1>2

\* set_priority() changes no mark of a wait, and leaves the queues holding
\* the same threads.
LEMMA SetPriorityFields ==
    ASSUME NEW kk, Good(kk), NEW t \in Users, NEW new \in Priorities,
           Lists(kk), QueuedSleeps(kk, t)
    PROVE  LET k2 == set_priority(kk, t, new)
           IN  /\ Step(kk, k2) /\ Good(k2) /\ Lists(k2)
               /\ SameMarks(kk, k2) /\ Assigned(kk, k2, t, new)
<1> DEFINE q  == kk.queue[t]
           r  == rem_thread(kk, t)
           l  == leave_queue(kk, t)
           a1 == assign_priority(r, t, new)
           m1 == add_thread(a1, t)
           a2 == assign_priority(l, t, new)
           m2 == enqueue(a2, q, t)
           m3 == assign_priority(kk, t, new)
           k2 == set_priority(kk, t, new)
           Fits_(m) == /\ m \in KernelState /\ Lists(m)
                       /\ SameMarks(kk, m) /\ Assigned(kk, m, t, new)
<1>1. /\ t \in Threads /\ t \in Threads \ {Idle} /\ kk \in KernelState
      /\ kk.queue \in [Threads -> WaitQueues \cup {NoQueue}]
      /\ q \in WaitQueues \cup {NoQueue}
  BY FieldTypes DEF Users
<1>2. Step(kk, k2) /\ Good(k2)
  BY <1>1, SetPriority DEF Step
<1>3. ASSUME NEW m, Fits_(m), k2 = notify_priority(m, t) PROVE Lists(k2) /\ SameMarks(kk, k2) /\ Assigned(kk, k2, t, new)
  <2>1. Unseen(m, k2)
    BY <1>3, NeedUnseen DEF notify_priority
  <2> HIDE DEF k2
  <2>2. Plain(m, k2) /\ k2.wait_queue = m.wait_queue /\ SameMarks(kk, k2)
    BY <1>3, <2>1 DEF Unseen, SameWaits, SameMarks
  <2>3. Lists(k2)
    BY <1>3, <2>2 DEF Lists, SameMarks
  <2>4. Assigned(kk, k2, t, new)
    BY <1>3, <2>2 DEF Assigned, Plain, SamePriorities
  <2> QED BY <2>2, <2>3, <2>4
<1>4. CASE kk.state[t] = RUNNING
  <2>1. r \in KernelState /\ Unseen(kk, r)
    BY <1>1, RemThread, RemUnseen
  <2> HIDE DEF r
  <2>2. /\ a1 \in KernelState /\ Assigned(r, a1, t, new)
        /\ SameMarks(r, a1) /\ a1.wait_queue = r.wait_queue
    BY <1>1, <2>1, AssignFields
  <2> HIDE DEF a1
  <2>3. a1.queue[t] = NoQueue
    BY <1>4, <2>1, <2>2 DEF Unseen, SameWaits, SameMarks, QueuedSleeps, Asleep, RUNNING
  <2>4. Unseen(a1, m1)
    BY <1>1, <2>2, <2>3, AddUnseen
  <2>5. k2 = notify_priority(m1, t)
    BY <1>4 DEF set_priority, RUNNING, a1, r
  <2> HIDE DEF m1, k2
  <2>6. SameMarks(kk, m1) /\ m1.wait_queue = kk.wait_queue
    BY <2>1, <2>2, <2>4 DEF Unseen, SameWaits, SameMarks
  <2>7. Assigned(kk, m1, t, new) /\ Lists(m1)
    BY <2>1, <2>2, <2>4, <2>6 DEF Unseen, Assigned, Plain, SamePriorities, SameMarks, Lists
  <2>8. m1 \in KernelState
    BY <1>1, <2>2, <2>3, Link, SetNeed, TimesliceReset
       DEF m1, add_thread, leave_queue, set_need_reschedule_for, Quietly
  <2> QED BY <1>2, <1>3, <2>5, <2>6, <2>7, <2>8 DEF k2
<1>5. CASE kk.state[t] # RUNNING /\ "SLEEPING" \in kk.state[t] /\ q # NoQueue
  <2>1. /\ l \in KernelState /\ Lists(l) /\ Plain(kk, l)
        /\ l.queue = [kk.queue EXCEPT ![t] = NoQueue]
        /\ l.state = kk.state /\ l.timer = kk.timer
        /\ l.sleep_reason = kk.sleep_reason /\ l.wake_reason = kk.wake_reason
    BY <1>1, LeaveLists, LeaveQueue DEF Quietly
  <2> HIDE DEF l
  <2>2. /\ a2 \in KernelState /\ Assigned(l, a2, t, new)
        /\ SameMarks(l, a2) /\ a2.wait_queue = l.wait_queue
    BY <1>1, <2>1, AssignFields
  <2> HIDE DEF a2
  <2>3. a2.queue[t] = NoQueue /\ Lists(a2)
    BY <1>1, <2>1, <2>2 DEF SameMarks, Lists
  <2>4. /\ Lists(m2) /\ Plain(a2, m2) /\ m2 \in KernelState
        /\ m2.queue = [a2.queue EXCEPT ![t] = q]
        /\ m2.state = a2.state /\ m2.timer = a2.timer
        /\ m2.sleep_reason = a2.sleep_reason /\ m2.wake_reason = a2.wake_reason
    BY <1>1, <1>5, <2>2, <2>3, EnqueueLists, Enqueue DEF Quietly
  <2>5. k2 = notify_priority(m2, t)
    BY <1>5 DEF set_priority, a2, l
  <2> HIDE DEF m2, k2
  <2>6. m2.queue = kk.queue
    BY <1>1, <2>1, <2>2, <2>4 DEF SameMarks
  <2>7. SameMarks(kk, m2)
    BY <2>1, <2>2, <2>4, <2>6 DEF SameMarks
  <2>8. Assigned(kk, m2, t, new)
    BY <2>1, <2>2, <2>4 DEF Assigned, Plain, SamePriorities
  <2> QED BY <1>2, <1>3, <2>4, <2>5, <2>7, <2>8 DEF k2
<1>6. CASE kk.state[t] # RUNNING /\ ~("SLEEPING" \in kk.state[t] /\ q # NoQueue)
  <2>1. /\ m3 \in KernelState /\ Assigned(kk, m3, t, new)
        /\ SameMarks(kk, m3) /\ m3.wait_queue = kk.wait_queue
    BY <1>1, AssignFields
  <2>2. k2 = notify_priority(m3, t)
    BY <1>6 DEF set_priority
  <2> HIDE DEF m3, k2
  <2>3. Lists(m3)
    BY <2>1 DEF SameMarks, Lists
  <2> QED BY <1>2, <1>3, <2>1, <2>2, <2>3 DEF k2
<1> QED BY <1>4, <1>5, <1>6


-----------------------------------------------------------------------------
(* What the current thread does to itself.                                 *)

Awake(kk, t) == kk.queue[t] = NoQueue /\ ~Asleep(kk, t)

\* A thread is in a call on an object.
Calling(kk) == /\ Good(kk) /\ Waits(kk)
               /\ kk.current_thread \in Users /\ Awake(kk, kk.current_thread)

\* The waits of all other threads go on or end.
Moved(kk, k2, D) ==
    /\ Step(kk, k2) /\ Waits(k2)
    /\ \A t \in Threads \ {kk.current_thread} :
         /\ GoesOn(kk, k2, t) \/ Ends(kk, k2, t, D)
         /\ HasAlarm(kk, t) => HasAlarm(k2, t)

\* A step in which every thread goes on, or ends its wait, is a move.
LEMMA ContinuedMoved ==
    ASSUME NEW kk, NEW k2, NEW D, Continued(kk, k2, D)
    PROVE  /\ Moved(kk, k2, D)
           /\ Calling(kk) => Calling(k2)
BY DEF Continued, Moved, Calling, Step, GoesOn, Ends, Awake, Users

\* Two moves in a row are a move.
LEMMA MovedTransitive ==
    ASSUME NEW k1, NEW k2, NEW k3, NEW D, Moved(k1, k2, D), Moved(k2, k3, D)
    PROVE  Moved(k1, k3, D)
<1>1. Step(k1, k3) /\ Waits(k3) /\ k2.current_thread = k1.current_thread
  BY StepTransitive DEF Moved, Step
<1>2. ASSUME NEW t \in Threads \ {k1.current_thread}
      PROVE  /\ GoesOn(k1, k3, t) \/ Ends(k1, k3, t, D)
             /\ HasAlarm(k1, t) => HasAlarm(k3, t)
  <2>1. /\ GoesOn(k1, k2, t) \/ Ends(k1, k2, t, D)
        /\ GoesOn(k2, k3, t) \/ Ends(k2, k3, t, D)
        /\ HasAlarm(k1, t) => HasAlarm(k2, t)
        /\ HasAlarm(k2, t) => HasAlarm(k3, t)
    BY <1>1 DEF Moved
  <2> QED BY <2>1 DEF GoesOn, Ends
<1> QED BY <1>1, <1>2 DEF Moved

\* Only marks of the current thread change, and its place in the queues.
LEMMA AloneMoved ==
    ASSUME NEW kk, NEW k2, NEW D, Calling(kk), Step(kk, k2), Lists(k2),
           \A t \in Threads \ {kk.current_thread} :
               /\ k2.queue[t] = kk.queue[t] /\ k2.state[t] = kk.state[t]
               /\ k2.timer[t] = kk.timer[t]
               /\ k2.sleep_reason[t] = kk.sleep_reason[t]
               /\ k2.wake_reason[t] = kk.wake_reason[t],
           LET c == kk.current_thread
           IN  k2.queue[c] # NoQueue =>
                 /\ Asleep(k2, c)
                 /\ k2.sleep_reason[c] \in {"WAIT", "TIMEOUT"} /\ k2.wake_reason[c] = "NONE"
    PROVE  Moved(kk, k2, D)
<1>1. ASSUME NEW t \in Threads \ {kk.current_thread}
      PROVE  GoesOn(kk, k2, t) /\ (HasAlarm(kk, t) => HasAlarm(k2, t))
  BY DEF GoesOn, HasAlarm, Asleep
<1>2. Waits(k2)
  <2>1. ASSUME NEW t \in Threads, k2.queue[t] # NoQueue
        PROVE  /\ Asleep(k2, t)
               /\ k2.sleep_reason[t] \in {"WAIT", "TIMEOUT"} /\ k2.wake_reason[t] = "NONE"
    <3>1. CASE t = kk.current_thread
      BY <2>1, <3>1
    <3>2. CASE t # kk.current_thread
      BY <2>1, <3>2 DEF Calling, Waits, Asleep
    <3> QED BY <3>1, <3>2
  <2> QED BY <2>1 DEF Waits
<1> QED BY <1>1, <1>2 DEF Moved

\* set_sleep_reason() changes the reasons of the current thread only.
LEMMA SleepReasonFields ==
    ASSUME NEW kk \in KernelState, NEW r
    PROVE  LET k2 == set_sleep_reason(kk, r)
               c  == kk.current_thread
           IN  /\ Plain(kk, k2) /\ k2.current_thread = c
               /\ k2.queue = kk.queue /\ k2.wait_queue = kk.wait_queue
               /\ k2.state = kk.state /\ k2.timer = kk.timer
               /\ k2.sleep_reason = [kk.sleep_reason EXCEPT ![c] = r]
               /\ k2.wake_reason = [kk.wake_reason EXCEPT ![c] = "NONE"]
<1> DEFINE c  == kk.current_thread
           sr == [kk.sleep_reason EXCEPT ![c] = r]
           wr == [kk.wake_reason EXCEPT ![c] = "NONE"]
           k2 == set_sleep_reason(kk, r)
<1>1. k2 = [kk EXCEPT !.sleep_reason = sr, !.wake_reason = wr]
  BY DEF set_sleep_reason
<1> HIDE DEF sr, wr, k2
<1>2. /\ Plain(kk, k2) /\ k2.current_thread = c
      /\ k2.queue = kk.queue /\ k2.wait_queue = kk.wait_queue
      /\ k2.state = kk.state /\ k2.timer = kk.timer
      /\ k2.sleep_reason = sr /\ k2.wake_reason = wr
  BY <1>1 DEF KernelState, Plain, SamePriorities
<1> QED BY <1>2 DEF sr, wr, k2

\* A timed call sets the thread's timer before anything else.
LEMMA ArmedMoved ==
    ASSUME NEW kk, Calling(kk), NEW D
    PROVE  LET k2 == armed(kk)
               c  == kk.current_thread
           IN  /\ Moved(kk, k2, D) /\ Calling(k2) /\ Plain(kk, k2)
               /\ k2.wait_queue = kk.wait_queue /\ k2.current_thread = c
               /\ k2.timer[c] /\ k2.sleep_reason[c] = "TIMEOUT"
               /\ k2.wake_reason[c] = "NONE"
<1> DEFINE c  == kk.current_thread
           m  == set_sleep_reason(kk, "TIMEOUT")
           ti == [m.timer EXCEPT ![c] = TRUE]
           k2 == armed(kk)
<1>1. Good(kk) /\ Waits(kk) /\ kk \in KernelState /\ c \in Threads /\ "TIMEOUT" \in Reasons
  BY FieldTypes DEF Calling, Reasons
<1>2. Step(kk, k2)
  BY <1>1, ReasonSteps DEF armed
<1>3. m \in KernelState
  BY <1>1, SetSleepReason DEF Quietly
<1>4. /\ Plain(kk, m) /\ m.current_thread = c
      /\ m.queue = kk.queue /\ m.wait_queue = kk.wait_queue
      /\ m.state = kk.state /\ m.timer = kk.timer
      /\ m.sleep_reason = [kk.sleep_reason EXCEPT ![c] = "TIMEOUT"]
      /\ m.wake_reason = [kk.wake_reason EXCEPT ![c] = "NONE"]
  BY <1>1, SleepReasonFields
<1>5. k2 = [m EXCEPT !.timer = ti]
  BY <1>4 DEF armed, set_timer
<1> HIDE DEF m, ti, k2
<1>6. /\ Plain(m, k2) /\ k2.current_thread = c
      /\ k2.queue = m.queue /\ k2.wait_queue = m.wait_queue
      /\ k2.state = m.state /\ k2.timer = ti
      /\ k2.sleep_reason = m.sleep_reason
      /\ k2.wake_reason = m.wake_reason
  BY <1>3, <1>4, <1>5 DEF KernelState, Plain, SamePriorities
<1>7. /\ k2.timer[c] /\ k2.sleep_reason[c] = "TIMEOUT" /\ k2.wake_reason[c] = "NONE"
  BY <1>1, <1>4, <1>6, FieldTypes DEF ti
<1>8. Plain(kk, k2) /\ Lists(k2) /\ k2.queue = kk.queue /\ k2.state = kk.state
  BY <1>1, <1>4, <1>6 DEF Plain, SamePriorities, Lists, Waits
<1>9. ASSUME NEW t \in Threads \ {c}
      PROVE  /\ k2.timer[t] = kk.timer[t]
             /\ k2.sleep_reason[t] = kk.sleep_reason[t]
             /\ k2.wake_reason[t] = kk.wake_reason[t]
  <2>1. /\ kk.timer \in [Threads -> BOOLEAN]
        /\ kk.sleep_reason \in [Threads -> Reasons]
        /\ kk.wake_reason \in [Threads -> Reasons]
    BY <1>1, FieldTypes
  <2>2. k2.timer = [kk.timer EXCEPT ![c] = TRUE]
    BY <1>4, <1>6 DEF ti
  <2>3. k2.timer[t] = kk.timer[t]
    BY <2>1, <2>2
  <2> QED BY <1>4, <1>6, <2>1, <2>3
<1>10. k2.queue[c] = NoQueue /\ ~Asleep(k2, c)
  BY <1>8 DEF Calling, Awake, Asleep
<1>11. Moved(kk, k2, D)
  BY <1>2, <1>8, <1>9, <1>10, AloneMoved
<1>12. Calling(k2)
  BY <1>6, <1>10, <1>11 DEF Calling, Awake, Moved, Step
<1> QED BY <1>4, <1>6, <1>7, <1>8, <1>11, <1>12 DEF k2

\* A timed call whose time is over as it begins.
LEMMA OverdueMoved ==
    ASSUME NEW kk, Calling(kk), NEW D
    PROVE  LET k2 == overdue(kk)
               c  == kk.current_thread
           IN  /\ Moved(kk, k2, D) /\ Calling(k2) /\ Plain(kk, k2)
               /\ k2.current_thread = c
<1> DEFINE c == kk.current_thread
           m == armed(kk)
           k2 == overdue(kk)
<1>1. /\ Moved(kk, m, D) /\ Calling(m) /\ Plain(kk, m) /\ m.current_thread = c
  BY ArmedMoved
<1>2. k2 = alarm(m, c)
  BY DEF overdue, armed
<1> HIDE DEF m, k2
<1>3. Continued(m, k2, D) /\ Plain(m, k2)
  BY <1>1, <1>2, AlarmContinued DEF Calling
<1>4. Moved(kk, k2, D) /\ Calling(k2)
  BY <1>1, <1>3, ContinuedMoved, MovedTransitive
<1>5. Plain(kk, k2) /\ k2.current_thread = c
  BY <1>1, <1>3, <1>4 DEF Plain, SamePriorities, Moved, Step
<1> QED BY <1>4, <1>5 DEF k2

\* sleep() puts the current thread to sleep and leaves timers and wait queues.
LEMMA SleepFields ==
    ASSUME NEW kk, Good(kk), kk.current_thread \in Users
    PROVE  LET k2 == sleep(kk)
               c  == kk.current_thread
           IN  /\ Step(kk, k2) /\ Good(k2) /\ Plain(kk, k2) /\ SameWaits(kk, k2)
               /\ k2.timer = kk.timer
               /\ k2.state = [kk.state EXCEPT ![c] = @ \cup {"SLEEPING"}]
<1> DEFINE c   == kk.current_thread
           off == IF kk.state[c] = RUNNING THEN rem_thread(kk, c) ELSE kk
           v   == off.state[c] \cup {"SLEEPING"}
           st  == [off.state EXCEPT ![c] = v]
           k2  == sleep(kk)
<1>1. c \in Threads /\ c # Idle
  BY DEF Users
<1>2. off \in KernelState /\ Unseen(kk, off)
  BY <1>1, RemThread, RemUnseen, GoodType DEF Unseen, SameWaits, Plain, SamePriorities
<1>3. k2 = [off EXCEPT !.state = st]
  BY DEF sleep
<1>4. Step(kk, k2) /\ Good(k2)
  BY <1>1, Sleep DEF Step
<1> HIDE DEF off, k2, st
<1>5. SameWaits(off, k2) /\ Plain(off, k2) /\ k2.state = st /\ k2.timer = off.timer
  BY <1>2, <1>3 DEF KernelState, SameWaits, Plain, SamePriorities
<1>6. off.state = kk.state
  BY <1>2 DEF Unseen
<1> QED BY <1>2, <1>4, <1>5, <1>6 DEF Unseen, SameWaits, Plain, SamePriorities, st, k2

\* A thread goes to sleep on an object.
Blocked(kk, k2, q, r, D) ==
    LET c == kk.current_thread
    IN  /\ Moved(kk, k2, D) /\ Plain(kk, k2)
        /\ k2.queue[c] = q /\ Asleep(k2, c)
        /\ k2.sleep_reason[c] = r /\ k2.wake_reason[c] = "NONE"
        /\ k2.timer[c] = kk.timer[c]

\* A thread that blocks is at the end of the queue; every other thread stays.
LEMMA BlockMoved ==
    ASSUME NEW kk, Calling(kk), NEW q \in WaitQueues, NEW r \in {"WAIT", "TIMEOUT"}, NEW D
    PROVE  Blocked(kk, block(kk, q, r), q, r, D)
<1> DEFINE c  == kk.current_thread
           m  == set_sleep_reason(kk, r)
           n  == sleep(m)
           k2 == block(kk, q, r)
<1>1. Good(kk) /\ Waits(kk) /\ kk \in KernelState /\ c \in Users /\ c \in Threads
      /\ r \in Reasons
  BY FieldTypes DEF Calling, Reasons
<1>2. Step(kk, m) /\ Good(m)
  BY <1>1, ReasonSteps DEF Step
<1>3. /\ Plain(kk, m) /\ m.current_thread = c
      /\ m.queue = kk.queue /\ m.wait_queue = kk.wait_queue
      /\ m.state = kk.state /\ m.timer = kk.timer
      /\ m.sleep_reason = [kk.sleep_reason EXCEPT ![c] = r]
      /\ m.wake_reason = [kk.wake_reason EXCEPT ![c] = "NONE"]
  BY <1>1, SleepReasonFields
<1> HIDE DEF m
<1>4. /\ Step(m, n) /\ Good(n) /\ Plain(m, n) /\ SameWaits(m, n)
      /\ n.timer = m.timer
      /\ n.state = [m.state EXCEPT ![c] = @ \cup {"SLEEPING"}]
  BY <1>1, <1>2, <1>3, SleepFields
<1>5. k2 = enqueue(n, q, c)
  BY DEF block, m
<1> HIDE DEF n, k2
<1>6. Lists(n) /\ n.queue[c] = NoQueue /\ n \in KernelState
  BY <1>1, <1>3, <1>4, GoodType DEF Waits, Lists, SameWaits, Calling, Awake
<1>7. /\ Lists(k2) /\ Plain(n, k2)
      /\ k2.queue = [n.queue EXCEPT ![c] = q]
      /\ k2.state = n.state /\ k2.timer = n.timer
      /\ k2.sleep_reason = n.sleep_reason /\ k2.wake_reason = n.wake_reason
  BY <1>1, <1>5, <1>6, EnqueueLists
<1>8. Step(kk, k2)
  <2>1. Step(n, k2)
    BY <1>1, <1>4, <1>5, <1>6, Enqueue, QuietStep
  <2> QED BY <1>2, <1>4, <2>1, StepTransitive
<1>9. Plain(kk, k2)
  BY <1>3, <1>4, <1>7 DEF Plain, SamePriorities
<1>10. /\ k2.queue[c] = q /\ Asleep(k2, c)
       /\ k2.sleep_reason[c] = r /\ k2.wake_reason[c] = "NONE"
       /\ k2.timer[c] = kk.timer[c]
  BY <1>1, <1>3, <1>4, <1>7, FieldTypes DEF SameWaits, Asleep
<1>11. ASSUME NEW t \in Threads \ {c}
       PROVE  /\ k2.queue[t] = kk.queue[t] /\ k2.state[t] = kk.state[t]
              /\ k2.timer[t] = kk.timer[t]
              /\ k2.sleep_reason[t] = kk.sleep_reason[t]
              /\ k2.wake_reason[t] = kk.wake_reason[t]
  BY <1>1, <1>3, <1>4, <1>7, FieldTypes DEF SameWaits
<1>12. Moved(kk, k2, D)
  BY <1>7, <1>8, <1>10, <1>11, AloneMoved
<1> QED BY <1>9, <1>10, <1>12 DEF Blocked, k2


\* exit(): the thread sleeps nowhere, and no other thread is concerned.
LEMMA ExitMoved ==
    ASSUME NEW kk, Calling(kk), NEW D
    PROVE  LET k2 == exit(kk)
               c  == kk.current_thread
           IN  /\ Moved(kk, k2, D) /\ Plain(kk, k2)
               /\ k2.current_thread = c /\ Awake(k2, c) /\ "EXITED" \in k2.state[c]
<1> DEFINE c   == kk.current_thread
           off == clear_timer(kk, c)
           st  == [off.state EXCEPT ![c] = {"EXITED"}]
           m   == [off EXCEPT !.state[c] = {"EXITED"}]
           k2  == exit(kk)
<1>1. Good(kk) /\ Waits(kk) /\ kk \in KernelState /\ c \in Threads /\ c # Idle
  BY FieldTypes DEF Calling, Users
<1>2. /\ Good(off) /\ Step(kk, off) /\ Waits(off)
      /\ SameWaits(kk, off) /\ Plain(kk, off) /\ off.state = kk.state
      /\ off.timer = [kk.timer EXCEPT ![c] = FALSE]
  BY <1>1, TimerFields
<1>3. Step(kk, k2)
  BY <1>1, Exit_
<1>4. k2 = IF kk.state[c] = {"EXITED"} THEN off ELSE rem_thread(m, c)
  BY DEF exit, clear_timer
<1>5. /\ m \in KernelState /\ m = [off EXCEPT !.state = st] /\ off \in KernelState
  BY <1>1, <1>2, SetState, GoodType DEF StateBits
<1> HIDE DEF off, m, k2, st
<1>6. /\ SameWaits(off, m) /\ Plain(off, m) /\ m.timer = off.timer /\ m.state = st
  BY <1>5 DEF KernelState, SameWaits, Plain, SamePriorities
<1>7. CASE kk.state[c] = {"EXITED"}
  <2>1. k2 = off
    BY <1>4, <1>7
  <2>2. \A t \in Threads \ {c} : off.timer[t] = kk.timer[t]
    BY <1>1, <1>2, FieldTypes
  <2>3. Awake(off, c) /\ Lists(off)
    BY <1>1, <1>2 DEF Calling, Awake, SameWaits, Asleep, Waits
  <2>4. Moved(kk, k2, D)
    BY <1>2, <2>1, <2>2, <2>3, AloneMoved DEF SameWaits, Awake
  <2> QED BY <1>2, <1>7, <2>1, <2>3, <2>4 DEF k2, Step
<1>8. CASE kk.state[c] # {"EXITED"}
  <2>1. k2 = rem_thread(m, c)
    BY <1>4, <1>8
  <2>2. Unseen(m, k2)
    BY <1>1, <1>5, <2>1, RemUnseen
  <2>3. Plain(kk, k2) /\ SameWaits(kk, k2)
    BY <1>2, <1>6, <2>2 DEF Unseen, SameWaits, Plain, SamePriorities
  <2>4. k2.state = [kk.state EXCEPT ![c] = {"EXITED"}]
        /\ k2.timer = [kk.timer EXCEPT ![c] = FALSE]
    BY <1>2, <1>6, <2>2 DEF Unseen, st
  <2> kk.state \in [Threads -> SUBSET StateBits] /\ kk.timer \in [Threads -> BOOLEAN]
    BY <1>1, FieldTypes
  <2>5. \A t \in Threads \ {c} : k2.timer[t] = kk.timer[t] /\ k2.state[t] = kk.state[t]
    BY <2>4
  <2>6. ~Asleep(k2, c) /\ "EXITED" \in k2.state[c]
    BY <1>1, <2>4 DEF Asleep
  <2>7. Lists(k2) /\ k2.queue[c] = NoQueue
    BY <1>1, <2>3 DEF Calling, Awake, SameWaits, Waits, Lists
  <2>8. Moved(kk, k2, D)
    BY <1>3, <2>3, <2>5, <2>7, AloneMoved DEF SameWaits
  <2> QED BY <1>3, <2>3, <2>6, <2>7, <2>8 DEF k2, Step, Awake
<1> QED BY <1>7, <1>8

\* A timed wait on a condition variable, in time or not.
LEMMA WaitsInTime ==
    ASSUME NEW kk, Calling(kk), NEW q \in WaitQueues, NEW D
    PROVE  LET c  == kk.current_thread
               n  == set_timer(sleep(kk), "TIMEOUT")
               k2 == enqueue(n, q, c)
               k3 == alarm(n, c)
           IN  /\ Moved(kk, k2, D) /\ Plain(kk, k2)
               /\ k2.queue[c] = q /\ Asleep(k2, c)
               /\ k2.sleep_reason[c] = "TIMEOUT" /\ k2.wake_reason[c] = "NONE"
               /\ k2.timer[c]
               /\ Moved(kk, k3, D) /\ Plain(kk, k3) /\ Awake(k3, c)
               /\ k3.sleep_reason[c] = "NONE" /\ k3.wake_reason[c] = "TIMEOUT"
<1> DEFINE c  == kk.current_thread
           s  == sleep(kk)
           m  == set_sleep_reason(s, "TIMEOUT")
           ti == [m.timer EXCEPT ![c] = TRUE]
           n  == set_timer(s, "TIMEOUT")
           k2 == enqueue(n, q, c)
           k3 == alarm(n, c)
           w  == wake(set_wake_reason(clear_timer(n, c), c, "TIMEOUT"), c)
<1>1. Good(kk) /\ Waits(kk) /\ kk \in KernelState /\ c \in Users /\ c \in Threads
      /\ "TIMEOUT" \in Reasons
  BY FieldTypes DEF Calling, Reasons
<1>2. /\ Step(kk, s) /\ Good(s) /\ Plain(kk, s) /\ SameWaits(kk, s)
      /\ s.timer = kk.timer
      /\ s.state = [kk.state EXCEPT ![c] = @ \cup {"SLEEPING"}]
      /\ s.current_thread = c
  BY <1>1, SleepFields DEF Step
<1> HIDE DEF s
<1>3. s \in KernelState /\ m \in KernelState /\ Step(s, n) /\ Good(n) /\ n.current_thread = c
  BY <1>1, <1>2, GoodType, SetSleepReason, ReasonSteps DEF Quietly, Step
<1>4. /\ Plain(s, m) /\ m.current_thread = c
      /\ m.queue = s.queue /\ m.wait_queue = s.wait_queue
      /\ m.state = s.state /\ m.timer = s.timer
      /\ m.sleep_reason = [s.sleep_reason EXCEPT ![c] = "TIMEOUT"]
      /\ m.wake_reason = [s.wake_reason EXCEPT ![c] = "NONE"]
  BY <1>2, <1>3, SleepReasonFields
<1>5. n = [m EXCEPT !.timer = ti]
  BY <1>2, <1>4 DEF set_timer
<1> HIDE DEF m, ti, n
<1>6. /\ Plain(m, n)
      /\ n.queue = m.queue /\ n.wait_queue = m.wait_queue
      /\ n.state = m.state /\ n.timer = ti
      /\ n.sleep_reason = m.sleep_reason /\ n.wake_reason = m.wake_reason
  BY <1>3, <1>5 DEF KernelState, Plain, SamePriorities
<1>7. /\ Plain(kk, n) /\ n.queue = kk.queue /\ n.wait_queue = kk.wait_queue
      /\ n.state = [kk.state EXCEPT ![c] = @ \cup {"SLEEPING"}]
      /\ n.timer = [kk.timer EXCEPT ![c] = TRUE]
      /\ n.sleep_reason = [kk.sleep_reason EXCEPT ![c] = "TIMEOUT"]
      /\ n.wake_reason = [kk.wake_reason EXCEPT ![c] = "NONE"]
  BY <1>2, <1>4, <1>6 DEF SameWaits, Plain, SamePriorities, ti
<1>8. /\ n.queue[c] = NoQueue /\ Asleep(n, c) /\ n.timer[c]
      /\ n.sleep_reason[c] = "TIMEOUT" /\ n.wake_reason[c] = "NONE"
      /\ Lists(n) /\ Waits(n) /\ n \in KernelState
  <2>1. /\ n.queue[c] = NoQueue /\ Asleep(n, c) /\ n.timer[c]
        /\ n.sleep_reason[c] = "TIMEOUT" /\ n.wake_reason[c] = "NONE"
    BY <1>1, <1>7, FieldTypes DEF Calling, Awake, Asleep
  <2>2. Lists(n)
    BY <1>1, <1>7 DEF Waits, Lists
  <2>3. ASSUME NEW t \in Threads, n.queue[t] # NoQueue
        PROVE  /\ Asleep(n, t)
               /\ n.sleep_reason[t] \in {"WAIT", "TIMEOUT"} /\ n.wake_reason[t] = "NONE"
    <3>1. t # c /\ kk.queue[t] # NoQueue
      BY <1>7, <2>1, <2>3
    <3>2. /\ n.state[t] = kk.state[t] /\ n.sleep_reason[t] = kk.sleep_reason[t]
          /\ n.wake_reason[t] = kk.wake_reason[t]
      BY <1>1, <1>7, <3>1, FieldTypes
    <3> QED BY <1>1, <3>1, <3>2 DEF Waits, Asleep
  <2> QED BY <1>3, <2>1, <2>2, <2>3, GoodType DEF Waits
<1>9. Step(kk, n)
  BY <1>2, <1>3, StepTransitive
<1>10. ASSUME NEW t \in Threads \ {c}
       PROVE  /\ n.state[t] = kk.state[t] /\ n.timer[t] = kk.timer[t]
              /\ n.sleep_reason[t] = kk.sleep_reason[t]
              /\ n.wake_reason[t] = kk.wake_reason[t]
              /\ n.queue[t] = kk.queue[t]
  <2>1. /\ kk.timer \in [Threads -> BOOLEAN]
        /\ kk.state \in [Threads -> SUBSET StateBits]
        /\ kk.sleep_reason \in [Threads -> Reasons]
        /\ kk.wake_reason \in [Threads -> Reasons]
    BY <1>1, FieldTypes
  <2>2. n.timer[t] = kk.timer[t]
    BY <1>7, <2>1
  <2>3. n.state[t] = kk.state[t]
    BY <1>7, <2>1
  <2> QED BY <1>7, <2>1, <2>2, <2>3
<1>11. /\ Moved(kk, k2, D) /\ Plain(kk, k2)
       /\ k2.queue[c] = q /\ Asleep(k2, c)
       /\ k2.sleep_reason[c] = "TIMEOUT" /\ k2.wake_reason[c] = "NONE"
       /\ k2.timer[c]
  <2>1. /\ Lists(k2) /\ Plain(n, k2)
        /\ k2.queue = [n.queue EXCEPT ![c] = q]
        /\ k2.state = n.state /\ k2.timer = n.timer
        /\ k2.sleep_reason = n.sleep_reason /\ k2.wake_reason = n.wake_reason
    BY <1>1, <1>8, EnqueueLists
  <2>2. Step(kk, k2)
    <3>1. Step(n, k2)
      BY <1>1, <1>3, <1>8, Enqueue, QuietStep
    <3> QED BY <1>9, <3>1, StepTransitive
  <2> HIDE DEF k2
  <2>3. /\ k2.queue[c] = q /\ Asleep(k2, c)
        /\ k2.sleep_reason[c] = "TIMEOUT" /\ k2.wake_reason[c] = "NONE"
        /\ k2.timer[c]
    BY <1>1, <1>7, <1>8, <2>1, FieldTypes DEF Asleep
  <2>4. \A t \in Threads \ {c} : k2.queue[t] = kk.queue[t]
    BY <1>1, <1>7, <2>1, FieldTypes
  <2>5. ASSUME NEW t \in Threads \ {c}
        PROVE  /\ k2.queue[t] = kk.queue[t] /\ k2.state[t] = kk.state[t]
               /\ k2.timer[t] = kk.timer[t]
               /\ k2.sleep_reason[t] = kk.sleep_reason[t]
               /\ k2.wake_reason[t] = kk.wake_reason[t]
    BY <1>10, <2>1, <2>4
  <2>6. Moved(kk, k2, D)
    BY <2>1, <2>2, <2>3, <2>5, AloneMoved
  <2> QED BY <1>7, <2>1, <2>3, <2>6 DEF Plain, SamePriorities
<1>12. /\ Moved(kk, k3, D) /\ Plain(kk, k3) /\ Awake(k3, c)
       /\ k3.sleep_reason[c] = "NONE" /\ k3.wake_reason[c] = "TIMEOUT"
  <2>1. k3 = w
    BY <1>8 DEF alarm
  <2>2. Continued(n, k3, D) /\ Plain(n, k3)
    BY <1>1, <1>3, <1>8, AlarmContinued
  <2>3. Awake(k3, c) /\ k3.sleep_reason[c] = "NONE" /\ k3.wake_reason[c] = "TIMEOUT"
    <3> DEFINE off == clear_timer(n, c)
    <3>1. /\ Good(off) /\ Step(n, off) /\ Waits(off)
          /\ SameWaits(n, off) /\ off.state = n.state
      BY <1>1, <1>3, <1>8, TimerFields
    <3> HIDE DEF off
    <3>2. Woken(off, wake(set_wake_reason(off, c, "TIMEOUT"), c), c, "TIMEOUT")
      BY <1>1, <3>1, WokenFields DEF Waits, QueuedSleeps
    <3>3. Woken(off, k3, c, "TIMEOUT")
      BY <2>1, <3>2 DEF off
    <3> QED BY <1>1, <3>1, <3>3, FieldTypes DEF Woken, Awake, Asleep, SLEEPSET
  <2> HIDE DEF k3
  <2>4. Step(kk, k3) /\ Waits(k3)
    BY <1>9, <2>2, StepTransitive DEF Continued
  <2>5. ASSUME NEW t \in Threads \ {c}
        PROVE  /\ GoesOn(kk, k3, t) \/ Ends(kk, k3, t, D)
               /\ HasAlarm(kk, t) => HasAlarm(k3, t)
    <3>1. /\ GoesOn(n, k3, t) \/ Ends(n, k3, t, D)
          /\ HasAlarm(n, t) => HasAlarm(k3, t)
      BY <2>2 DEF Continued
    <3> QED BY <1>10, <3>1 DEF GoesOn, Ends, HasAlarm, Asleep
  <2>6. Moved(kk, k3, D)
    BY <2>4, <2>5 DEF Moved
  <2> QED BY <1>7, <2>2, <2>3, <2>6 DEF Plain, SamePriorities
<1> QED BY <1>11, <1>12 DEF k2, k3, n, s


-----------------------------------------------------------------------------
(* The wakeups of several threads, and the scheduling of threads.          *)

\* The first thread of a queue is one of those that wait there.
LEMMA HeadWaits ==
    ASSUME NEW kk, Good(kk), Waits(kk), NEW q \in WaitQueues, kk.wait_queue[q] # <<>>
    PROVE  LET t == Head(kk.wait_queue[q])
           IN  /\ t \in Users /\ kk.queue[t] = q /\ Asleep(kk, t)
               /\ kk.sleep_reason[t] \in {"WAIT", "TIMEOUT"}
<1> DEFINE w == kk.wait_queue[q]
           t == Head(w)
<1>1. w \in Seq(Threads) /\ w # <<>>
  BY FieldTypes
<1>2. t \in Threads /\ holds(w, t)
  <2>1. t = w[1] /\ 1 \in 1..Len(w) /\ t \in Threads
    BY <1>1
  <2> QED BY <2>1 DEF holds
<1>3. kk.queue[t] = q
  BY <1>2 DEF Waits, Lists
<1> HIDE DEF t
<1>4. Asleep(kk, t) /\ kk.sleep_reason[t] \in {"WAIT", "TIMEOUT"}
  BY <1>2, <1>3, QueueAssumption DEF Waits
<1>5. t # Idle
  BY <1>4 DEF Good, Agree, Sound, Runs, RUNNING, Asleep
<1> QED BY <1>2, <1>3, <1>4, <1>5 DEF Users, t

\* An empty queue is one that no thread waits in.
LEMMA EmptyQueue ==
    ASSUME NEW kk, Good(kk), Waits(kk), NEW q \in WaitQueues
    PROVE  kk.wait_queue[q] = <<>> <=> \A t \in Threads : kk.queue[t] # q
<1>1. kk.wait_queue[q] \in Seq(Threads)
  BY FieldTypes
<1>2. CASE kk.wait_queue[q] = <<>>
  <2>1. \A t \in Threads : ~holds(kk.wait_queue[q], t)
    BY <1>2 DEF holds
  <2> QED BY <1>2, <2>1 DEF Waits, Lists
<1>3. CASE kk.wait_queue[q] # <<>>
  BY <1>3, HeadWaits DEF Users
<1> QED BY <1>2, <1>3

\* wake_first() wakes the first thread of the queue, if there is one.
LEMMA WakeFirst ==
    ASSUME NEW kk, Good(kk), Waits(kk), NEW q \in WaitQueues, NEW D,
           kk.wait_queue[q] # <<>> => Head(kk.wait_queue[q]) \in D
    PROVE  LET k2 == wake_first(kk, q)
               t  == Head(kk.wait_queue[q])
           IN  /\ Continued(kk, k2, D) /\ Plain(kk, k2)
               /\ kk.wait_queue[q] = <<>> => k2 = kk
               /\ kk.wait_queue[q] # <<>> => Woken(kk, k2, t, "DONE")
<1> DEFINE t  == Head(kk.wait_queue[q])
           k2 == dismiss(kk, t, "DONE")
<1>1. CASE kk.wait_queue[q] = <<>>
  <2>1. wake_first(kk, q) = kk
    BY <1>1 DEF wake_first
  <2> QED BY <1>1, <2>1, ContinuedRefl DEF Plain, SamePriorities
<1>2. CASE kk.wait_queue[q] # <<>>
  <2>1. wake_first(kk, q) = k2
    BY <1>2 DEF wake_first
  <2>2. t \in Users /\ kk.sleep_reason[t] \in {"WAIT", "TIMEOUT"} /\ t \in D
    BY <1>2, HeadWaits
  <2> HIDE DEF t
  <2>3. Step(kk, k2) /\ Woken(kk, k2, t, "DONE")
    BY <2>2, DismissDone DEF Waits
  <2> HIDE DEF k2
  <2>4. Continued(kk, k2, D)
    BY <2>2, <2>3, WokenContinued DEF Reasons, Outcomes
  <2>5. Plain(kk, k2)
    BY <2>3 DEF Woken
  <2> QED BY <1>2, <2>1, <2>3, <2>4, <2>5 DEF t
<1> QED BY <1>1, <1>2

\* A waiter that is dismissed to be released: release() ends the wait that
\* the thread has left the queue of.
LEMMA DismissContinued ==
    ASSUME NEW kk, Good(kk), Waits(kk), NEW t \in Users, NEW D, t \in D,
           NEW reason \in {"DONE", "BREAK"}, kk.queue[t] # NoQueue
    PROVE  LET k2 == dismiss(kk, t, reason)
           IN  Continued(kk, k2, D) /\ Plain(kk, k2) /\ Woken(kk, k2, t, reason)
<1> DEFINE l  == leave_queue(kk, t)
           k2 == dismiss(kk, t, reason)
<1>0. /\ kk \in KernelState /\ t \in Threads /\ {"DONE", "BREAK"} \subseteq Reasons
      /\ kk.queue \in [Threads -> WaitQueues \cup {NoQueue}]
  BY FieldTypes DEF Users, Reasons
<1>1. kk.sleep_reason[t] \in {"WAIT", "TIMEOUT"}
  BY <1>0 DEF Waits
<1>2. /\ Lists(l) /\ Plain(kk, l)
      /\ l.queue = [kk.queue EXCEPT ![t] = NoQueue]
      /\ l.state = kk.state /\ l.timer = kk.timer
      /\ l.sleep_reason = kk.sleep_reason /\ l.wake_reason = kk.wake_reason
  BY <1>0, LeaveLists DEF Waits
<1>3. Good(l) /\ Step(kk, l)
  BY <1>0, LeaveQueue, QuietStep DEF Step
<1>4. k2 = wake(set_wake_reason(l, t, reason), t)
  <2>1. CASE reason = "DONE"
    BY <2>1 DEF dismiss, wake_done
  <2>2. CASE reason = "BREAK"
    <3>1. k2 = release(l, t)
      BY <2>2 DEF dismiss
    <3> QED BY <1>1, <1>2, <2>2, <3>1 DEF release, Breakable
  <2> QED BY <2>1, <2>2
<1> HIDE DEF l, k2
<1>5. l.queue[t] = NoQueue
  BY <1>0, <1>2
<1>6. Step(l, k2) /\ Woken(l, k2, t, reason)
  BY <1>0, <1>2, <1>3, <1>4, <1>5, WokenFields DEF QueuedSleeps
<1>7. [l.queue EXCEPT ![t] = NoQueue] = l.queue
  BY <1>0, <1>2
<1>8. Step(kk, k2)
  BY <1>3, <1>6, StepTransitive
<1>9. Woken(kk, k2, t, reason)
  BY <1>2, <1>6, <1>7 DEF Woken, Plain, SamePriorities
<1>10. Continued(kk, k2, D)
  BY <1>0, <1>1, <1>8, <1>9, WokenContinued DEF Outcomes
<1> QED BY <1>9, <1>10 DEF Woken, k2


\* The threads of a list that are dismissed among the first n.
Dismissed(list, chosen, n) == {list[i] : i \in chosen \cap (1..n)}

\* The threads of E have been dismissed, and no other thread was concerned.
AllDismissed(kk, k2, E, r) ==
    /\ k2.timer = kk.timer /\ Cleared(kk, k2)
    /\ \A t \in Threads :
         IF t \in E
         THEN /\ k2.queue[t] = NoQueue /\ ~Asleep(k2, t)
              /\ k2.sleep_reason[t] = "NONE" /\ k2.wake_reason[t] = r
         ELSE /\ k2.queue[t] = kk.queue[t] /\ (Asleep(k2, t) <=> Asleep(kk, t))
              /\ k2.sleep_reason[t] = kk.sleep_reason[t]
              /\ k2.wake_reason[t] = kk.wake_reason[t]

\* One turn of the loop of dismiss_all().
dismissed_turn(before, list, chosen, n, reason) ==
    IF n \in chosen THEN dismiss(before, list[n], reason) ELSE before

Turns(f, kk, list, chosen, reason) ==
    /\ f[0] = kk
    /\ \A n \in 1..Len(list) : f[n] = dismissed_turn(f[n-1], list, chosen, n, reason)
    /\ dismiss_all(kk, list, chosen, reason) = f[Len(list)]

\* The loop reaches a state after each turn: its recursive function exists.
LEMMA DismissTurns ==
    ASSUME NEW kk, NEW list, NEW chosen, NEW reason, Len(list) \in Nat
    PROVE  \E f : Turns(f, kk, list, chosen, reason)
<1> DEFINE turn(f, n) == IF n = 0 THEN kk
                         ELSE IF n \in chosen THEN dismiss(f[n-1], list[n], reason)
                         ELSE f[n-1]
           IsAfter(f, m) == f = [n \in 0..m |-> turn(f, n)]
           T == {m \in Nat : ~\E f : IsAfter(f, m)}
<1>1. ASSUME NEW m \in Nat, NEW f, IsAfter(f, m)
      PROVE  \E g : IsAfter(g, m + 1)
  <2> DEFINE g == [n \in 0..m+1 |-> IF n <= m THEN f[n] ELSE turn(f, m + 1)]
  <2>1. \A n \in 0..m : g[n] = f[n] /\ f[n] = turn(f, n)
    <3>1. \A n \in 0..m : n \in 0..m+1 /\ n <= m
      OBVIOUS
    <3> QED BY <1>1, <3>1
  <2>2. g[m + 1] = turn(f, m + 1)
    <3>1. m + 1 \in 0..m+1 /\ ~(m + 1 <= m)
      OBVIOUS
    <3> QED BY <3>1
  <2> DEFINE h == [n \in 0..m+1 |-> turn(g, n)]
  <2>3. \A n \in 0..m+1 : g[n] = h[n]
    <3> SUFFICES ASSUME NEW n \in 0..m+1 PROVE g[n] = turn(g, n)
      OBVIOUS
    <3>1. CASE n = 0
      <4>1. 0 \in 0..m
        OBVIOUS
      <4>2. g[0] = turn(f, 0)
        <5> HIDE DEF g, turn
        <5> QED BY <2>1, <4>1
      <4>3. turn(f, 0) = kk /\ turn(g, 0) = kk
        OBVIOUS
      <4> HIDE DEF g, turn
      <4> QED BY <3>1, <4>2, <4>3
    <3>2. CASE n \in 1..m
      <4>1. n - 1 \in 0..m /\ n \in 0..m /\ n # 0
        BY <3>2
      <4>2. g[n-1] = f[n-1] /\ g[n] = turn(f, n)
        BY <2>1, <4>1
      <4> QED BY <4>1, <4>2
    <3>3. CASE n = m + 1
      <4>1. n - 1 \in 0..m /\ n # 0 /\ n - 1 = m
        BY <3>3
      <4>2. g[n-1] = f[n-1]
        BY <2>1, <4>1
      <4> QED BY <2>2, <3>3, <4>1, <4>2
    <3> QED BY <3>1, <3>2, <3>3
  <2>4. g = h
    <3>1. g = [n \in 0..m+1 |-> g[n]] /\ h = [n \in 0..m+1 |-> h[n]]
      OBVIOUS
    <3> HIDE DEF g, h
    <3> QED BY <2>3, <3>1
  <2> QED BY <2>4
<1>2. \E f : IsAfter(f, 0)
  <2> DEFINE f == [n \in 0..0 |-> kk]
             h == [n \in 0..0 |-> turn(f, n)]
  <2>1. f = h
    <3>1. \A n \in 0..0 : turn(f, n) = kk
      OBVIOUS
    <3> QED BY <3>1
  <2> QED BY <2>1
<1>3. T = {}
  <2> SUFFICES ASSUME T # {} PROVE FALSE
    OBVIOUS
  <2>1. PICK m \in T : \A q \in T : m <= q
    <3>1. T \in SUBSET Nat
      OBVIOUS
    <3> HIDE DEF T
    <3> QED BY <3>1, NatMin
  <2>2. m \in Nat /\ ~\E f : IsAfter(f, m)
    BY <2>1
  <2>3. m # 0
    BY <1>2, <2>2
  <2>4. m - 1 \in Nat /\ ~(m <= m - 1) /\ (m - 1) + 1 = m
    BY <2>2, <2>3
  <2>5. m - 1 \notin T
    BY <2>1, <2>4
  <2>6. PICK f : IsAfter(f, m - 1)
    BY <2>4, <2>5
  <2>7. \E g : IsAfter(g, (m - 1) + 1)
    BY <1>1, <2>4, <2>6
  <2> QED BY <2>2, <2>4, <2>7
<1>4. \E f : IsAfter(f, Len(list))
  BY <1>3
<1> DEFINE after == CHOOSE f : IsAfter(f, Len(list))
<1>5. IsAfter(after, Len(list))
  BY <1>4
<1>6. dismiss_all(kk, list, chosen, reason) = after[Len(list)]
  BY DEF dismiss_all
<1> HIDE DEF after
<1>7. \A n \in 0..Len(list) : after[n] = turn(after, n)
  BY <1>5
<1>8. after[0] = kk
  BY <1>7
<1>9. ASSUME NEW n \in 1..Len(list)
      PROVE  after[n] = dismissed_turn(after[n-1], list, chosen, n, reason)
  <2>1. n \in 0..Len(list) /\ n # 0
    OBVIOUS
  <2> QED BY <1>7, <2>1 DEF dismissed_turn
<1> QED BY <1>6, <1>8, <1>9 DEF Turns

\* dismiss_all(): every chosen thread of the queue is woken or released,
\* exactly once, and no other thread is concerned.
LEMMA DismissAll ==
    ASSUME NEW kk, Good(kk), Waits(kk), NEW q \in WaitQueues, NEW chosen,
           NEW reason \in {"DONE", "BREAK"}
    PROVE  LET list == kk.wait_queue[q]
               k2   == dismiss_all(kk, list, chosen, reason)
               D    == Dismissed(list, chosen, Len(list))
           IN  Continued(kk, k2, D) /\ Plain(kk, k2) /\ AllDismissed(kk, k2, D, reason)
<1> DEFINE list == kk.wait_queue[q]
           D    == Dismissed(list, chosen, Len(list))
<1>1. /\ list \in Seq(Threads) /\ Len(list) \in Nat /\ Distinct(list)
      /\ \A i \in 1..Len(list) : list[i] \in Threads
      /\ \A t \in Threads : holds(list, t) <=> kk.queue[t] = q
  BY FieldTypes DEF Waits, Lists
<1>2. ASSUME NEW i \in 1..Len(list)
      PROVE  list[i] \in Users /\ kk.queue[list[i]] = q
  <2>1. holds(list, list[i])
    BY DEF holds
  <2>2. list[i] \in Threads /\ kk.queue[list[i]] = q
    BY <1>1, <2>1
  <2>3. Asleep(kk, list[i])
    BY <2>2, QueueAssumption DEF Waits
  <2>4. list[i] # Idle
    BY <2>3 DEF Good, Agree, Sound, Runs, RUNNING, Asleep
  <2> QED BY <2>2, <2>4 DEF Users
<1> HIDE DEF list
<1>2a. \E f : Turns(f, kk, list, chosen, reason)
  BY <1>1, DismissTurns
<1>3. PICK f : /\ f[0] = kk
               /\ \A n \in 1..Len(list) :
                    f[n] = dismissed_turn(f[n-1], list, chosen, n, reason)
               /\ dismiss_all(kk, list, chosen, reason) = f[Len(list)]
  BY <1>2a DEF Turns
<1> DEFINE Done(n) == /\ Continued(kk, f[n], D) /\ Plain(kk, f[n])
                      /\ AllDismissed(kk, f[n], Dismissed(list, chosen, n), reason)
<1>4. Done(0)
  <2>1. Dismissed(list, chosen, 0) = {}
    BY DEF Dismissed
  <2> QED BY <1>3, <2>1, ContinuedRefl DEF Plain, SamePriorities, AllDismissed, Cleared
<1>5. ASSUME NEW n \in 1..Len(list), Done(n-1) PROVE Done(n)
  <2> DEFINE t  == list[n]
             b  == f[n-1]
             k2 == f[n]
             E  == Dismissed(list, chosen, n-1)
             F  == Dismissed(list, chosen, n)
  <2>1. /\ Continued(kk, b, D) /\ Plain(kk, b) /\ AllDismissed(kk, b, E, reason)
        /\ Good(b) /\ Waits(b)
    BY <1>5 DEF Continued, Step
  <2>2. k2 = dismissed_turn(b, list, chosen, n, reason)
    BY <1>3
  <2>3. 1..n = (1..n-1) \cup {n} /\ n \notin 1..n-1 /\ 1..n \subseteq 1..Len(list)
    BY <1>1
  <2>4. CASE n \notin chosen
    <3>1. k2 = b
      BY <2>2, <2>4 DEF dismissed_turn
    <3>2. chosen \cap (1..n) = chosen \cap (1..n-1)
      BY <2>3, <2>4
    <3>3. F = E
      BY <3>2 DEF Dismissed
    <3> QED BY <2>1, <3>1, <3>3
  <2>5. CASE n \in chosen
    <3>1. k2 = dismiss(b, t, reason)
      BY <2>2, <2>5 DEF dismissed_turn
    <3>2. t \notin E
      <4> SUFFICES ASSUME NEW i \in chosen \cap (1..n-1), list[i] = list[n] PROVE FALSE
        BY DEF Dismissed
      <4>1. i \in 1..Len(list) /\ i # n
        BY <2>3
      <4> QED BY <1>1, <4>1 DEF Distinct
    <3>3. t \in Users /\ t \in Threads /\ kk.queue[t] = q
      BY <1>2 DEF Users
    <3>4. t \in D
      BY <2>3, <2>5 DEF Dismissed
    <3>5. b.queue[t] # NoQueue
      BY <2>1, <3>2, <3>3, QueueAssumption DEF AllDismissed
    <3>6. F = E \cup {t}
      BY <2>3, <2>5 DEF Dismissed
    <3> HIDE DEF b, t, E, F, k2, D
    <3>7. Continued(b, k2, D) /\ Plain(b, k2) /\ Woken(b, k2, t, reason)
      BY <2>1, <3>1, <3>3, <3>4, <3>5, DismissContinued
    <3>8. Continued(kk, k2, D)
      BY <2>1, <3>7, ContinuedTransitive
    <3>9. Plain(kk, k2)
      BY <2>1, <3>7 DEF Plain, SamePriorities
    <3>10. /\ b.queue \in [Threads -> WaitQueues \cup {NoQueue}]
           /\ b.state \in [Threads -> SUBSET StateBits]
           /\ b.sleep_reason \in [Threads -> Reasons]
           /\ b.wake_reason \in [Threads -> Reasons]
      BY <2>1, FieldTypes
    <3>11. AllDismissed(kk, k2, F, reason)
      <4>1. k2.timer = kk.timer /\ Cleared(kk, k2)
        <5>1. Cleared(b, k2)
          BY <2>1, <3>3, <3>7, WokenCleared DEF Woken
        <5> QED BY <2>1, <3>7, <5>1 DEF AllDismissed, Woken, Cleared
      <4>2. /\ k2.queue[t] = NoQueue /\ ~Asleep(k2, t)
            /\ k2.sleep_reason[t] = "NONE" /\ k2.wake_reason[t] = reason
        BY <3>3, <3>7, <3>10 DEF Woken, Asleep, SLEEPSET
      <4>3. \A u \in Threads \ {t} :
              /\ k2.queue[u] = b.queue[u] /\ (Asleep(k2, u) <=> Asleep(b, u))
              /\ k2.sleep_reason[u] = b.sleep_reason[u]
              /\ k2.wake_reason[u] = b.wake_reason[u]
        BY <3>3, <3>7, <3>10 DEF Woken, Asleep
      <4> QED BY <2>1, <3>6, <4>1, <4>2, <4>3 DEF AllDismissed
    <3> QED BY <3>8, <3>9, <3>11 DEF k2, F
  <2> QED BY <2>4, <2>5
<1> HIDE DEF Done
<1>6. \A n \in 0..Len(list) : Done(n)
  <2> DEFINE T == {n \in 0..Len(list) : ~Done(n)}
  <2> SUFFICES ASSUME T # {} PROVE FALSE
    OBVIOUS
  <2>1. T \in SUBSET Nat
    OBVIOUS
  <2>2. PICK n \in T : \A m \in T : n <= m
    <3> HIDE DEF T
    <3> QED BY <2>1, NatMin
  <2>3. n # 0 /\ n \in 0..Len(list)
    BY <1>4, <2>2
  <2>4. n \in 1..Len(list) /\ n - 1 \in 0..Len(list) /\ ~(n <= n - 1)
    BY <1>1, <2>3
  <2>5. Done(n - 1)
    BY <2>2, <2>4
  <2>6. Done(n)
    BY <1>5, <2>4, <2>5
  <2> QED BY <2>2, <2>6
<1>7. Done(Len(list))
  BY <1>1, <1>6
<1> QED BY <1>3, <1>7 DEF Done, list

\* timeslice() is not seen by waiting threads.
LEMMA TimesliceContinued ==
    ASSUME NEW kk, Good(kk), Waits(kk), NEW D
    PROVE  Continued(kk, timeslice(kk), D) /\ Plain(kk, timeslice(kk))
<1>1. Step(kk, timeslice(kk))
  BY Timeslice
<1>2. Unseen(kk, timeslice(kk))
  BY GoodType DEF timeslice, timeslice_cpu, rotate_current, set_need_reschedule,
                  KernelState, Unseen, SameWaits, Plain, SamePriorities
<1> HIDE DEF timeslice
<1>3. Continued(kk, timeslice(kk), D)
  BY <1>1, <1>2, UnseenContinued DEF Unseen, Waits, SameWaits, Asleep
<1> QED BY <1>2, <1>3 DEF Unseen

\* The state after unlock_inner() has decided whether to switch threads.
switched(kk) ==
    LET next  == schedule(kk)
        saved == [timeslice_save(kk, kk.current_thread) EXCEPT
                     !.current_thread = next, !.need_reschedule = FALSE]
    IN  IF next = kk.current_thread THEN [kk EXCEPT !.need_reschedule = FALSE]
                                    ELSE timeslice_restore(saved, next)

\* A thread switch is not seen by waiting threads.
LEMMA SwitchUnseen ==
    ASSUME NEW kk, Good(kk), Waits(kk)
    PROVE  LET k2 == switched(kk)
           IN  /\ Good(k2) /\ Waits(k2) /\ Unseen(kk, k2) /\ Stays(kk, k2)
               /\ k2.current_thread = schedule(kk)
<1> DEFINE next == schedule(kk)
           s  == switched_to(kk, next)
           v  == timeslice_save(s, kk.current_thread)
           k2 == switched(kk)
<1>1. kk \in KernelState /\ kk.current_thread \in Threads
  BY FieldTypes
<1>2. Good(s) /\ Stays(kk, s) /\ s.current_thread = next /\ next \in Threads
  BY SwitchedTo, Schedule DEF Good
<1>3. Unseen(kk, s)
  BY <1>1 DEF switched_to, KernelState, Unseen, SameWaits, Plain, SamePriorities
<1>4. s \in KernelState
  BY <1>2, GoodType
<1>5. Good(v) /\ Stays(s, v) /\ v.current_thread = next /\ v \in KernelState
  BY <1>1, <1>2, <1>4, SaveRestore, QuietAfter
<1>6. Unseen(kk, v)
  BY <1>1, <1>3, <1>4 DEF timeslice_save, KernelState, Unseen, SameWaits, Plain, SamePriorities
<1>7. /\ Good(timeslice_restore(v, next)) /\ Stays(v, timeslice_restore(v, next))
      /\ timeslice_restore(v, next).current_thread = next
  BY <1>2, <1>5, SaveRestore, QuietAfter
<1>8. Unseen(kk, timeslice_restore(v, next))
  BY <1>5, <1>6 DEF timeslice_restore, KernelState, Unseen, SameWaits, Plain, SamePriorities
<1>9. k2 \in {s, timeslice_restore(v, next)}
  <2>1. CASE next = kk.current_thread
    BY <1>1, <2>1 DEF switched, switched_to, KernelState
  <2>2. CASE next # kk.current_thread
    <3>1. v = [timeslice_save(kk, kk.current_thread) EXCEPT
                 !.current_thread = next, !.need_reschedule = FALSE]
      BY <1>1 DEF timeslice_save, switched_to, KernelState
    <3> HIDE DEF v
    <3> QED BY <2>2, <3>1 DEF switched
  <2> QED BY <2>1, <2>2
<1>10. Stays(kk, v) /\ Stays(kk, timeslice_restore(v, next))
  BY <1>2, <1>5, <1>7 DEF Stays
<1> HIDE DEF s, v, k2, next
<1>11. /\ Good(k2) /\ Unseen(kk, k2) /\ Stays(kk, k2) /\ k2.current_thread = next
  BY <1>2, <1>3, <1>7, <1>8, <1>9, <1>10
<1>12. Waits(k2)
  BY <1>11 DEF Unseen, SameWaits, Waits, Lists, Asleep
<1> QED BY <1>11, <1>12 DEF k2, next

-----------------------------------------------------------------------------
(* Only suspend(), exit() and kill() keep a thread off the run queues when *)
(* it does not wait.                                                       *)

\* release() makes no thread unclear.
LEMMA ReleaseCleared ==
    ASSUME NEW kk, Good(kk), Waits(kk), NEW t \in Users
    PROVE  Cleared(kk, release(kk, t))
<1>1. CASE kk.sleep_reason[t] \notin Breakable
  BY <1>1 DEF release, Cleared
<1>2. CASE kk.sleep_reason[t] \in Breakable
  <2> DEFINE k2 == wake(set_wake_reason(kk, t, "BREAK"), t)
  <2>1. release(kk, t) = k2
    BY <1>2 DEF release
  <2>2. Lists(kk) /\ QueuedSleeps(kk, t) /\ "BREAK" \in Reasons /\ t \in Threads
    BY DEF Waits, QueuedSleeps, Reasons, Users
  <2>3. Woken(kk, k2, t, "BREAK")
    BY <2>2, WokenFields
  <2> HIDE DEF k2
  <2> QED BY <2>1, <2>2, <2>3, WokenCleared DEF Woken
<1> QED BY <1>1, <1>2

\* Nor does the alarm of a thread, or what clears its timer.
LEMMA AlarmCleared ==
    ASSUME NEW kk, Good(kk), NEW t \in Users, Lists(kk), QueuedSleeps(kk, t)
    PROVE  Cleared(kk, alarm(kk, t)) /\ Cleared(kk, clear_timer(kk, t))
<1> DEFINE off  == clear_timer(kk, t)
           w(r) == wake(set_wake_reason(off, t, r), t)
<1>1. t \in Threads /\ {"DONE", "TIMEOUT"} \subseteq Reasons /\ kk \in KernelState
  BY GoodType DEF Users, Reasons
<1>2. Good(off)
  BY <1>1, ReasonSteps DEF Step
<1>3. off.state = kk.state /\ off.queue = kk.queue /\ off.wait_queue = kk.wait_queue
  BY <1>1 DEF clear_timer, KernelState
<1>4. alarm(kk, t) \in {off, w("DONE"), w("TIMEOUT")}
  BY DEF alarm
<1> HIDE DEF off
<1>5. Cleared(kk, off)
  BY <1>3 DEF Cleared, Clear
<1>6. ASSUME NEW r \in {"DONE", "TIMEOUT"} PROVE Cleared(kk, w(r))
  <2>1. Lists(off) /\ QueuedSleeps(off, t)
    BY <1>3 DEF Lists, QueuedSleeps, Asleep
  <2>2. Woken(off, w(r), t, r)
    BY <1>1, <1>2, <2>1, WokenFields
  <2> HIDE DEF w
  <2>3. Cleared(off, w(r))
    BY <1>1, <1>2, <2>2, WokenCleared DEF Woken
  <2> QED BY <1>5, <2>3 DEF Cleared
<1> HIDE DEF w
<1>7. Cleared(kk, alarm(kk, t))
  BY <1>4, <1>5, <1>6
<1> QED BY <1>5, <1>7 DEF off

\* resume() takes a mark away, or leaves all marks.
LEMMA ResumeCleared ==
    ASSUME NEW kk, Good(kk), Waits(kk), NEW t \in Users
    PROVE  Cleared(kk, resume(kk, t))
<1> DEFINE v  == kk.state[t] \ {"SUSPENDED"}
           sc == [kk.suspend_count EXCEPT ![t] = 0]
           st == [kk.state EXCEPT ![t] = v]
           m  == [kk EXCEPT !.suspend_count = sc, !.state = st]
           d  == [kk EXCEPT !.suspend_count[t] = @ - 1]
           k2 == unsuspend(kk, t)
<1>1. t \in Threads /\ kk \in KernelState /\ kk.state \in [Threads -> SUBSET StateBits]
  BY FieldTypes DEF Users
<1>2. k2 = runnable_again(m, t)
  BY DEF unsuspend
<1>3. sc \in [Threads -> Nat] /\ st \in [Threads -> SUBSET StateBits]
  BY <1>1 DEF KernelState
<1>4. resume(kk, t) \in {kk, k2, d}
  BY DEF resume
<1>5. d.state = kk.state
  BY <1>1 DEF KernelState
<1> HIDE DEF sc, k2, d
<1>6. m \in KernelState /\ m.queue = kk.queue /\ m.state = st
  <2> HIDE DEF st
  <2> QED BY <1>1, <1>3 DEF KernelState
<1> HIDE DEF m
<1>7. m.state[t] = RUNNING => m.queue[t] = NoQueue
  BY <1>1, <1>6 DEF Waits, Asleep, RUNNING
<1>8. Unseen(m, k2)
  BY <1>1, <1>2, <1>6, <1>7, AgainUnseen
<1>9. Cleared(kk, k2)
  BY <1>1, <1>6, <1>8 DEF Unseen, Cleared, Clear
<1>10. Cleared(kk, kk) /\ Cleared(kk, d)
  BY <1>5 DEF Cleared, Clear
<1> QED BY <1>4, <1>9, <1>10

\* Setting the timer of a call, in time or not.
LEMMA ArmedCleared ==
    ASSUME NEW kk, Calling(kk)
    PROVE  Cleared(kk, armed(kk)) /\ Cleared(kk, overdue(kk))
<1> DEFINE c == kk.current_thread
           m == set_sleep_reason(kk, "TIMEOUT")
           a == armed(kk)
<1>1. kk \in KernelState /\ c \in Users
  BY FieldTypes DEF Calling
<1>2. m \in KernelState /\ m.state = kk.state
  BY <1>1, FieldTypes, SetSleepReason, SleepReasonFields DEF Quietly, Reasons, Calling
<1>3. a = [m EXCEPT !.timer[c] = TRUE]
  BY DEF armed, set_timer
<1>4. overdue(kk) = alarm(a, c)
  BY DEF overdue, armed
<1>5. Calling(a)
  BY ArmedMoved
<1> HIDE DEF m
<1>6. a.state = kk.state
  BY <1>2, <1>3 DEF KernelState
<1> HIDE DEF a
<1>7. Cleared(a, alarm(a, c))
  <2>1. Good(a) /\ Lists(a) /\ QueuedSleeps(a, c)
    BY <1>1, <1>5 DEF Calling, Waits, QueuedSleeps, Users
  <2> QED BY <1>1, <2>1, AlarmCleared
<1> QED BY <1>4, <1>6, <1>7 DEF Cleared, Clear, a

\* Going to sleep on an object, with and without a time limit.
LEMMA BlockCleared ==
    ASSUME NEW kk, Calling(kk), NEW q \in WaitQueues, NEW r \in {"WAIT", "TIMEOUT"}
    PROVE  Cleared(kk, block(kk, q, r))
<1> DEFINE c == kk.current_thread
           m == set_sleep_reason(kk, r)
           n == sleep(m)
<1>1. /\ Good(kk) /\ kk \in KernelState /\ c \in Users /\ c \in Threads /\ r \in Reasons
      /\ kk.state \in [Threads -> SUBSET StateBits]
  BY FieldTypes DEF Calling, Reasons
<1>2. Good(m) /\ m.state = kk.state /\ m.current_thread = c
  BY <1>1, ReasonSteps, SleepReasonFields DEF Step
<1>3. block(kk, q, r) = enqueue(n, q, c)
  BY DEF block
<1> HIDE DEF m
<1>4. Good(n) /\ n.state = [kk.state EXCEPT ![c] = @ \cup {"SLEEPING"}]
  BY <1>1, <1>2, SleepFields
<1> HIDE DEF n
<1>5. enqueue(n, q, c).state = n.state
  BY <1>4, GoodType DEF enqueue, KernelState
<1> QED BY <1>1, <1>3, <1>4, <1>5 DEF Cleared, Clear

\* A timed wait on a condition variable.
LEMMA WaitsInTimeCleared ==
    ASSUME NEW kk, Calling(kk), NEW q \in WaitQueues
    PROVE  LET c == kk.current_thread
               n == set_timer(sleep(kk), "TIMEOUT")
           IN  Cleared(kk, enqueue(n, q, c)) /\ Cleared(kk, alarm(n, c))
<1> DEFINE c == kk.current_thread
           s == sleep(kk)
           m == set_sleep_reason(s, "TIMEOUT")
           n == set_timer(s, "TIMEOUT")
<1>1. Good(kk) /\ c \in Users /\ c \in Threads /\ "TIMEOUT" \in Reasons
      /\ kk.state \in [Threads -> SUBSET StateBits]
  BY FieldTypes DEF Calling, Reasons
<1>2. /\ Good(s) /\ s.state = [kk.state EXCEPT ![c] = @ \cup {"SLEEPING"}]
      /\ s.current_thread = c /\ SameWaits(kk, s)
  BY <1>1, SleepFields DEF Step
<1> HIDE DEF s
<1>3. s \in KernelState /\ m \in KernelState /\ Good(n)
  BY <1>1, <1>2, GoodType, SetSleepReason, ReasonSteps DEF Quietly, Step
<1>4. m.state = s.state /\ m.queue = s.queue /\ m.wait_queue = s.wait_queue
  BY <1>3, SleepReasonFields
<1>5. n = [m EXCEPT !.timer[c] = TRUE]
  BY <1>2 DEF set_timer
<1> HIDE DEF m, n
<1>6. n.state = s.state /\ n.queue = s.queue /\ n.wait_queue = s.wait_queue
  BY <1>3, <1>4, <1>5 DEF KernelState
<1>7. Cleared(kk, n)
  BY <1>1, <1>2, <1>6 DEF Cleared, Clear
<1>8. enqueue(n, q, c).state = n.state
  BY <1>3, GoodType DEF enqueue, KernelState
<1>9. Lists(n) /\ QueuedSleeps(n, c)
  BY <1>1, <1>2, <1>6 DEF Calling, Waits, Lists, QueuedSleeps, SameWaits, Awake
<1>10. Cleared(n, alarm(n, c))
  BY <1>1, <1>3, <1>9, AlarmCleared
<1> QED BY <1>7, <1>8, <1>10 DEF Cleared, Clear, n, s

\* exit() marks the thread that exits, and no other.
LEMMA ExitCleared ==
    ASSUME NEW kk, Calling(kk)
    PROVE  \A t \in Threads \ {kk.current_thread} : Clear(kk, t) => Clear(exit(kk), t)
<1> DEFINE c   == kk.current_thread
           off == clear_timer(kk, c)
           m   == [off EXCEPT !.state[c] = {"EXITED"}]
<1>1. kk \in KernelState /\ c \in Threads
  BY FieldTypes DEF Calling, Users
<1>2. off \in KernelState /\ off.state = kk.state
  BY <1>1, ReasonSteps, GoodType DEF Calling, Step, clear_timer, KernelState, Reasons
<1>3. exit(kk) = IF kk.state[c] = {"EXITED"} THEN off ELSE rem_thread(m, c)
  BY DEF exit, clear_timer
<1>4. m \in KernelState
  BY <1>1, <1>2, SetState DEF StateBits
<1> HIDE DEF off
<1>5. \A t \in Threads \ {c} : m.state[t] = kk.state[t]
  BY <1>1, <1>2 DEF KernelState
<1> HIDE DEF m
<1>6. Unseen(m, rem_thread(m, c))
  BY <1>1, <1>4, RemUnseen
<1> QED BY <1>2, <1>3, <1>5, <1>6 DEF Clear, Unseen

\* Waking the first thread of a queue, or several.
LEMMA WakeFirstCleared ==
    ASSUME NEW kk, Good(kk), Waits(kk), NEW q \in WaitQueues
    PROVE  Cleared(kk, wake_first(kk, q))
<1> DEFINE t == Head(kk.wait_queue[q])
<1>1. CASE kk.wait_queue[q] = <<>>
  BY <1>1 DEF wake_first, Cleared
<1>2. CASE kk.wait_queue[q] # <<>>
  <2>1. t \in Users /\ t \in Threads
    BY <1>2, HeadWaits DEF Users
  <2>2. Woken(kk, wake_first(kk, q), t, "DONE")
    BY <1>2, WakeFirst
  <2> QED BY <2>1, <2>2, WokenCleared DEF Woken
<1> QED BY <1>1, <1>2

\* The scheduler does not touch these marks.
LEMMA TimesliceCleared ==
    ASSUME NEW kk, Good(kk), Waits(kk)
    PROVE  Cleared(kk, timeslice(kk)) /\ Cleared(kk, switched(kk))
<1>1. timeslice(kk).state = kk.state
  BY GoodType DEF timeslice, timeslice_cpu, rotate_current, set_need_reschedule, KernelState
<1>2. switched(kk).state = kk.state
  BY SwitchUnseen DEF Unseen
<1> QED BY <1>1, <1>2 DEF Cleared, Clear

-----------------------------------------------------------------------------
(* The initial state.                                                      *)

\* The program starts with the run queues as they should be, the best thread
\* running, and nobody waiting.
LEMMA StartedFacts ==
    /\ Good(started) /\ Waits(started)
    /\ started.mutex_count = [t \in Threads |-> 0]
    /\ started.priority = InitPriority
    /\ started.priority_inherited = [t \in Threads |-> FALSE]
    /\ \A t \in Threads : ~Asleep(started, t) /\ started.queue[t] = NoQueue
<1> DEFINE map == {p \in Priorities : InitQueues[p] # <<>>}
           first == Head(InitQueues[lowest_bit(map)])
           k0 == [constructed(InitPriority) EXCEPT
                    !.run_queue       = InitQueues,
                    !.queue_map       = map,
                    !.need_reschedule = FALSE,
                    !.state           = [t \in Threads |-> RUNNING],
                    !.suspend_count   = [t \in Threads |-> 0]]
           ks == started
<1>1. /\ InitQueues \in [Priorities -> Seq(Threads)]
      /\ InitPriority \in [Threads -> Priorities]
      /\ InitPriority[Idle] = MinPriority /\ Idle \in Threads
  BY QueuesOfThreads, InitPriorityOfThreads, ThreadsAssumption
<1> HIDE DEF map, first
<1>2. /\ k0.run_queue = InitQueues /\ k0.queue_map = map /\ k0.current_thread = Idle
      /\ k0.state = [t \in Threads |-> RUNNING]
      /\ k0.suspend_count = [t \in Threads |-> 0]
      /\ k0.priority = InitPriority /\ ~k0.need_reschedule
  BY DEF constructed
<1>3. k0 \in KernelState
  <2>1. map \in SUBSET Priorities
    BY DEF map
  <2>2. Quantum \in 0..CountMod-1
    BY QuantumAssumption
  <2>3. RUNNING \in SUBSET StateBits /\ "NONE" \in Reasons
    BY DEF RUNNING, Reasons
  <2>4. [p \in WaitQueues |-> <<>>] \in [WaitQueues -> Seq(Threads)]
    OBVIOUS
  <2> QED BY <1>1, <2>1, <2>2, <2>3, <2>4 DEF constructed, KernelState
<1>4. /\ ks.run_queue = InitQueues /\ ks.queue_map = map /\ ks.current_thread = first
      /\ ks.state = k0.state /\ ks.suspend_count = k0.suspend_count
      /\ ks.priority = InitPriority
      /\ ks.wait_queue = [q \in WaitQueues |-> <<>>]
      /\ ks.queue = [t \in Threads |-> NoQueue]
      /\ ks.mutex_count = [t \in Threads |-> 0]
      /\ ks.priority_inherited = [t \in Threads |-> FALSE]
  BY DEF started, constructed, map, first
<1>5. ks = [k0 EXCEPT !.current_thread = first]
  <2> DEFINE b == constructed(InitPriority)
  <2>1. ks = [b EXCEPT !.run_queue = InitQueues, !.queue_map = map, !.current_thread = first,
                       !.need_reschedule = FALSE, !.state = [t \in Threads |-> RUNNING],
                       !.suspend_count = [t \in Threads |-> 0]]
    BY DEF started, map, first
  <2>2. k0 = [b EXCEPT !.run_queue = InitQueues, !.queue_map = map, !.need_reschedule = FALSE,
                       !.state = [t \in Threads |-> RUNNING],
                       !.suspend_count = [t \in Threads |-> 0]]
    BY DEF k0
  <2> HIDE DEF b, ks, k0
  <2> QED BY ONLY <2>1, <2>2
<1> HIDE DEF k0, ks
<1>6. Sound(k0)
  <2>1. \A p \in Priorities : Distinct(InitQueues[p])
    BY QueuesOfThreads DEF Distinct
  <2>2. \A p \in Priorities : p \in map <=> InitQueues[p] # <<>>
    BY DEF map
  <2>3. Runs(k0, Idle) /\ k0.priority[Idle] = MinPriority /\ Held(k0)
    BY <1>1, <1>2 DEF Runs, Held
  <2> QED BY <1>2, <1>3, <2>1, <2>2, <2>3 DEF Sound
<1>7. Agree(k0)
  <2>1. ASSUME NEW t \in Threads PROVE Placed(k0, t)
    <3>1. Runs(k0, t)
      BY <1>2 DEF Runs
    <3>2. \A p \in Priorities : holds(InitQueues[p], t) <=> InitPriority[t] = p
      BY QueuesOfThreads
    <3> QED BY <1>2, <3>1, <3>2 DEF Placed
  <2> QED BY <1>6, <2>1 DEF Agree
<1>8. schedule(k0) = first /\ first \in Threads
  <2>1. schedule(k0) = first
    BY <1>2 DEF schedule, first
  <2> QED BY <1>7, <2>1, Schedule
<1>9. ks \in KernelState
  BY <1>3, <1>5, <1>8 DEF KernelState
<1>10. Good(ks)
  BY <1>2, <1>4, <1>7, <1>8, <1>9, Dispatch
<1>11. \A t \in Threads : ~Asleep(ks, t) /\ ks.queue[t] = NoQueue
  BY <1>2, <1>4 DEF Asleep, RUNNING
<1>12. Waits(ks)
  <2> SUFFICES /\ \A q \in WaitQueues : Distinct(ks.wait_queue[q])
               /\ \A q \in WaitQueues, t \in Threads : ~holds(ks.wait_queue[q], t)
    BY <1>11, QueueAssumption DEF Waits, Lists
  <2>0. \A q \in WaitQueues : ks.wait_queue[q] = <<>>
    BY <1>4
  <2>1. \A t : ~holds(<<>>, t)
    BY DEF holds
  <2>2. Distinct(<<>>)
    BY DEF Distinct
  <2> QED BY <2>0, <2>1, <2>2
<1> QED BY <1>4, <1>10, <1>11, <1>12 DEF ks

=============================================================================
