-------------------------- MODULE KernelOpsProofs --------------------------
(***************************************************************************)
(* Lemmas about the operations of KernelOps: each takes a Good state, where *)
(* run queues, bitmap, states and priorities agree and a reschedule is      *)
(* requested whenever a runnable thread is better than the current one, to  *)
(* a Good state, leaves the current thread current, and leaves every thread *)
(* that exited in that state.                                               *)
(***************************************************************************)
EXTENDS KernelOps, WellFoundedInduction, TLAPS

Distinct(q) == \A i, j \in 1..Len(q) : q[i] = q[j] => i = j

\* remove() takes one thread off a list and keeps the others, once each.
LEMMA RemoveFacts ==
    ASSUME NEW S, NEW q \in Seq(S), NEW t
    PROVE  /\ remove(q, t) \in Seq(S)
           /\ Distinct(q) =>
                /\ Distinct(remove(q, t))
                /\ \A u : holds(remove(q, t), u) <=> holds(q, u) /\ u # t
<1> DEFINE r == remove(q, t)
           p == position(q, t)
<1>1. CASE ~holds(q, t)
  BY <1>1 DEF remove
<1>2. CASE holds(q, t)
  <2>1. Len(q) \in Nat \ {0} /\ p \in 1..Len(q) /\ q[p] = t
    BY <1>2 DEF holds, position
  <2>2. \A i \in 1..Len(q)-1 : (IF i < p THEN q[i] ELSE q[i+1]) \in S
    BY <2>1
  <2>3. r = [i \in 1..Len(q)-1 |-> IF i < p THEN q[i] ELSE q[i+1]]
    BY <1>2 DEF remove
  <2> HIDE DEF p
  <2>4. r \in Seq(S) /\ Len(r) = Len(q) - 1
    <3> DEFINE f == [i \in 1..Len(q)-1 |-> IF i < p THEN q[i] ELSE q[i+1]]
    <3>1. f \in Seq(S) /\ Len(f) = Len(q) - 1
      BY <2>1, <2>2
    <3> QED BY <2>3, <3>1
  <2> HIDE DEF r
  <2>5. ASSUME Distinct(q) PROVE Distinct(r)
    <3>1. SUFFICES ASSUME NEW i \in 1..Len(r), NEW j \in 1..Len(r), i < j
                   PROVE  r[i] # r[j]
      BY <2>4 DEF Distinct
    <3> DEFINE at(n) == IF n < p THEN n ELSE n + 1
    <3>2. r[i] = q[at(i)] /\ r[j] = q[at(j)]
      BY <2>3, <2>4
    <3>3. at(i) \in 1..Len(q) /\ at(j) \in 1..Len(q) /\ at(i) # at(j)
      BY <2>1, <2>4, <3>1
    <3> QED BY <2>5, <3>2, <3>3 DEF Distinct
  <2>6. ASSUME Distinct(q), NEW u PROVE holds(r, u) <=> holds(q, u) /\ u # t
    <3>1. ASSUME holds(r, u) PROVE holds(q, u) /\ u # t
      BY <2>1, <2>3, <2>4, <2>6, <3>1 DEF Distinct, holds
    <3>2. ASSUME holds(q, u), u # t PROVE holds(r, u)
      <4>1. PICK i \in 1..Len(q) : q[i] = u
        BY <3>2 DEF holds
      <4>2. CASE i < p
        BY <2>1, <2>3, <2>4, <4>1, <4>2 DEF holds
      <4>3. CASE i > p
        <5>1. i - 1 \in 1..Len(r) /\ r[i-1] = q[i]
          BY <2>1, <2>3, <2>4, <4>1, <4>3
        <5> QED BY <4>1, <5>1 DEF holds
      <4> QED BY <2>1, <3>2, <4>1, <4>2, <4>3
    <3> QED BY <3>1, <3>2
  <2> QED BY <2>4, <2>5, <2>6 DEF r
<1> QED BY <1>1, <1>2

\* A thread queued at the tail is on the list, with the others, once.
LEMMA AppendFacts ==
    ASSUME NEW S, NEW q \in Seq(S), NEW t \in S
    PROVE  /\ Append(q, t) \in Seq(S) /\ Append(q, t) # <<>>
           /\ \A u : holds(Append(q, t), u) <=> holds(q, u) \/ u = t
           /\ Distinct(q) /\ ~holds(q, t) => Distinct(Append(q, t))
<1> DEFINE a == Append(q, t)
<1>1. a \in Seq(S) /\ Len(a) = Len(q) + 1 /\ Len(q) \in Nat
      /\ \A i \in 1..Len(q) : a[i] = q[i]
  OBVIOUS
<1>2. a[Len(q) + 1] = t
  OBVIOUS
<1> HIDE DEF a
<1>3. ASSUME NEW u PROVE holds(a, u) <=> holds(q, u) \/ u = t
  BY <1>1, <1>2 DEF holds
<1>4. Distinct(q) /\ ~holds(q, t) => Distinct(a)
  BY <1>1, <1>2 DEF holds, Distinct
<1> QED BY <1>1, <1>3, <1>4 DEF a

\* rotate() keeps the members of a list.
LEMMA RotateFacts ==
    ASSUME NEW S, NEW q \in Seq(S)
    PROVE  /\ rotate(q) \in Seq(S)
           /\ rotate(q) = <<>> <=> q = <<>>
           /\ \A u : holds(rotate(q), u) <=> holds(q, u)
           /\ Distinct(q) => Distinct(rotate(q))
<1>1. CASE q = <<>>
  BY <1>1 DEF rotate
<1>2. CASE q # <<>>
  <2> DEFINE r == rotate(q)
  <2>1. /\ r \in Seq(S) /\ Len(r) = Len(q) /\ Len(q) \in Nat \ {0}
        /\ \A i \in 1..Len(q)-1 : r[i] = q[i+1]
        /\ r[Len(q)] = q[1]
    BY <1>2 DEF rotate
  <2> HIDE DEF r
  <2>2. ASSUME NEW u PROVE holds(r, u) <=> holds(q, u)
    <3>1. holds(r, u) => holds(q, u)
      BY <2>1 DEF holds
    <3>2. ASSUME holds(q, u) PROVE holds(r, u)
      <4>1. PICK i \in 1..Len(q) : q[i] = u
        BY <3>2 DEF holds
      <4>2. CASE i = 1
        BY <2>1, <4>1, <4>2 DEF holds
      <4>3. CASE i # 1
        <5>1. i - 1 \in 1..Len(r) /\ r[i-1] = q[i]
          BY <2>1, <4>3
        <5> QED BY <4>1, <5>1 DEF holds
      <4> QED BY <4>2, <4>3
    <3> QED BY <3>1, <3>2
  <2>3. Distinct(q) => Distinct(r)
    BY <2>1 DEF Distinct
  <2>4. r # <<>>
    BY <2>1
  <2> QED BY <1>2, <2>1, <2>2, <2>3, <2>4 DEF r
<1> QED BY <1>1, <1>2

-----------------------------------------------------------------------------

Runs(k, t)     == k.state[t] = RUNNING
Placed(k, u)   == \A p \in Priorities :
                     holds(k.run_queue[p], u) <=> Runs(k, u) /\ k.priority[u] = p
Absent(k, u)   == \A p \in Priorities : ~holds(k.run_queue[p], u)
NotWorse(k, u) == Runs(k, u) => k.priority[k.current_thread] <= k.priority[u]
Ordered(k, U)  == k.need_reschedule \/ \A u \in U : NotWorse(k, u)

\* A thread with a suspend count is not runnable, nor can a wakeup make it so.
Held(k) == \A t \in Threads :
    k.suspend_count[t] > 0 => k.state[t] \cap {"SUSPENDED", "EXITED"} # {}

Sound(k) ==
    /\ k \in KernelState
    /\ \A p \in Priorities : /\ p \in k.queue_map <=> k.run_queue[p] # <<>>
                             /\ Distinct(k.run_queue[p])
    /\ Runs(k, Idle) /\ k.priority[Idle] = MinPriority
    /\ Held(k)

Agree(k)  == Sound(k) /\ \A u \in Threads : Placed(k, u)
Good(k)   == Agree(k) /\ Ordered(k, Threads)
Out(k, t) == Sound(k) /\ Absent(k, t) /\ \A u \in Threads \ {t} : Placed(k, u)

SameQueues(k, k2) == /\ k2.run_queue = k.run_queue
                     /\ k2.queue_map = k.queue_map
                     /\ k2.need_reschedule = k.need_reschedule
                     /\ k2.current_thread = k.current_thread
\* Nothing that run queues, states and priorities are about has changed.
Quietly(k, k2) == /\ k2 \in KernelState /\ SameQueues(k, k2)
                  /\ k2.state = k.state /\ k2.priority = k.priority
                  /\ k2.suspend_count = k.suspend_count
SameThreads(k, k2, U) == \A u \in U : /\ k2.state[u] = k.state[u]
                                      /\ k2.priority[u] = k.priority[u]

Stays(k, k2) == \A u \in Threads : "EXITED" \in k.state[u] => "EXITED" \in k2.state[u]
Step(k, k2) == /\ Good(k2)
               /\ k2.current_thread = k.current_thread
               /\ Stays(k, k2)

\* set_need_reschedule() changes that flag only.
LEMMA SetNeed ==
    ASSUME NEW k \in KernelState
    PROVE  LET k2 == set_need_reschedule(k)
           IN  /\ k2 \in KernelState /\ k2.need_reschedule
               /\ k2.run_queue = k.run_queue /\ k2.queue_map = k.queue_map
               /\ k2.current_thread = k.current_thread
               /\ k2.state = k.state /\ k2.priority = k.priority
               /\ k2.suspend_count = k.suspend_count
BY DEF set_need_reschedule, KernelState

\* timeslice_reset() does not concern the run queues.
LEMMA TimesliceReset ==
    ASSUME NEW k \in KernelState, NEW t \in Threads
    PROVE  Quietly(k, timeslice_reset(k, t))
<1> DEFINE v == [k.timeslice_count EXCEPT ![t] = Quantum]
<1>1. v \in [Threads -> 0..CountMod-1]
  BY QuantumAssumption DEF KernelState
<1>2. timeslice_reset(k, t) = [k EXCEPT !.timeslice_count = v]
  BY DEF timeslice_reset
<1> HIDE DEF v
<1> QED BY <1>1, <1>2 DEF KernelState, Quietly, SameQueues

\* Leaving a wait queue does not concern the run queues.
LEMMA LeaveQueue ==
    ASSUME NEW k \in KernelState, NEW t \in Threads
    PROVE  Quietly(k, leave_queue(k, t))
<1>1. CASE k.queue[t] = NoQueue
  BY <1>1 DEF leave_queue, Quietly, SameQueues
<1>2. CASE k.queue[t] # NoQueue
  <2> DEFINE q  == k.queue[t]
             wq == [k.wait_queue EXCEPT ![q] = remove(@, t)]
             qu == [k.queue EXCEPT ![t] = NoQueue]
  <2>1. /\ wq \in [WaitQueues -> Seq(Threads)]
        /\ qu \in [Threads -> WaitQueues \cup {NoQueue}]
    BY <1>2, RemoveFacts DEF KernelState
  <2>2. leave_queue(k, t) = [k EXCEPT !.wait_queue = wq, !.queue = qu]
    BY <1>2 DEF leave_queue
  <2> HIDE DEF wq, qu
  <2> QED BY <2>1, <2>2 DEF KernelState, Quietly, SameQueues
<1> QED BY <1>1, <1>2

\* ... nor does waiting on one.
LEMMA Enqueue ==
    ASSUME NEW k \in KernelState, NEW t \in Threads, NEW q \in WaitQueues
    PROVE  Quietly(k, enqueue(k, q, t))
<1> DEFINE wq == [k.wait_queue EXCEPT ![q] = Append(@, t)]
           qu == [k.queue EXCEPT ![t] = q]
<1>1. /\ wq \in [WaitQueues -> Seq(Threads)]
      /\ qu \in [Threads -> WaitQueues \cup {NoQueue}]
  BY AppendFacts DEF KernelState
<1>2. enqueue(k, q, t) = [k EXCEPT !.wait_queue = wq, !.queue = qu]
  BY DEF enqueue
<1> HIDE DEF wq, qu
<1> QED BY <1>1, <1>2 DEF KernelState, Quietly, SameQueues

\* The first half of add_thread(): what link changes.
LEMMA Link ==
    ASSUME NEW k \in KernelState, NEW t \in Threads
    PROVE  LET k2 == link(k, t)
               pri == k.priority[t]
           IN  /\ k2 \in KernelState
               /\ k2.run_queue = [k.run_queue EXCEPT ![pri] = Append(@, t)]
               /\ k2.queue_map = k.queue_map \cup {pri}
               /\ k2.current_thread = k.current_thread
               /\ k2.need_reschedule = k.need_reschedule
               /\ k2.state = k.state /\ k2.priority = k.priority
               /\ k2.suspend_count = k.suspend_count
<1> DEFINE pri == k.priority[t]
           rq  == [k.run_queue EXCEPT ![pri] = Append(@, t)]
           qm  == k.queue_map \cup {pri}
<1>1. rq \in [Priorities -> Seq(Threads)] /\ qm \in SUBSET Priorities
  BY DEF KernelState
<1>2. link(k, t) = [k EXCEPT !.run_queue = rq, !.queue_map = qm]
  BY DEF link
<1> HIDE DEF rq, qm
<1>3. /\ link(k, t) \in KernelState
      /\ link(k, t).run_queue = rq /\ link(k, t).queue_map = qm
      /\ link(k, t).current_thread = k.current_thread
      /\ link(k, t).need_reschedule = k.need_reschedule
      /\ link(k, t).state = k.state /\ link(k, t).priority = k.priority
      /\ link(k, t).suspend_count = k.suspend_count
  BY <1>1, <1>2 DEF KernelState
<1> QED BY <1>3 DEF rq, qm

\* What rem_thread() changes.
LEMMA RemThread ==
    ASSUME NEW k \in KernelState, NEW t \in Threads
    PROVE  LET k2 == rem_thread(k, t)
               pri == k.priority[t]
               rest == remove(k.run_queue[pri], t)
           IN  /\ k2 \in KernelState
               /\ k2.run_queue = [k.run_queue EXCEPT ![pri] = rest]
               /\ k2.queue_map = IF rest = <<>> THEN k.queue_map \ {pri}
                                                ELSE k.queue_map
               /\ k2.current_thread = k.current_thread
               /\ k2.need_reschedule = k.need_reschedule
               /\ k2.state = k.state /\ k2.priority = k.priority
               /\ k2.suspend_count = k.suspend_count
<1> DEFINE pri  == k.priority[t]
           rest == remove(k.run_queue[pri], t)
           rq   == [k.run_queue EXCEPT ![pri] = rest]
           qm   == IF rest = <<>> THEN k.queue_map \ {pri} ELSE k.queue_map
           k2   == rem_thread(k, t)
<1>1. rq \in [Priorities -> Seq(Threads)] /\ qm \in SUBSET Priorities
  BY RemoveFacts DEF KernelState
<1>2. k2 = [k EXCEPT !.run_queue = rq, !.queue_map = qm]
  BY DEF rem_thread
<1> HIDE DEF rq, qm, k2
<1>3. /\ k2 \in KernelState /\ k2.run_queue = rq /\ k2.queue_map = qm
      /\ k2.current_thread = k.current_thread
      /\ k2.need_reschedule = k.need_reschedule
      /\ k2.state = k.state /\ k2.priority = k.priority
      /\ k2.suspend_count = k.suspend_count
  BY <1>1, <1>2 DEF KernelState
<1> QED BY <1>3 DEF rq, qm, k2

-----------------------------------------------------------------------------

\* add_thread() of a thread that is on no run queue puts it where it should
\* be, and asks for a reschedule if it is better than the current thread.
LEMMA AddThread ==
    ASSUME NEW k, NEW t \in Threads, Out(k, t), Runs(k, t)
    PROVE  LET k2 == add_thread(k, t)
           IN  /\ Agree(k2) /\ (Ordered(k, Threads \ {t}) => Good(k2))
               /\ k2.current_thread = k.current_thread
               /\ k2.state = k.state /\ k2.priority = k.priority
               /\ k2.suspend_count = k.suspend_count
<1> DEFINE pri == k.priority[t]
           cur == k.current_thread
           l   == leave_queue(k, t)
           n   == link(l, t)
           s   == set_need_reschedule_for(n, t)
           k2  == add_thread(k, t)
<1>a. Priorities \subseteq Int
  BY PriorityAssumption DEF Priorities
<1>b. k \in KernelState
  BY DEF Out, Sound
<1>c. pri \in Priorities /\ cur \in Threads
  BY <1>b DEF KernelState
<1>0. k \in KernelState /\ pri \in Priorities /\ cur \in Threads
      /\ Priorities \subseteq Int
  BY <1>a, <1>b, <1>c
<1>1. Quietly(k, l)
  BY <1>0, LeaveQueue DEF Quietly
<1>2. /\ n \in KernelState
      /\ n.run_queue = [k.run_queue EXCEPT ![pri] = Append(@, t)]
      /\ n.queue_map = k.queue_map \cup {pri}
      /\ n.current_thread = cur /\ n.need_reschedule = k.need_reschedule
      /\ n.state = k.state /\ n.priority = k.priority
      /\ n.suspend_count = k.suspend_count
  <2>1. /\ l \in KernelState /\ l.priority[t] = pri
        /\ l.run_queue = k.run_queue /\ l.queue_map = k.queue_map
        /\ l.current_thread = cur /\ l.need_reschedule = k.need_reschedule
        /\ l.state = k.state /\ l.priority = k.priority
        /\ l.suspend_count = k.suspend_count
    BY <1>1 DEF Quietly, SameQueues
  <2> HIDE DEF l
  <2>2. /\ link(l, t) \in KernelState
        /\ link(l, t).run_queue = [l.run_queue EXCEPT ![l.priority[t]] = Append(@, t)]
        /\ link(l, t).queue_map = l.queue_map \cup {l.priority[t]}
        /\ link(l, t).current_thread = l.current_thread
        /\ link(l, t).need_reschedule = l.need_reschedule
        /\ link(l, t).state = l.state /\ link(l, t).priority = l.priority
        /\ link(l, t).suspend_count = l.suspend_count
    BY <2>1, Link
  <2> QED BY <2>1, <2>2
<1>3. /\ s \in KernelState
      /\ s.run_queue = n.run_queue /\ s.queue_map = n.queue_map
      /\ s.current_thread = cur /\ s.state = k.state /\ s.priority = k.priority
      /\ s.suspend_count = k.suspend_count
      /\ s.need_reschedule \/ (/\ ~(k.priority[cur] > pri)
                               /\ s.need_reschedule = k.need_reschedule)
  BY <1>2, SetNeed DEF set_need_reschedule_for
<1>4. /\ k2 \in KernelState /\ SameQueues(s, k2)
      /\ k2.state = k.state /\ k2.priority = k.priority
      /\ k2.suspend_count = k.suspend_count
  BY <1>3, TimesliceReset DEF add_thread, Quietly
<1> HIDE DEF k2, s, n, l
<1>5. /\ k2.run_queue = [k.run_queue EXCEPT ![pri] = Append(@, t)]
      /\ k2.queue_map = k.queue_map \cup {pri}
      /\ k2.current_thread = cur
      /\ k2.need_reschedule \/ (/\ ~(k.priority[cur] > pri)
                                /\ k2.need_reschedule = k.need_reschedule)
  BY <1>2, <1>3, <1>4 DEF SameQueues
<1>6. k.run_queue[pri] \in Seq(Threads) /\ k.run_queue \in [Priorities -> Seq(Threads)]
  BY <1>0 DEF KernelState
<1>7. /\ Append(k.run_queue[pri], t) # <<>>
      /\ \A u : holds(Append(k.run_queue[pri], t), u)
                   <=> holds(k.run_queue[pri], u) \/ u = t
      /\ Distinct(Append(k.run_queue[pri], t))
  <2> DEFINE q == k.run_queue[pri]
  <2>1. q \in Seq(Threads) /\ Distinct(q) /\ ~holds(q, t)
    BY <1>0, <1>6 DEF Out, Sound, Absent
  <2> HIDE DEF q
  <2>2. /\ Append(q, t) # <<>>
        /\ \A u : holds(Append(q, t), u) <=> holds(q, u) \/ u = t
        /\ Distinct(Append(q, t))
    BY <2>1, AppendFacts
  <2> QED BY <2>2 DEF q
<1>8. Sound(k2)
  <2>1. ASSUME NEW p \in Priorities
        PROVE  /\ p \in k2.queue_map <=> k2.run_queue[p] # <<>>
               /\ Distinct(k2.run_queue[p])
    <3>1. CASE p = pri
      BY <1>0, <1>5, <1>6, <1>7, <3>1
    <3>2. CASE p # pri
      <4>1. k2.run_queue[p] = k.run_queue[p] /\ (p \in k2.queue_map <=> p \in k.queue_map)
        BY <1>0, <1>5, <1>6, <3>2
      <4> QED BY <4>1 DEF Out, Sound
    <3> QED BY <3>1, <3>2
  <2> QED BY <1>4, <2>1 DEF Out, Sound, Runs, Held
<1>9. \A u \in Threads : Placed(k2, u)
  <2>1. Placed(k2, t)
    BY <1>0, <1>4, <1>5, <1>6, <1>7 DEF Out, Absent, Placed, Runs
  <2>2. ASSUME NEW u \in Threads \ {t} PROVE Placed(k2, u)
    BY <1>0, <1>4, <1>5, <1>6, <1>7, <2>2 DEF Out, Placed, Runs
  <2> QED BY <2>1, <2>2
<1>10. ASSUME Ordered(k, Threads \ {t}) PROVE Ordered(k2, Threads)
  <2>1. SUFFICES ASSUME ~k2.need_reschedule, NEW u \in Threads, Runs(k, u)
                 PROVE  k.priority[cur] <= k.priority[u]
    BY <1>4, <1>5 DEF Ordered, NotWorse, Runs
  <2>2. k.priority[cur] \in Int /\ k.priority[u] \in Int
    BY <1>0 DEF KernelState
  <2>3. CASE u = t
    BY <1>5, <2>1, <2>2, <2>3
  <2>4. CASE u # t
    BY <1>5, <1>10, <2>1, <2>4 DEF Ordered, NotWorse
  <2> QED BY <2>3, <2>4
<1> QED BY <1>4, <1>5, <1>8, <1>9, <1>10 DEF Good, Agree, k2

\* t is wherever its state and priority say, or (as in exit()) has just left
\* the state for which it is still queued.
Near(k, t) == /\ Sound(k)
              /\ \A p \in Priorities : holds(k.run_queue[p], t) => p = k.priority[t]
              /\ \A u \in Threads \ {t} : Placed(k, u)

\* rem_thread() takes a thread off the run queues altogether.
LEMMA RemoveFromQueue ==
    ASSUME NEW k, NEW t \in Threads, Near(k, t)
    PROVE  Out(rem_thread(k, t), t)
<1> DEFINE pri  == k.priority[t]
           rest == remove(k.run_queue[pri], t)
           k2   == rem_thread(k, t)
<1>0. k \in KernelState /\ pri \in Priorities
      /\ k.run_queue \in [Priorities -> Seq(Threads)]
  BY DEF Near, Sound, KernelState
<1>1. /\ k2 \in KernelState
      /\ k2.run_queue = [k.run_queue EXCEPT ![pri] = rest]
      /\ k2.queue_map = IF rest = <<>> THEN k.queue_map \ {pri} ELSE k.queue_map
      /\ k2.state = k.state /\ k2.priority = k.priority
      /\ k2.suspend_count = k.suspend_count
  BY <1>0, RemThread
<1>2. /\ Distinct(rest)
      /\ \A u : holds(rest, u) <=> holds(k.run_queue[pri], u) /\ u # t
  BY <1>0, RemoveFacts DEF Near, Sound
<1>3. rest # <<>> => k.run_queue[pri] # <<>>
  BY DEF remove, holds
<1> HIDE DEF k2, rest
<1>4. ASSUME NEW p \in Priorities
      PROVE  /\ p \in k2.queue_map <=> k2.run_queue[p] # <<>>
             /\ Distinct(k2.run_queue[p])
  <2>1. CASE p = pri
    BY <1>0, <1>1, <1>2, <1>3, <2>1 DEF Near, Sound
  <2>2. CASE p # pri
    <3>1. k2.run_queue[p] = k.run_queue[p] /\ (p \in k2.queue_map <=> p \in k.queue_map)
      BY <1>0, <1>1, <2>2
    <3> QED BY <3>1 DEF Near, Sound
  <2> QED BY <2>1, <2>2
<1>5. Absent(k2, t)
  BY <1>0, <1>1, <1>2 DEF Near, Absent
<1>6. ASSUME NEW u \in Threads \ {t} PROVE Placed(k2, u)
  BY <1>0, <1>1, <1>2, <1>6 DEF Near, Placed, Runs
<1>7. Sound(k2)
  BY <1>1, <1>4 DEF Near, Sound, Runs, Held
<1> QED BY <1>5, <1>6, <1>7 DEF Out, k2

\* Where every thread is in its place, a blocked one is on no run queue.
LEMMA AgreeIsNear ==
    ASSUME NEW k, NEW t \in Threads, Agree(k)
    PROVE  Near(k, t) /\ (~Runs(k, t) => Out(k, t))
BY DEF Agree, Near, Out, Placed, Absent

\* A thread that is off the run queues may change in any way.
LEMMA OutFrame ==
    ASSUME NEW k, NEW k2 \in KernelState, NEW t \in Threads \ {Idle}, Out(k, t),
           k2.run_queue = k.run_queue, k2.queue_map = k.queue_map,
           SameThreads(k, k2, Threads \ {t}), Held(k2)
    PROVE  Out(k2, t)
BY ThreadsAssumption DEF Out, Sound, Absent, Placed, Runs, SameThreads

\* The order of the other threads does not depend on what t does.
LEMMA OrderedFrame ==
    ASSUME NEW k, NEW k2, NEW U, NEW t \in Threads, Ordered(k, U \ {t}),
           k2.need_reschedule = k.need_reschedule,
           k2.current_thread = k.current_thread,
           k2.priority[k.current_thread] = k.priority[k.current_thread],
           SameThreads(k, k2, U \ {t})
    PROVE  Ordered(k2, U \ {t})
BY DEF Ordered, NotWorse, Runs, SameThreads

\* ... and one that stays off them leaves them as they should be.
LEMMA StaysOut ==
    ASSUME NEW k, NEW t \in Threads, Out(k, t), ~Runs(k, t),
           Ordered(k, Threads \ {t})
    PROVE  Good(k)
BY DEF Good, Agree, Out, Placed, Absent, Ordered, NotWorse

\* A thread that is off the run queues goes back if its state is RUNNING.
LEMMA RunnableAgain ==
    ASSUME NEW k, NEW t \in Threads, Out(k, t), Ordered(k, Threads \ {t})
    PROVE  LET k2 == runnable_again(k, t)
           IN  /\ Good(k2) /\ k2.current_thread = k.current_thread
               /\ k2.state = k.state /\ k2.priority = k.priority
               /\ k2.suspend_count = k.suspend_count
BY AddThread, StaysOut DEF runnable_again, Runs

-----------------------------------------------------------------------------

\* What does not concern the run queues preserves Good.
LEMMA QuietStep ==
    ASSUME NEW k, NEW k2, Good(k), Quietly(k, k2)
    PROVE  Step(k, k2)
BY DEF Good, Agree, Sound, Held, Placed, Ordered, NotWorse, Runs, Stays, Step,
       Quietly, SameQueues

\* Steps compose.
LEMMA StepTransitive ==
    ASSUME NEW k, NEW k2, NEW k3, Step(k, k2), Step(k2, k3)
    PROVE  Step(k, k3)
BY DEF Step, Stays

\* A thread that is off the run queues keeps its priority and changes
\* in any other way.
LEMMA OutStep ==
    ASSUME NEW k, NEW k2 \in KernelState, NEW t \in Threads \ {Idle},
           Out(k, t), Ordered(k, Threads \ {t}), SameQueues(k, k2),
           SameThreads(k, k2, Threads \ {t}), k2.priority = k.priority,
           Held(k2)
    PROVE  Out(k2, t) /\ Ordered(k2, Threads \ {t})
BY OutFrame, OrderedFrame DEF SameQueues

off_queue(k, t) == IF k.state[t] = RUNNING THEN rem_thread(k, t) ELSE k

\* After off_queue() the thread is on no run queue.
LEMMA OffQueue ==
    ASSUME NEW k, NEW t \in Threads, Good(k)
    PROVE  LET k2 == off_queue(k, t)
           IN  /\ k2 \in KernelState /\ Out(k2, t)
               /\ Ordered(k2, Threads \ {t})
               /\ k2.current_thread = k.current_thread
               /\ k2.need_reschedule = k.need_reschedule
               /\ k2.state = k.state /\ k2.priority = k.priority
               /\ k2.suspend_count = k.suspend_count
<1>1. k \in KernelState /\ Near(k, t) /\ Agree(k)
  BY AgreeIsNear DEF Good, Agree, Sound
<1>2. CASE Runs(k, t)
  <2>1. /\ Out(off_queue(k, t), t)
        /\ off_queue(k, t) \in KernelState
        /\ off_queue(k, t).current_thread = k.current_thread
        /\ off_queue(k, t).need_reschedule = k.need_reschedule
        /\ off_queue(k, t).state = k.state
        /\ off_queue(k, t).priority = k.priority
        /\ off_queue(k, t).suspend_count = k.suspend_count
    BY <1>1, <1>2, RemoveFromQueue, RemThread DEF off_queue, Runs
  <2> QED BY <2>1 DEF Good, Ordered, NotWorse, Runs
<1>3. CASE ~Runs(k, t)
  BY <1>1, <1>3, AgreeIsNear DEF off_queue, Runs, Good, Ordered
<1> QED BY <1>2, <1>3

\* Setting a state changes nothing else.
LEMMA SetState ==
    ASSUME NEW k \in KernelState, NEW t \in Threads, NEW v \in SUBSET StateBits
    PROVE  LET k2 == [k EXCEPT !.state[t] = v]
           IN  /\ k2 \in KernelState /\ SameQueues(k, k2)
               /\ k2.state = [k.state EXCEPT ![t] = v]
               /\ k2.priority = k.priority
               /\ k2.suspend_count = k.suspend_count
<1> DEFINE st == [k.state EXCEPT ![t] = v]
           k2 == [k EXCEPT !.state[t] = v]
<1>1. st \in [Threads -> SUBSET StateBits] /\ k2 = [k EXCEPT !.state = st]
  BY DEF KernelState
<1> HIDE DEF st, k2
<1>2. k2 \in KernelState /\ SameQueues(k, k2) /\ k2.state = st
      /\ k2.priority = k.priority /\ k2.suspend_count = k.suspend_count
  BY <1>1 DEF KernelState, SameQueues
<1> QED BY <1>2 DEF st, k2

set_suspend(k, t, v, n) == [k EXCEPT !.suspend_count[t] = n, !.state[t] = v]

\* Setting a state and a suspend count changes nothing else.
LEMMA SetSuspend ==
    ASSUME NEW k \in KernelState, NEW t \in Threads,
           NEW v \in SUBSET StateBits, NEW n \in Nat
    PROVE  LET k2 == set_suspend(k, t, v, n)
           IN  /\ k2 \in KernelState /\ SameQueues(k, k2)
               /\ k2.state = [k.state EXCEPT ![t] = v]
               /\ k2.priority = k.priority
               /\ k2.suspend_count = [k.suspend_count EXCEPT ![t] = n]
<1> DEFINE k2 == set_suspend(k, t, v, n)
           st == [k.state EXCEPT ![t] = v]
           sc == [k.suspend_count EXCEPT ![t] = n]
<1>1. /\ st \in [Threads -> SUBSET StateBits] /\ sc \in [Threads -> Nat]
      /\ k2 = [k EXCEPT !.suspend_count = sc, !.state = st]
  BY DEF KernelState, set_suspend
<1> HIDE DEF st, sc, k2
<1>2. k2 \in KernelState /\ SameQueues(k, k2) /\ k2.state = st
      /\ k2.priority = k.priority /\ k2.suspend_count = sc
  BY <1>1 DEF KernelState, SameQueues
<1> QED BY <1>2 DEF st, sc, k2

\* The reasons of a sleep do not concern the run queues, and keep their types.
LEMMA SetSleepReason ==
    ASSUME NEW k \in KernelState, NEW r \in Reasons
    PROVE  Quietly(k, set_sleep_reason(k, r))
<1> DEFINE cur == k.current_thread
           sr == [k.sleep_reason EXCEPT ![cur] = r]
           wr == [k.wake_reason EXCEPT ![cur] = "NONE"]
           k2 == set_sleep_reason(k, r)
<1>0. "NONE" \in Reasons
  BY DEF Reasons
<1>1. /\ sr \in [Threads -> Reasons] /\ wr \in [Threads -> Reasons]
      /\ k2 = [k EXCEPT !.sleep_reason = sr, !.wake_reason = wr]
  BY <1>0 DEF KernelState, set_sleep_reason
<1> HIDE DEF sr, wr, k2
<1>2. Quietly(k, k2)
  BY <1>1 DEF KernelState, SameQueues, Quietly
<1> QED BY <1>2 DEF k2

\* ... nor do the reasons of a wakeup,
LEMMA SetWakeReason ==
    ASSUME NEW k \in KernelState, NEW t \in Threads, NEW r \in Reasons
    PROVE  Quietly(k, set_wake_reason(k, t, r))
<1> DEFINE sr == [k.sleep_reason EXCEPT ![t] = "NONE"]
           wr == [k.wake_reason EXCEPT ![t] = r]
           k2 == set_wake_reason(k, t, r)
<1>0. "NONE" \in Reasons
  BY DEF Reasons
<1>1. /\ sr \in [Threads -> Reasons] /\ wr \in [Threads -> Reasons]
      /\ k2 = [k EXCEPT !.sleep_reason = sr, !.wake_reason = wr]
  BY <1>0 DEF KernelState, set_wake_reason
<1> HIDE DEF sr, wr, k2
<1>2. Quietly(k, k2)
  BY <1>1 DEF KernelState, SameQueues, Quietly
<1> QED BY <1>2 DEF k2

\* ... nor a thread's timer,
LEMMA SetTimerField ==
    ASSUME NEW k \in KernelState, NEW t \in Threads, NEW v \in BOOLEAN
    PROVE  Quietly(k, [k EXCEPT !.timer[t] = v])
<1> DEFINE ti == [k.timer EXCEPT ![t] = v]
           k2 == [k EXCEPT !.timer[t] = v]
<1>1. ti \in [Threads -> BOOLEAN] /\ k2 = [k EXCEPT !.timer = ti]
  BY DEF KernelState
<1> HIDE DEF ti, k2
<1>2. Quietly(k, k2)
  BY <1>1 DEF KernelState, SameQueues, Quietly
<1> QED BY <1>2 DEF k2

\* ... nor its queued wakeups.
LEMMA SetWakeups ==
    ASSUME NEW k \in KernelState, NEW t \in Threads, NEW n \in Nat
    PROVE  Quietly(k, [k EXCEPT !.wakeup_count[t] = n])
<1> DEFINE wc == [k.wakeup_count EXCEPT ![t] = n]
           k2 == [k EXCEPT !.wakeup_count[t] = n]
<1>1. wc \in [Threads -> Nat] /\ k2 = [k EXCEPT !.wakeup_count = wc]
  BY DEF KernelState
<1> HIDE DEF wc, k2
<1>2. Quietly(k, k2)
  BY <1>1 DEF KernelState, SameQueues, Quietly
<1> QED BY <1>2 DEF k2

\* A thread that is suspended may have its count changed.
LEMMA SetSuspendCount ==
    ASSUME NEW k, Good(k), NEW t \in Threads, k.suspend_count[t] > 0, NEW n \in Nat
    PROVE  Step(k, [k EXCEPT !.suspend_count[t] = n])
<1> DEFINE sc == [k.suspend_count EXCEPT ![t] = n]
           k2 == [k EXCEPT !.suspend_count[t] = n]
<1>1. k \in KernelState
  BY DEF Good, Agree, Sound
<1>2. sc \in [Threads -> Nat] /\ k2 = [k EXCEPT !.suspend_count = sc]
  BY <1>1 DEF KernelState
<1> HIDE DEF k2, sc
<1>3. k2 \in KernelState /\ SameQueues(k, k2) /\ k2.state = k.state
      /\ k2.priority = k.priority /\ k2.suspend_count = sc
  BY <1>1, <1>2 DEF KernelState, SameQueues
<1>4. Held(k2)
  BY <1>1, <1>3 DEF Held, Good, Agree, Sound, KernelState, sc
<1>5. Good(k2)
  BY <1>3, <1>4 DEF Good, Agree, Sound, Placed, Ordered, NotWorse, Runs, SameQueues
<1>6. Step(k, k2)
  BY <1>3, <1>5 DEF Step, Stays, SameQueues
<1> QED BY <1>6 DEF k2

-----------------------------------------------------------------------------
(* One lemma per operation: it is a Step.                                  *)

\* A blocked thread may get more bits in its state.
LEMMA ChangeBlocked ==
    ASSUME NEW k, NEW t \in Threads \ {Idle}, NEW v \in SUBSET StateBits,
           Good(k), ~Runs(k, t), v # {}, k.state[t] \subseteq v
    PROVE  LET k2 == [k EXCEPT !.state[t] = v]
           IN  Step(k, k2) /\ k2.state[t] = v
<1> DEFINE k2 == [k EXCEPT !.state[t] = v]
<1>1. k \in KernelState /\ Out(k, t) /\ Ordered(k, Threads \ {t}) /\ Held(k)
  BY AgreeIsNear DEF Good, Agree, Sound, Ordered
<1>2. k2 \in KernelState /\ SameQueues(k, k2)
      /\ k2.state = [k.state EXCEPT ![t] = v] /\ k2.priority = k.priority
      /\ k2.suspend_count = k.suspend_count
  BY <1>1, SetState
<1>3. k.state \in [Threads -> SUBSET StateBits]
  BY <1>1 DEF KernelState
<1> HIDE DEF k2
<1>4. k2.state[t] = v /\ SameThreads(k, k2, Threads \ {t})
  BY <1>2, <1>3 DEF SameThreads
<1>7. Held(k2)
  BY <1>1, <1>2, <1>4 DEF Held, SameThreads
<1>5. Good(k2)
  BY <1>1, <1>2, <1>4, <1>7, OutStep, StaysOut DEF Runs, RUNNING
<1>6. Stays(k, k2)
  BY <1>4 DEF SameThreads, Stays
<1> QED BY <1>2, <1>4, <1>5, <1>6 DEF Step, SameQueues, k2

\* sleep() leaves the current thread off the run queues.
LEMMA Sleep ==
    ASSUME NEW k, Good(k), k.current_thread # Idle
    PROVE  /\ Step(k, sleep(k))
           /\ ~Runs(sleep(k), k.current_thread)
<1> DEFINE cur == k.current_thread
           off == off_queue(k, cur)
           v   == off.state[cur] \cup {"SLEEPING"}
           k2  == sleep(k)
<1>1. k \in KernelState /\ cur \in Threads \ {Idle}
  BY DEF Good, Agree, Sound, KernelState
<1>2. /\ off \in KernelState /\ Out(off, cur)
      /\ Ordered(off, Threads \ {cur})
      /\ off.current_thread = cur
      /\ off.state = k.state /\ off.priority = k.priority
      /\ off.suspend_count = k.suspend_count
  BY <1>1, OffQueue
<1>3. k2 = [off EXCEPT !.state[cur] = v]
  BY DEF sleep, off_queue
<1>4. v \in SUBSET StateBits /\ k.state \in [Threads -> SUBSET StateBits]
  BY <1>1, <1>2 DEF KernelState, StateBits
<1> HIDE DEF k2, off, v
<1>5. /\ k2 \in KernelState /\ SameQueues(off, k2)
      /\ k2.state = [off.state EXCEPT ![cur] = v] /\ k2.priority = off.priority
      /\ k2.suspend_count = off.suspend_count
  BY <1>1, <1>2, <1>3, <1>4, SetState
<1>6. k2.state[cur] = v /\ SameThreads(off, k2, Threads \ {cur})
  BY <1>1, <1>2, <1>4, <1>5 DEF SameThreads
<1>7. "SLEEPING" \in v /\ ("EXITED" \in k.state[cur] => "EXITED" \in v)
  BY <1>2 DEF v
<1>8. ~Runs(k2, cur)
  BY <1>6, <1>7 DEF Runs, RUNNING
<1>11. Held(k2)
  <2>1. off.state[cur] \subseteq v /\ Held(off)
    BY <1>2 DEF v, Out, Sound
  <2> QED BY <1>5, <1>6, <2>1 DEF Held, SameThreads
<1>9. Good(k2)
  BY <1>1, <1>2, <1>5, <1>6, <1>8, <1>11, OutStep, StaysOut
<1>10. Stays(k, k2) /\ k2.current_thread = cur
  BY <1>1, <1>2, <1>5, <1>6, <1>7 DEF SameThreads, SameQueues, Stays
<1> QED BY <1>8, <1>9, <1>10 DEF Step, k2

\* sleep() and the COUNTSLEEP bit.
LEMMA Counted ==
    ASSUME NEW k, Good(k), k.current_thread # Idle
    PROVE  Step(k, counted(k))
<1> DEFINE cur == k.current_thread
           s == sleep(k)
           v == s.state[cur] \cup {"COUNTSLEEP"}
<1>1. cur \in Threads \ {Idle}
  BY DEF Good, Agree, Sound, KernelState
<1>2. Step(k, s) /\ ~Runs(s, cur)
  BY Sleep
<1>3. v \in SUBSET StateBits
  BY <1>1, <1>2 DEF Step, Good, Agree, Sound, KernelState, StateBits
<1>4. Step(s, [s EXCEPT !.state[cur] = v])
  <2> HIDE DEF s
  <2> QED BY <1>1, <1>2, <1>3, ChangeBlocked DEF Step
<1>5. counted(k) = [s EXCEPT !.state[cur] = v]
  BY DEF counted
<1> QED BY <1>2, <1>4, <1>5, StepTransitive

\* The operations on reasons and timers are Steps.
LEMMA ReasonSteps ==
    ASSUME NEW k, Good(k), NEW t \in Threads, NEW r \in Reasons
    PROVE  /\ Step(k, set_sleep_reason(k, r))
           /\ Step(k, set_wake_reason(k, t, r))
           /\ Step(k, set_timer(k, r))
           /\ Step(k, clear_timer(k, t))
<1>1. k \in KernelState /\ k.current_thread \in Threads
  BY DEF Good, Agree, Sound, KernelState
<1>2. Step(k, set_sleep_reason(k, r)) /\ Step(k, set_wake_reason(k, t, r))
  BY <1>1, SetSleepReason, SetWakeReason, QuietStep
<1>3. Step(k, clear_timer(k, t))
  BY <1>1, SetTimerField, QuietStep DEF clear_timer
<1>4. Step(k, set_timer(k, r))
  <2> DEFINE s == set_sleep_reason(k, r)
             k2 == [s EXCEPT !.timer[k.current_thread] = TRUE]
  <2>1. s \in KernelState /\ Good(s)
    BY <1>2 DEF Step, Good, Agree, Sound
  <2>2. set_timer(k, r) = k2
    BY DEF set_timer
  <2> HIDE DEF s
  <2>3. Step(s, k2)
    BY <1>1, <2>1, SetTimerField, QuietStep
  <2> QED BY <1>2, <2>2, <2>3, StepTransitive DEF s
<1> QED BY <1>2, <1>3, <1>4

\* A Good state has its type.
LEMMA GoodType ==
    ASSUME NEW k, Good(k)
    PROVE  k \in KernelState /\ k.current_thread \in Threads
BY DEF Good, Agree, Sound, KernelState

\* The counts are natural numbers.
LEMMA CountTypes ==
    ASSUME NEW k, Good(k), NEW t \in Threads
    PROVE  /\ k \in KernelState /\ k.suspend_count[t] \in Nat
           /\ k.wakeup_count[t] \in Nat
<1>1. k \in KernelState
  BY GoodType
<1>2. k.suspend_count \in [Threads -> Nat] /\ k.wakeup_count \in [Threads -> Nat]
  BY <1>1 DEF KernelState
<1> QED BY <1>1, <1>2

\* wake() is a Step: only the bits of a sleep are taken away.
LEMMA Wake ==
    ASSUME NEW k, Good(k), NEW t \in Threads \ {Idle}
    PROVE  Step(k, wake(k, t))
<1> DEFINE v == k.state[t] \ SLEEPSET
           m == [k EXCEPT !.state[t] = v]
           l == leave_queue(m, t)
           k2 == wake(k, t)
<1>1. CASE k.state[t] \cap SLEEPSET = {}
  BY <1>1 DEF wake, Step, Stays
<1>2. CASE k.state[t] \cap SLEEPSET # {}
  <2>1. /\ k \in KernelState /\ Out(k, t) /\ Ordered(k, Threads \ {t})
        /\ k.state \in [Threads -> SUBSET StateBits]
    BY <1>2, AgreeIsNear DEF Good, Agree, Sound, Ordered, Runs, RUNNING, KernelState
  <2>2. v \in SUBSET StateBits
    BY <2>1
  <2>3. m \in KernelState /\ SameQueues(k, m)
        /\ m.state = [k.state EXCEPT ![t] = v] /\ m.priority = k.priority
        /\ m.suspend_count = k.suspend_count
    BY <2>1, <2>2, SetState
  <2> HIDE DEF m
  <2>4. Quietly(m, l)
    BY <2>3, LeaveQueue
  <2> HIDE DEF l
  <2>5. /\ l \in KernelState /\ SameQueues(k, l)
        /\ SameThreads(k, l, Threads \ {t}) /\ l.priority = k.priority
        /\ l.state[t] = v /\ l.suspend_count = k.suspend_count
    BY <2>1, <2>3, <2>4 DEF Quietly, SameQueues, SameThreads
  <2>10. Held(l)
    <3>1. Held(k)
      BY DEF Good, Agree, Sound
    <3> QED BY <2>3, <2>5, <3>1 DEF Held, SameThreads, SLEEPSET
  <2>6. Out(l, t) /\ Ordered(l, Threads \ {t})
    BY <2>1, <2>5, <2>10, OutStep
  <2>7. k2 = runnable_again(l, t)
    BY <1>2 DEF wake, l, m
  <2> HIDE DEF k2
  <2>8. Good(k2) /\ k2.current_thread = k.current_thread /\ k2.state = l.state
    <3>1. /\ Good(runnable_again(l, t))
          /\ runnable_again(l, t).current_thread = l.current_thread
          /\ runnable_again(l, t).state = l.state
      BY <2>6, RunnableAgain
    <3> QED BY <2>5, <2>7, <3>1 DEF SameQueues
  <2>9. Stays(k, k2)
    BY <2>5, <2>8 DEF Stays, SameThreads, SLEEPSET
  <2> QED BY <2>8, <2>9 DEF Step, k2
<1> QED BY <1>1, <1>2

\* A wake reason is recorded and the thread woken, in release(), kill(),
\* counted_wake() and the alarm.
LEMMA WakeFor ==
    ASSUME NEW k, Good(k), NEW t \in Threads \ {Idle}, NEW r \in Reasons
    PROVE  Step(k, wake(set_wake_reason(k, t, r), t))
<1> DEFINE s == set_wake_reason(k, t, r)
<1>1. Step(k, s)
  BY ReasonSteps
<1> HIDE DEF s
<1>2. Step(s, wake(s, t))
  BY <1>1, Wake DEF Step
<1>3. Step(k, wake(s, t))
  BY <1>1, <1>2, StepTransitive
<1> QED BY <1>3 DEF s

\* The reasons the code uses.
LEMMA ReasonNames ==
    \A r \in {"NONE", "WAIT", "DELAY", "TIMEOUT", "BREAK", "EXIT", "DONE"} : r \in Reasons
BY DEF Reasons

\* Doing nothing is a Step.
LEMMA StepRefl == ASSUME NEW k, Good(k) PROVE Step(k, k)
BY DEF Step, Stays

\* release() is a Step.
LEMMA Release ==
    ASSUME NEW k, Good(k), NEW t \in Threads \ {Idle}
    PROVE  Step(k, release(k, t))
BY WakeFor, ReasonNames, StepRefl DEF release

\* The thread timer's alarm() is a Step.
LEMMA Alarm ==
    ASSUME NEW k, Good(k), NEW t \in Threads \ {Idle}
    PROVE  Step(k, alarm(k, t))
<1> DEFINE off == clear_timer(k, t)
<1>1. Step(k, off)
  BY ReasonSteps, ReasonNames
<1> HIDE DEF off
<1>2. ASSUME NEW r \in {"DONE", "TIMEOUT"}
      PROVE  Step(k, wake(set_wake_reason(off, t, r), t))
  <2> DEFINE w == wake(set_wake_reason(off, t, r), t)
  <2>1. Good(off) /\ r \in Reasons
    BY <1>1, ReasonNames DEF Step
  <2>2. Step(off, w)
    BY <2>1, WakeFor
  <2> HIDE DEF w
  <2>3. Step(k, w)
    BY <1>1, <2>2, StepTransitive
  <2> QED BY <2>3 DEF w
<1>3. alarm(k, t) \in {off} \cup {wake(set_wake_reason(off, t, r), t) : r \in {"DONE", "TIMEOUT"}}
  BY DEF alarm, off
<1> QED BY <1>1, <1>2, <1>3

\* counted_wake() and cancel_counted_wake() are Steps.
LEMMA CountedWake ==
    ASSUME NEW k, Good(k), NEW t \in Threads \ {Idle}
    PROVE  Step(k, counted_wake(k, t)) /\ Step(k, cancel_counted_wake(k, t))
<1>1. k \in KernelState /\ k.wakeup_count[t] + 1 \in Nat
  BY CountTypes
<1>2. Step(k, [k EXCEPT !.wakeup_count[t] = k.wakeup_count[t] + 1])
  BY <1>1, SetWakeups, QuietStep
<1>3. Step(k, [k EXCEPT !.wakeup_count[t] = 0])
  BY <1>1, SetWakeups, QuietStep
<1>4. Step(k, wake(set_wake_reason(k, t, "DONE"), t))
  BY WakeFor, ReasonNames
<1> QED BY <1>2, <1>3, <1>4 DEF counted_wake, cancel_counted_wake

\* Taking a queued wakeup is a Step.
LEMMA ConsumeWakeup ==
    ASSUME NEW k, Good(k), k.wakeup_count[k.current_thread] # 0
    PROVE  Step(k, consume_wakeup(k))
<1> DEFINE cur == k.current_thread
<1>1. k \in KernelState /\ cur \in Threads /\ k.wakeup_count[cur] - 1 \in Nat
  BY GoodType, CountTypes
<1>2. Step(k, [k EXCEPT !.wakeup_count[cur] = k.wakeup_count[cur] - 1])
  BY <1>1, SetWakeups, QuietStep
<1> QED BY <1>2 DEF consume_wakeup

\* suspend() is a Step.
LEMMA Suspend ==
    ASSUME NEW k, Good(k), NEW t \in Threads \ {Idle}
    PROVE  Step(k, suspend(k, t))
<1> DEFINE off == off_queue(k, t)
           v   == off.state[t] \cup {"SUSPENDED"}
           n   == off.suspend_count[t] + 1
           k2  == suspend(k, t)
<1>1. /\ off \in KernelState /\ Out(off, t)
      /\ Ordered(off, Threads \ {t})
      /\ off.current_thread = k.current_thread
      /\ off.state = k.state /\ off.priority = k.priority
      /\ off.suspend_count = k.suspend_count
  BY OffQueue
<1>2. k2 = set_suspend(off, t, v, n)
  BY DEF suspend, off_queue, set_suspend
<1>3. v \in SUBSET StateBits /\ n \in Nat /\ off.state \in [Threads -> SUBSET StateBits]
  BY <1>1 DEF KernelState, StateBits
<1> HIDE DEF off, n, v, k2
<1>4. /\ k2 \in KernelState /\ SameQueues(off, k2)
      /\ k2.state = [off.state EXCEPT ![t] = v] /\ k2.priority = off.priority
      /\ k2.suspend_count = [off.suspend_count EXCEPT ![t] = n]
  BY <1>1, <1>2, <1>3, SetSuspend
<1>5. k2.state[t] = v /\ SameThreads(off, k2, Threads \ {t})
  BY <1>3, <1>4 DEF SameThreads
<1>6. ~Runs(k2, t)
  BY <1>5 DEF Runs, RUNNING, v
<1>9. Held(k2)
  BY <1>1, <1>4, <1>5 DEF Out, Sound, Held, SameThreads, KernelState, v
<1>7. Good(k2)
  BY <1>1, <1>4, <1>5, <1>6, <1>9, OutStep, StaysOut
<1>8. Stays(k, k2) /\ k2.current_thread = k.current_thread
  BY <1>1, <1>4, <1>5 DEF SameThreads, SameQueues, Stays, v
<1> QED BY <1>7, <1>8 DEF Step, k2

\* The end of a suspension is a Step.
LEMMA Unsuspend ==
    ASSUME NEW k, Good(k), NEW t \in Threads \ {Idle}, k.suspend_count[t] > 0
    PROVE  Step(k, unsuspend(k, t))
<1> DEFINE v  == k.state[t] \ {"SUSPENDED"}
           m  == [k EXCEPT !.suspend_count[t] = 0, !.state[t] = v]
           k2 == unsuspend(k, t)
<1>1. /\ k \in KernelState /\ Out(k, t) /\ Ordered(k, Threads \ {t})
      /\ k.state \in [Threads -> SUBSET StateBits] /\ v \in SUBSET StateBits
  <2>1. ~Runs(k, t)
    BY DEF Good, Agree, Sound, Held, Runs, RUNNING
  <2> QED BY <2>1, AgreeIsNear DEF Good, Agree, Sound, Ordered, KernelState
<1> HIDE DEF v
<1>0. m = set_suspend(k, t, v, 0)
  BY DEF set_suspend
<1> HIDE DEF m
<1>2. m \in KernelState /\ SameQueues(k, m)
      /\ m.state = [k.state EXCEPT ![t] = v] /\ m.priority = k.priority
      /\ m.suspend_count = [k.suspend_count EXCEPT ![t] = 0]
  <2>1. 0 \in Nat
    OBVIOUS
  <2> QED BY <1>0, <1>1, <2>1, SetSuspend
<1>3. SameThreads(k, m, Threads \ {t}) /\ m.state[t] = v
  BY <1>1, <1>2 DEF SameThreads
<1>8. Held(m)
  BY <1>1, <1>2, <1>3 DEF Out, Sound, Held, SameThreads, KernelState
<1>4. Out(m, t) /\ Ordered(m, Threads \ {t})
  BY <1>1, <1>2, <1>3, <1>8, OutStep
<1>5. k2 = runnable_again(m, t)
  BY DEF unsuspend, m, v
<1> HIDE DEF k2
<1>6. Good(k2) /\ k2.current_thread = k.current_thread /\ k2.state = m.state
  <2>1. /\ Good(runnable_again(m, t))
        /\ runnable_again(m, t).current_thread = m.current_thread
        /\ runnable_again(m, t).state = m.state
    BY <1>4, RunnableAgain
  <2> QED BY <1>2, <1>5, <2>1 DEF SameQueues
<1>7. Stays(k, k2)
  BY <1>3, <1>6 DEF Stays, SameThreads, v
<1> QED BY <1>6, <1>7 DEF Step, k2

\* resume() and force_resume() are Steps.
LEMMA Resume ==
    ASSUME NEW k, Good(k), NEW t \in Threads \ {Idle}
    PROVE  Step(k, resume(k, t)) /\ Step(k, force_resume(k, t))
<1>1. k \in KernelState /\ k.suspend_count[t] \in Nat
  BY CountTypes
<1>2. CASE k.suspend_count[t] = 0
  BY <1>2, StepRefl DEF resume, force_resume
<1>3. CASE k.suspend_count[t] > 0
  <2>1. Step(k, unsuspend(k, t))
    BY <1>3, Unsuspend
  <2>2. k.suspend_count[t] - 1 \in Nat
    BY <1>1, <1>3
  <2>3. Step(k, [k EXCEPT !.suspend_count[t] = k.suspend_count[t] - 1])
    BY <1>3, <2>2, SetSuspendCount
  <2>4. resume(k, t) \in {unsuspend(k, t),
                          [k EXCEPT !.suspend_count[t] = k.suspend_count[t] - 1]}
    BY <1>1, <1>3 DEF resume
  <2>5. force_resume(k, t) = unsuspend(k, t)
    BY <1>3 DEF force_resume
  <2> QED BY <2>1, <2>3, <2>4, <2>5
<1> QED BY <1>1, <1>2, <1>3

\* exit() is a Step, though the state is set before the queue is left.
LEMMA Exit_ ==
    ASSUME NEW k, Good(k), k.current_thread # Idle
    PROVE  Step(k, exit(k))
<1> DEFINE cur == k.current_thread
           off == clear_timer(k, cur)
           m   == [off EXCEPT !.state[cur] = {"EXITED"}]
           k2  == rem_thread(m, cur)
<1>1. cur \in Threads \ {Idle} /\ "NONE" \in Reasons
  BY GoodType, ReasonNames
<1>2. Step(k, off) /\ off \in KernelState /\ off.current_thread = cur
  BY <1>1, ReasonSteps, GoodType DEF Step
<1>3. CASE k.state[cur] = {"EXITED"}
  BY <1>2, <1>3 DEF exit
<1>4. CASE k.state[cur] # {"EXITED"}
  <2>0. exit(k) = k2
    BY <1>4 DEF exit
  <2>1. off.state \in [Threads -> SUBSET StateBits] /\ {"EXITED"} \in SUBSET StateBits
    BY <1>2 DEF KernelState, StateBits
  <2> HIDE DEF off
  <2>2. /\ m \in KernelState /\ SameQueues(off, m)
        /\ m.state = [off.state EXCEPT ![cur] = {"EXITED"}]
        /\ m.priority = off.priority /\ m.suspend_count = off.suspend_count
    BY <1>1, <1>2, <2>1, SetState
  <2> HIDE DEF m
  <2>3. m.state[cur] = {"EXITED"} /\ SameThreads(off, m, Threads \ {cur})
    BY <1>1, <2>1, <2>2 DEF SameThreads
  <2>4. Agree(off) /\ Ordered(off, Threads)
    BY <1>2 DEF Step, Good
  <2>5. Near(off, cur) /\ Held(off)
    BY <1>1, <2>4, AgreeIsNear DEF Agree, Sound
  <2>6. Held(m)
    BY <2>2, <2>3, <2>5 DEF Held, SameThreads
  <2>7. Near(m, cur)
    BY <1>1, <2>2, <2>3, <2>5, <2>6, ThreadsAssumption
       DEF Near, Sound, Placed, Runs, SameThreads, SameQueues
  <2>8. Ordered(m, Threads \ {cur})
    BY <1>1, <2>2, <2>3, <2>4 DEF Ordered, NotWorse, Runs, SameThreads, SameQueues
  <2>9. /\ Out(k2, cur) /\ k2.current_thread = m.current_thread
        /\ k2.need_reschedule = m.need_reschedule
        /\ k2.state = m.state /\ k2.priority = m.priority
    BY <1>1, <2>2, <2>7, RemoveFromQueue, RemThread
  <2> HIDE DEF k2
  <2>10. Ordered(k2, Threads \ {cur}) /\ ~Runs(k2, cur)
    BY <2>3, <2>8, <2>9 DEF Ordered, NotWorse, Runs, RUNNING
  <2>11. Good(k2)
    BY <1>1, <2>9, <2>10, StaysOut
  <2>12. Step(off, k2)
    BY <2>2, <2>3, <2>9, <2>11 DEF Step, Stays, SameThreads, SameQueues
  <2> QED BY <1>2, <2>0, <2>12, StepTransitive
<1> QED BY <1>3, <1>4

\* Taking a killed thread off its queue is a Step.
LEMMA Deschedule ==
    ASSUME NEW k, Good(k), NEW t \in Threads \ {Idle}
    PROVE  Step(k, deschedule(k, t))
<1> DEFINE off == off_queue(k, t)
           k2  == deschedule(k, t)
<1>1. /\ off \in KernelState /\ Out(off, t)
      /\ Ordered(off, Threads \ {t})
      /\ off.current_thread = k.current_thread
      /\ off.state = k.state /\ off.priority = k.priority
      /\ off.suspend_count = k.suspend_count
  BY OffQueue
<1>2. k2 = [off EXCEPT !.state[t] = {"EXITED"}]
  BY DEF deschedule, off_queue
<1>3. {"EXITED"} \in SUBSET StateBits /\ off.state \in [Threads -> SUBSET StateBits]
  BY <1>1 DEF KernelState, StateBits
<1> HIDE DEF off, k2
<1>4. /\ k2 \in KernelState /\ SameQueues(off, k2)
      /\ k2.state = [off.state EXCEPT ![t] = {"EXITED"}]
      /\ k2.priority = off.priority
      /\ k2.suspend_count = off.suspend_count
  BY <1>1, <1>2, <1>3, SetState
<1>5. k2.state[t] = {"EXITED"} /\ SameThreads(off, k2, Threads \ {t})
  BY <1>3, <1>4 DEF SameThreads
<1>6. ~Runs(k2, t)
  BY <1>5 DEF Runs, RUNNING
<1>7. Held(k2)
  BY <1>1, <1>4, <1>5 DEF Out, Sound, Held, SameThreads
<1>8. Good(k2)
  BY <1>1, <1>4, <1>5, <1>6, <1>7, OutStep, StaysOut
<1>9. Stays(k, k2) /\ k2.current_thread = k.current_thread
  BY <1>1, <1>4, <1>5 DEF SameThreads, SameQueues, Stays
<1> QED BY <1>8, <1>9 DEF Step, k2

\* kill() of another thread is a Step in each of its cases.
LEMMA Kill ==
    ASSUME NEW k, Good(k), NEW t \in Threads \ {Idle}
    PROVE  Step(k, kill(k, t))
<1> DEFINE f  == force_resume(k, t)
           up == clear_timer(f, t)
           d  == deschedule(up, t)
           w  == wake(set_wake_reason(up, t, "EXIT"), t)
<1>1. Step(k, f)
  BY Resume
<1> HIDE DEF f
<1>2. Step(f, up)
  BY <1>1, ReasonSteps, ReasonNames DEF Step
<1> HIDE DEF up
<1>3. Step(k, up) /\ Good(up)
  BY <1>1, <1>2, StepTransitive DEF Step
<1>4. Step(up, wake(up, t)) /\ Step(up, w) /\ Step(up, d)
  BY <1>3, Wake, WakeFor, ReasonNames, Deschedule
<1> HIDE DEF d
<1>5. Step(d, wake(d, t))
  BY <1>4, Wake DEF Step
<1>6. Step(up, wake(d, t))
  BY <1>4, <1>5, StepTransitive
<1> HIDE DEF w
<1>7. kill(k, t) \in {up, wake(up, t), wake(d, t), w}
  BY DEF kill, up, f, d, w
<1>8. \A v \in {up, wake(up, t), wake(d, t), w} : Step(k, v)
  BY <1>3, <1>4, <1>6, StepTransitive
<1> QED BY <1>7, <1>8

-----------------------------------------------------------------------------
(* Priorities.                                                             *)

\* Only t's priority may differ.
LEMMA AssignPriority ==
    ASSUME NEW k \in KernelState, NEW t \in Threads, NEW new \in Priorities
    PROVE  LET k2 == assign_priority(k, t, new)
           IN  /\ k2 \in KernelState /\ SameQueues(k, k2)
               /\ k2.state = k.state /\ k2.suspend_count = k.suspend_count
               /\ k2.queue = k.queue
               /\ \A u \in Threads \ {t} : k2.priority[u] = k.priority[u]
<1> DEFINE op == [k.original_priority EXCEPT ![t] = new]
           low == IF k.priority[t] > new THEN new ELSE k.priority[t]
           pr == [k.priority EXCEPT ![t] = low]
           pn == [k.priority EXCEPT ![t] = new]
           k2 == assign_priority(k, t, new)
<1>1. /\ op \in [Threads -> Priorities] /\ pr \in [Threads -> Priorities]
      /\ pn \in [Threads -> Priorities]
      /\ \A u \in Threads \ {t} : pr[u] = k.priority[u] /\ pn[u] = k.priority[u]
  BY DEF KernelState
<1>2. \/ k2 = [k EXCEPT !.original_priority = op, !.priority = pr]
      \/ k2 = [k EXCEPT !.priority = pn]
  BY DEF assign_priority
<1> HIDE DEF op, pr, pn, k2
<1>3. CASE k2 = [k EXCEPT !.original_priority = op, !.priority = pr]
  <2>1. k2 \in KernelState /\ SameQueues(k, k2) /\ k2.state = k.state
        /\ k2.suspend_count = k.suspend_count /\ k2.queue = k.queue
        /\ k2.priority = pr
    BY <1>1, <1>3 DEF KernelState, SameQueues
  <2> QED BY <1>1, <2>1 DEF k2
<1>4. CASE k2 = [k EXCEPT !.priority = pn]
  <2>1. k2 \in KernelState /\ SameQueues(k, k2) /\ k2.state = k.state
        /\ k2.suspend_count = k.suspend_count /\ k2.queue = k.queue
        /\ k2.priority = pn
    BY <1>1, <1>4 DEF KernelState, SameQueues
  <2> QED BY <1>1, <2>1 DEF k2
<1> QED BY <1>2, <1>3, <1>4

\* After t's priority changed, the reschedule asked for restores Good.
LEMMA NotifyPriority ==
    ASSUME NEW k, NEW t \in Threads, Agree(k),
           t # k.current_thread => Ordered(k, Threads \ {t})
    PROVE  LET k2 == notify_priority(k, t)
           IN  /\ Good(k2) /\ k2.current_thread = k.current_thread
               /\ k2.state = k.state
<1> DEFINE n  == set_need_reschedule(k)
           k2 == notify_priority(k, t)
<1>1. k \in KernelState
  BY DEF Agree, Sound
<1>2. /\ n \in KernelState /\ n.need_reschedule
      /\ n.run_queue = k.run_queue /\ n.queue_map = k.queue_map
      /\ n.current_thread = k.current_thread
      /\ n.state = k.state /\ n.priority = k.priority
      /\ n.suspend_count = k.suspend_count
  BY <1>1, SetNeed
<1> HIDE DEF n
<1>3. Good(n)
  BY <1>2 DEF Good, Agree, Sound, Held, Placed, Ordered, Runs
<1>4. k2 = n \/ /\ k2 = k /\ t # k.current_thread
                /\ ~(k.priority[k.current_thread] > k.priority[t])
  BY DEF notify_priority, set_need_reschedule_for, n
<1> HIDE DEF k2
<1>5. CASE k2 = n
  BY <1>2, <1>3, <1>5 DEF k2
<1>6. CASE /\ k2 = k /\ t # k.current_thread
           /\ ~(k.priority[k.current_thread] > k.priority[t])
  <2>1. k.priority \in [Threads -> Priorities] /\ k.current_thread \in Threads
        /\ Priorities \subseteq Int
    BY <1>1, PriorityAssumption DEF KernelState, Priorities
  <2>2. k.priority[k.current_thread] <= k.priority[t]
    <3>1. k.priority[k.current_thread] \in Int /\ k.priority[t] \in Int
      BY <2>1
    <3> QED BY <1>6, <3>1
  <2>3. Ordered(k, Threads)
    BY <1>6, <2>2 DEF Ordered, NotWorse
  <2> QED BY <1>6, <2>3 DEF Good, k2
<1> QED BY <1>4, <1>5, <1>6

\* set_priority() is a Step for runnable, waiting and other threads.
LEMMA SetPriority ==
    ASSUME NEW k, Good(k), NEW t \in Threads \ {Idle}, NEW new \in Priorities
    PROVE  Step(k, set_priority(k, t, new))
<1> DEFINE cur == k.current_thread
           q   == k.queue[t]
           r   == rem_thread(k, t)
           l   == leave_queue(k, t)
           m1  == add_thread(assign_priority(r, t, new), t)
           m2  == enqueue(assign_priority(l, t, new), q, t)
           m3  == assign_priority(k, t, new)
           Moved(m) == /\ Agree(m) /\ m.current_thread = cur
                       /\ m.state = k.state
                       /\ (t # cur => Ordered(m, Threads \ {t}))
<1>1. k \in KernelState /\ cur \in Threads
  BY GoodType
<1>0. q \in WaitQueues \cup {NoQueue}
  BY <1>1 DEF KernelState
<1>2. \/ Runs(k, t) /\ set_priority(k, t, new) = notify_priority(m1, t)
      \/ /\ ~Runs(k, t) /\ q \in WaitQueues
         /\ set_priority(k, t, new) = notify_priority(m2, t)
      \/ ~Runs(k, t) /\ set_priority(k, t, new) = notify_priority(m3, t)
  <2>1. CASE Runs(k, t)
    BY <2>1 DEF set_priority, Runs, RUNNING
  <2>2. CASE ~Runs(k, t) /\ "SLEEPING" \in k.state[t] /\ q # NoQueue
    BY <1>0, <2>2 DEF set_priority, Runs, RUNNING
  <2>3. CASE ~Runs(k, t) /\ ~("SLEEPING" \in k.state[t] /\ q # NoQueue)
    BY <2>3 DEF set_priority, Runs, RUNNING
  <2> QED BY <2>1, <2>2, <2>3
<1>3. ASSUME NEW m, Moved(m), set_priority(k, t, new) = notify_priority(m, t)
      PROVE  Step(k, set_priority(k, t, new))
  <2>1. /\ Good(notify_priority(m, t))
        /\ notify_priority(m, t).current_thread = m.current_thread
        /\ notify_priority(m, t).state = m.state
    BY <1>3, NotifyPriority
  <2> QED BY <1>3, <2>1 DEF Step, Stays
\* Out and Ordered carry over to a state where t's priority was assigned.
<1>4. ASSUME NEW m, m \in KernelState, Out(m, t), m.current_thread = cur,
             m.state = k.state, Ordered(m, Threads \ {t})
      PROVE  LET a == assign_priority(m, t, new)
             IN  /\ Out(a, t) /\ a.current_thread = cur /\ a.state = k.state
                 /\ (t # cur => Ordered(a, Threads \ {t}))
                 /\ a.suspend_count = m.suspend_count
  <2> DEFINE a == assign_priority(m, t, new)
  <2>1. /\ a \in KernelState /\ SameQueues(m, a)
        /\ a.state = m.state /\ a.suspend_count = m.suspend_count
        /\ \A u \in Threads \ {t} : a.priority[u] = m.priority[u]
    BY <1>4, AssignPriority
  <2> HIDE DEF a
  <2>2. SameThreads(m, a, Threads \ {t}) /\ Held(a)
    BY <1>4, <2>1 DEF SameThreads, Held, Out, Sound
  <2>3. Out(a, t)
    BY <1>4, <2>1, <2>2, OutFrame DEF SameQueues
  <2>4. t # cur => Ordered(a, Threads \ {t})
    BY <1>1, <1>4, <2>1 DEF Ordered, NotWorse, Runs, SameQueues
  <2> QED BY <1>4, <2>1, <2>3, <2>4 DEF a, SameQueues
<1>5. CASE Runs(k, t) /\ set_priority(k, t, new) = notify_priority(m1, t)
  <2> DEFINE a == assign_priority(r, t, new)
  <2>1. /\ r \in KernelState /\ Out(r, t) /\ Ordered(r, Threads \ {t})
        /\ r.current_thread = cur /\ r.state = k.state
    BY <1>5, OffQueue DEF off_queue, Runs
  <2> HIDE DEF r
  <2>2. /\ Out(a, t) /\ a.current_thread = cur /\ a.state = k.state
        /\ (t # cur => Ordered(a, Threads \ {t}))
    BY <1>4, <2>1
  <2>3. m1 = add_thread(a, t)
    OBVIOUS
  <2> HIDE DEF a
  <2>4. Moved(add_thread(a, t))
    BY <1>5, <2>2, AddThread DEF Runs, Good, Ordered
  <2> QED BY <1>3, <1>5, <2>3, <2>4
<1>6. CASE ~Runs(k, t)
  <2>1. Out(k, t) /\ Ordered(k, Threads \ {t})
    BY <1>6, AgreeIsNear DEF Good, Ordered
  <2>2. ASSUME NEW m, Out(m, t), m.current_thread = cur, m.state = k.state,
               t # cur => Ordered(m, Threads \ {t})
        PROVE  Moved(m)
    BY <1>6, <2>2 DEF Out, Agree, Placed, Absent, Runs
  <2>3. Moved(m3)
    <3>1. /\ Out(m3, t) /\ m3.current_thread = cur /\ m3.state = k.state
          /\ (t # cur => Ordered(m3, Threads \ {t}))
      BY <1>1, <1>4, <2>1
    <3> HIDE DEF m3
    <3> QED BY <2>2, <3>1
  <2>4. ASSUME q \in WaitQueues PROVE Moved(m2)
    <3> DEFINE a == assign_priority(l, t, new)
    <3>1. Quietly(k, l)
      BY <1>1, LeaveQueue
    <3> HIDE DEF l
    <3>2. /\ l \in KernelState /\ Out(l, t) /\ Ordered(l, Threads \ {t})
          /\ l.current_thread = cur /\ l.state = k.state
      BY <2>1, <3>1 DEF Quietly, SameQueues, Out, Sound, Held, Absent, Placed,
                        Runs, Ordered, NotWorse
    <3>3. /\ Out(a, t) /\ a.current_thread = cur /\ a.state = k.state
          /\ (t # cur => Ordered(a, Threads \ {t}))
      BY <1>4, <3>2
    <3> HIDE DEF a
    <3>4. Quietly(a, enqueue(a, q, t))
      BY <2>4, <3>3, Enqueue DEF Out, Sound
    <3> DEFINE e == enqueue(a, q, t)
    <3> HIDE DEF e
    <3>5. /\ Out(e, t) /\ e.current_thread = cur /\ e.state = k.state
          /\ (t # cur => Ordered(e, Threads \ {t}))
      BY <3>3, <3>4 DEF Quietly, SameQueues, Out, Sound, Held, Absent, Placed,
                        Runs, Ordered, NotWorse, e
    <3>6. m2 = e
      BY DEF e, a
    <3> QED BY <2>2, <3>5, <3>6
  <2> HIDE DEF m2, m3, Moved
  <2> QED BY <1>2, <1>3, <1>6, <2>3, <2>4
<1> HIDE DEF m1, m2, m3
<1> QED BY <1>2, <1>5, <1>6

-----------------------------------------------------------------------------
(* Sleeping calls.                                                         *)

\* The sleeping calls of the current thread are Steps, also when their alarm
\* fires before they sleep.
LEMMA Sleeps ==
    ASSUME NEW k, Good(k), k.current_thread # Idle
    PROVE  /\ Step(k, delay(k)) /\ Step(k, alarm(delay(k), k.current_thread))
           /\ Step(k, counted_sleep(k))
           /\ Step(k, alarm(set_timer(k, "TIMEOUT"), k.current_thread))
           /\ Step(k, timed_counted_sleep(set_timer(k, "TIMEOUT")))
<1> DEFINE cur == k.current_thread
           s == sleep(k)
           d == delay(k)
           w == set_sleep_reason(k, "WAIT")
           a == set_timer(k, "TIMEOUT")
           b == set_sleep_reason(a, "TIMEOUT")
<1>1. cur \in Threads \ {Idle} /\ {"WAIT", "TIMEOUT", "DELAY"} \subseteq Reasons
  BY GoodType, ReasonNames
<1>2. Step(k, d)
  <2>1. Step(k, s)
    BY Sleep
  <2>2. d = set_timer(s, "DELAY")
    BY DEF delay
  <2> HIDE DEF s
  <2>3. Step(s, set_timer(s, "DELAY"))
    BY <1>1, <2>1, ReasonSteps DEF Step
  <2> QED BY <2>1, <2>2, <2>3, StepTransitive
<1>3. Step(k, alarm(d, cur))
  <2> HIDE DEF d
  <2>1. Step(d, alarm(d, cur))
    BY <1>1, <1>2, Alarm DEF Step
  <2> QED BY <1>2, <2>1, StepTransitive
<1>4. Step(k, counted_sleep(k))
  <2>1. Step(k, w)
    BY <1>1, ReasonSteps
  <2>2. counted_sleep(k) = counted(w)
    BY DEF counted_sleep
  <2> HIDE DEF w
  <2>3. Step(w, counted(w))
    BY <2>1, Counted DEF Step
  <2> QED BY <2>1, <2>2, <2>3, StepTransitive
<1>5. Step(k, a)
  BY <1>1, ReasonSteps
<1>6. Step(k, alarm(a, cur))
  <2> HIDE DEF a
  <2>1. Step(a, alarm(a, cur))
    BY <1>1, <1>5, Alarm DEF Step
  <2> QED BY <1>5, <2>1, StepTransitive
<1>7. Step(k, timed_counted_sleep(a))
  <2> HIDE DEF a
  <2>1. Step(a, b)
    BY <1>1, <1>5, ReasonSteps DEF Step
  <2>2. timed_counted_sleep(a) = counted(b)
    BY DEF timed_counted_sleep
  <2> HIDE DEF b
  <2>3. Step(k, b) /\ b.current_thread # Idle
    BY <1>1, <1>5, <2>1, StepTransitive DEF Step
  <2>4. Step(b, counted(b))
    BY <2>3, Counted DEF Step
  <2> QED BY <2>2, <2>3, <2>4, StepTransitive
<1> QED BY <1>2, <1>3, <1>4, <1>6, <1>7

-----------------------------------------------------------------------------
(* Rotation and timeslicing.                                               *)

rotated(k, p) == [k EXCEPT !.run_queue[p] = rotate(@)]

\* Rotating a run queue is a Step.
LEMMA Rotate ==
    ASSUME NEW k, Good(k), NEW p \in Priorities
    PROVE  Step(k, rotated(k, p)) /\ rotated(k, p) \in KernelState
<1> DEFINE rq == [k.run_queue EXCEPT ![p] = rotate(@)]
           k2 == rotated(k, p)
<1>1. k \in KernelState /\ k.run_queue \in [Priorities -> Seq(Threads)]
  BY GoodType DEF KernelState
<1>2. /\ rotate(k.run_queue[p]) \in Seq(Threads)
      /\ rotate(k.run_queue[p]) = <<>> <=> k.run_queue[p] = <<>>
      /\ \A u : holds(rotate(k.run_queue[p]), u) <=> holds(k.run_queue[p], u)
      /\ Distinct(k.run_queue[p]) => Distinct(rotate(k.run_queue[p]))
  BY <1>1, RotateFacts
<1>3. rq \in [Priorities -> Seq(Threads)] /\ k2 = [k EXCEPT !.run_queue = rq]
  BY <1>1, <1>2 DEF rotated
<1>4. \A r \in Priorities :
        /\ rq[r] = <<>> <=> k.run_queue[r] = <<>>
        /\ \A u : holds(rq[r], u) <=> holds(k.run_queue[r], u)
        /\ Distinct(k.run_queue[r]) => Distinct(rq[r])
  BY <1>1, <1>2
<1> HIDE DEF rq, k2
<1>5. /\ k2 \in KernelState /\ k2.run_queue = rq /\ k2.queue_map = k.queue_map
      /\ k2.need_reschedule = k.need_reschedule
      /\ k2.current_thread = k.current_thread
      /\ k2.state = k.state /\ k2.priority = k.priority
      /\ k2.suspend_count = k.suspend_count
  BY <1>1, <1>3 DEF KernelState
<1>6. Sound(k2)
  <2>1. \A r \in Priorities : /\ r \in k2.queue_map <=> k2.run_queue[r] # <<>>
                              /\ Distinct(k2.run_queue[r])
    BY <1>4, <1>5 DEF Good, Agree, Sound
  <2> QED BY <1>5, <2>1 DEF Good, Agree, Sound, Held, Runs
<1>7. \A u \in Threads : Placed(k2, u)
  BY <1>4, <1>5 DEF Good, Agree, Placed, Runs
<1>8. Ordered(k2, Threads)
  BY <1>5 DEF Good, Ordered, NotWorse, Runs
<1>9. Step(k, k2)
  BY <1>5, <1>6, <1>7, <1>8 DEF Step, Stays, Good, Agree
<1> QED BY <1>5, <1>9 DEF k2

\* set_need_reschedule() is a Step.
LEMMA NeedStep ==
    ASSUME NEW k, Good(k)
    PROVE  Step(k, set_need_reschedule(k))
<1> DEFINE n == set_need_reschedule(k)
<1>1. /\ n \in KernelState /\ n.need_reschedule
      /\ n.run_queue = k.run_queue /\ n.queue_map = k.queue_map
      /\ n.current_thread = k.current_thread
      /\ n.state = k.state /\ n.priority = k.priority
      /\ n.suspend_count = k.suspend_count
  BY GoodType, SetNeed
<1> HIDE DEF n
<1>2. Step(k, n)
  BY <1>1 DEF Good, Agree, Sound, Held, Placed, Ordered, Runs, Step, Stays
<1> QED BY <1>2 DEF n

\* rotate_current() rotates one of the run queues.
LEMMA CurrentQueue ==
    ASSUME NEW k, Good(k)
    PROVE  /\ Step(k, rotate_current(k))
           /\ rotate_current(k) = rotated(k, k.priority[k.current_thread])
           /\ k.priority[k.current_thread] \in Priorities
<1>1. k.priority[k.current_thread] \in Priorities
  BY GoodType DEF KernelState
<1>2. rotate_current(k) = rotated(k, k.priority[k.current_thread])
  BY DEF rotate_current, rotated
<1> QED BY <1>1, <1>2, Rotate

\* rotate_queue() is a Step.
LEMMA RotateQueue ==
    ASSUME NEW k, Good(k), NEW p \in Priorities
    PROVE  Step(k, rotate_queue(k, p))
<1> DEFINE r == rotated(k, p)
<1>1. Step(k, r)
  BY Rotate
<1>2. rotate_queue(k, p) \in {k, set_need_reschedule(r)}
  BY DEF rotate_queue, rotated
<1> HIDE DEF r
<1>3. Step(k, set_need_reschedule(r))
  BY <1>1, NeedStep, StepTransitive DEF Step
<1> QED BY <1>2, <1>3, StepRefl

\* yield() is a Step.
LEMMA Yield ==
    ASSUME NEW k, Good(k)
    PROVE  Step(k, yield(k))
<1> DEFINE cur == k.current_thread
           r == rotate_current(k)
<1>1. cur \in Threads /\ Step(k, r) /\ r \in KernelState
  BY GoodType, CurrentQueue DEF Step
<1>2. yield(k) \in {k, timeslice_reset(r, cur), set_need_reschedule(r)}
  BY <1>1 DEF yield, Step
<1> HIDE DEF r
<1>3. Step(r, timeslice_reset(r, cur))
  BY <1>1, TimesliceReset, QuietStep DEF Step
<1>4. Step(r, set_need_reschedule(r))
  BY <1>1, NeedStep DEF Step
<1>5. Step(k, timeslice_reset(r, cur)) /\ Step(k, set_need_reschedule(r))
  BY <1>1, <1>3, <1>4, StepTransitive
<1> QED BY <1>2, <1>5, StepRefl

\* The CPU's slice counter does not concern the run queues.
LEMMA SetSlice ==
    ASSUME NEW k \in KernelState, NEW n \in 0..CountMod-1
    PROVE  Quietly(k, [k EXCEPT !.slice = n])
BY DEF KernelState, Quietly, SameQueues

\* timeslice() is a Step, also when its counter wraps.
LEMMA Timeslice ==
    ASSUME NEW k, Good(k)
    PROVE  Step(k, timeslice(k))
<1> DEFINE n == (k.slice + CountMod - 1) % CountMod
           d == [k EXCEPT !.slice = n]
           r == rotate_current(d)
           z == [r EXCEPT !.slice = Quantum]
<1>1. k \in KernelState /\ Quantum \in 0..CountMod-1 /\ CountMod \in Nat \ {0}
  BY GoodType, QuantumAssumption
<1>2. n \in 0..CountMod-1
  <2>1. k.slice \in 0..CountMod-1
    BY <1>1 DEF KernelState
  <2>2. k.slice + CountMod - 1 \in Nat
    BY <1>1, <2>1
  <2> QED BY <1>1, <2>2
<1> HIDE DEF n
<1>3. Step(k, d)
  BY <1>1, <1>2, SetSlice, QuietStep
<1>4. timeslice(k) \in {d, z, set_need_reschedule(z)}
  BY DEF timeslice, timeslice_cpu, n
<1> HIDE DEF d
<1>5. Step(d, r)
  BY <1>3, CurrentQueue DEF Step
<1> HIDE DEF r
<1>6. Step(r, z)
  BY <1>1, <1>5, SetSlice, QuietStep, GoodType DEF Step
<1> HIDE DEF z
<1>7. Step(z, set_need_reschedule(z))
  BY <1>6, NeedStep DEF Step
<1>8. Step(k, r)
  BY <1>3, <1>5, StepTransitive
<1>9. Step(k, z)
  BY <1>6, <1>8, StepTransitive
<1>10. Step(k, set_need_reschedule(z))
  BY <1>7, <1>9, StepTransitive
<1> QED BY <1>3, <1>4, <1>9, <1>10

-----------------------------------------------------------------------------
(* Dispatching.                                                            *)

\* A nonempty set of naturals has a least element.
LEMMA NatMin ==
    ASSUME NEW T \in SUBSET Nat, T # {}
    PROVE  \E p \in T : \A q \in T : p <= q
<1> DEFINE R == OpToRel(<, Nat)
<1>1. IsWellFoundedOn(R, Nat)
  BY NatLessThanWellFounded
<1>2. R = {s \in Nat \X Nat : s[1] < s[2]}
  BY DEF OpToRel
<1> HIDE DEF R
<1>3. \E p \in T : \A q \in T : ~(<<q, p>> \in R)
  BY <1>1, WFMin
<1>4. ASSUME NEW p \in T, NEW q \in T, ~(<<q, p>> \in R) PROVE p <= q
  <2>1. p \in Nat /\ q \in Nat /\ <<q, p>> \in Nat \X Nat
    OBVIOUS
  <2>2. ~(q < p)
    BY <1>2, <1>4, <2>1
  <2> QED BY <2>1, <2>2
<1> QED BY <1>3, <1>4

\* schedule() returns a runnable thread, and none is better.
LEMMA Schedule ==
    ASSUME NEW k, Agree(k)
    PROVE  LET next == schedule(k)
           IN  /\ next \in Threads /\ Runs(k, next)
               /\ \A u \in Threads : Runs(k, u) => k.priority[next] <= k.priority[u]
<1> DEFINE best == lowest_bit(k.queue_map)
           q    == k.run_queue[best]
           next == schedule(k)
<1>1. /\ k \in KernelState /\ k.queue_map \in SUBSET Priorities
      /\ k.run_queue \in [Priorities -> Seq(Threads)]
      /\ k.priority \in [Threads -> Priorities]
  BY DEF Agree, Sound, KernelState
<1>2. Priorities \subseteq Nat /\ MinPriority \in Priorities
  BY PriorityAssumption DEF Priorities
\* A runnable thread's bit is set, Idle's for one.
<1>3. ASSUME NEW u \in Threads, Runs(k, u) PROVE k.priority[u] \in k.queue_map
  <2> DEFINE p == k.priority[u]
  <2>1. p \in Priorities
    BY <1>1
  <2>2. holds(k.run_queue[p], u)
    BY <1>3, <2>1 DEF Agree, Placed
  <2>3. k.run_queue[p] # <<>>
    BY <2>2 DEF holds
  <2> QED BY <2>1, <2>3 DEF Agree, Sound
<1>4. k.queue_map # {}
  BY <1>3, ThreadsAssumption DEF Agree, Sound
<1>5. k.queue_map \in SUBSET Nat
  BY <1>1, <1>2
<1>6. best \in k.queue_map /\ \A p \in k.queue_map : best <= p
  BY <1>4, <1>5, NatMin DEF lowest_bit
<1> HIDE DEF best
<1>7. best \in Priorities /\ q \in Seq(Threads) /\ q # <<>>
  BY <1>1, <1>6 DEF Agree, Sound
<1>8. Head(q) \in Threads /\ holds(q, Head(q))
  BY <1>7 DEF holds
<1>9. Runs(k, Head(q)) /\ k.priority[Head(q)] = best
  BY <1>7, <1>8 DEF Agree, Placed
<1>10. next = Head(q)
  BY DEF schedule, best
<1> QED BY <1>3, <1>6, <1>8, <1>9, <1>10

\* Whoever schedule() names may be current with no reschedule outstanding.
LEMMA Dispatch ==
    ASSUME NEW k, Agree(k), NEW k2 \in KernelState,
           k2.run_queue = k.run_queue, k2.queue_map = k.queue_map,
           k2.state = k.state, k2.priority = k.priority,
           k2.suspend_count = k.suspend_count,
           k2.current_thread = schedule(k)
    PROVE  Good(k2) /\ Runs(k2, k2.current_thread) /\ Stays(k, k2)
<1> DEFINE next == schedule(k)
<1>1. /\ next \in Threads /\ Runs(k, next)
      /\ \A u \in Threads : Runs(k, u) => k.priority[next] <= k.priority[u]
  BY Schedule
<1> HIDE DEF next
<1>2. Agree(k2)
  BY DEF Agree, Sound, Held, Placed, Runs
<1>3. Ordered(k2, Threads)
  BY <1>1 DEF Ordered, NotWorse, Runs, next
<1> QED BY <1>1, <1>2, <1>3 DEF Good, Runs, Stays, next

\* System construction establishes Good.
LEMMA Initialized ==
    ASSUME NEW pri \in [Threads -> Priorities], pri[Idle] = MinPriority
    PROVE  Good(initialized(pri))
<1> DEFINE c == constructed(pri)
           m == [c EXCEPT !.suspend_count[Idle] = 0,
                          !.state[Idle] = @ \ {"SUSPENDED"}]
<1>1. initialized(pri) = runnable_again(m, Idle)
  BY ThreadsAssumption DEF initialized, resume, unsuspend, constructed
<1>2. /\ m.run_queue = [p \in Priorities |-> <<>>] /\ m.queue_map = {}
      /\ m.need_reschedule = TRUE /\ m.priority = pri
      /\ m.state = [t \in Threads |-> IF t = Idle THEN {} ELSE {"SUSPENDED"}]
      /\ m.suspend_count = [t \in Threads |-> IF t = Idle THEN 0 ELSE 1]
  BY ThreadsAssumption DEF constructed
<1>3. m \in KernelState
  <2>1. c \in KernelState
    <3>1. Quantum \in 0..CountMod-1
      BY QuantumAssumption
    <3> QED BY <3>1, ThreadsAssumption, PriorityAssumption
            DEF constructed, KernelState, StateBits, Reasons, Priorities
  <2>2. m = set_suspend(c, Idle, c.state[Idle] \ {"SUSPENDED"}, 0)
    BY DEF set_suspend
  <2> HIDE DEF c
  <2>3. c.state[Idle] \ {"SUSPENDED"} \in SUBSET StateBits /\ 0 \in Nat
    BY <2>1, ThreadsAssumption DEF KernelState
  <2> HIDE DEF m
  <2> QED BY <2>3, <2>1, <2>2, SetSuspend, ThreadsAssumption
<1> HIDE DEF m
<1>4. \A p \in Priorities : m.run_queue[p] = <<>>
  BY <1>2
<1>5. \A p \in Priorities : \A t : ~holds(m.run_queue[p], t)
  BY <1>4 DEF holds
<1>6. \A p \in Priorities : Distinct(m.run_queue[p])
  BY <1>4 DEF Distinct
<1>7. Sound(m)
  BY <1>2, <1>3, <1>4, <1>6, ThreadsAssumption DEF Sound, Runs, RUNNING, Held
<1>8. Out(m, Idle) /\ Ordered(m, Threads \ {Idle})
  BY <1>2, <1>5, <1>7 DEF Out, Absent, Placed, Runs, RUNNING, Ordered
<1> QED BY <1>1, <1>8, RunnableAgain, ThreadsAssumption

\* Saving and restoring a slice does not concern the run queues.
LEMMA SaveRestore ==
    ASSUME NEW k \in KernelState, NEW t \in Threads
    PROVE  Quietly(k, timeslice_save(k, t)) /\ Quietly(k, timeslice_restore(k, t))
<1> DEFINE v == [k.timeslice_count EXCEPT ![t] = k.slice]
           n == k.timeslice_count[t]
<1>1. v \in [Threads -> 0..CountMod-1] /\ n \in 0..CountMod-1
  BY DEF KernelState
<1>2. timeslice_save(k, t) = [k EXCEPT !.timeslice_count = v]
      /\ timeslice_restore(k, t) = [k EXCEPT !.slice = n]
  BY DEF timeslice_save, timeslice_restore
<1> HIDE DEF v, n
<1>3. /\ [k EXCEPT !.timeslice_count = v] \in KernelState
      /\ [k EXCEPT !.slice = n] \in KernelState
  BY <1>1 DEF KernelState
<1>4. Quietly(k, [k EXCEPT !.timeslice_count = v])
  BY <1>3 DEF KernelState, Quietly, SameQueues
<1>5. Quietly(k, [k EXCEPT !.slice = n])
  BY <1>3 DEF KernelState, Quietly, SameQueues
<1> QED BY <1>2, <1>4, <1>5

\* Making schedule()'s choice current.
switched_to(k, t) == [k EXCEPT !.current_thread = t, !.need_reschedule = FALSE]

\* Switching to schedule()'s choice satisfies every outstanding request.
LEMMA SwitchedTo ==
    ASSUME NEW k, Agree(k)
    PROVE  LET k2 == switched_to(k, schedule(k))
           IN  /\ Good(k2) /\ Runs(k2, schedule(k)) /\ Stays(k, k2)
               /\ k2.current_thread = schedule(k) /\ ~k2.need_reschedule
<1> DEFINE next == schedule(k)
           k2   == switched_to(k, next)
<1>1. k \in KernelState /\ next \in Threads
  BY Schedule DEF Agree, Sound
<1> HIDE DEF next
<1>2. /\ k2 \in KernelState /\ ~k2.need_reschedule
      /\ k2.run_queue = k.run_queue /\ k2.queue_map = k.queue_map
      /\ k2.state = k.state /\ k2.priority = k.priority
      /\ k2.suspend_count = k.suspend_count
      /\ k2.current_thread = next
  BY <1>1 DEF KernelState, switched_to
<1> HIDE DEF k2
<1>3. Good(k2) /\ Runs(k2, k2.current_thread) /\ Stays(k, k2)
  BY <1>2, Dispatch DEF next
<1> QED BY <1>2, <1>3 DEF k2, next

\* What does not concern the run queues may follow.
LEMMA QuietAfter ==
    ASSUME NEW k, NEW k2, Good(k), Quietly(k, k2)
    PROVE  /\ Good(k2) /\ k2 \in KernelState /\ Stays(k, k2)
           /\ k2.current_thread = k.current_thread
           /\ k2.need_reschedule = k.need_reschedule
           /\ \A t : Runs(k2, t) <=> Runs(k, t)
BY QuietStep DEF Step, Quietly, SameQueues, Runs
-----------------------------------------------------------------------------
(* Timeslices: what an operation does to the ticks threads have left.      *)

SameSlices(k, k2) == /\ k2.slice = k.slice
                     /\ k2.current_thread = k.current_thread
                     /\ k2.timeslice_count = k.timeslice_count
                     /\ k2.state = k.state /\ k2.timer = k.timer

\* A thread that is made runnable, or queued again, starts a new slice; the
\* CPU's own counter and the counts of all others are left alone.
SlicesKept(k, k2) ==
    /\ k2.slice = k.slice /\ k2.current_thread = k.current_thread
    /\ \A u \in Threads :
          \/ k2.timeslice_count[u] = Quantum
          \/ /\ k2.timeslice_count[u] = k.timeslice_count[u]
             /\ Runs(k2, u) => Runs(k, u)
TimersKept(k, k2) == \A u \in Threads : k2.timer[u] => k.timer[u]
Regular(k, k2) == SlicesKept(k, k2) /\ TimersKept(k, k2)

\* An operation that touches none of it is Regular.
LEMMA SameRegular ==
    ASSUME NEW k, NEW k2, SameSlices(k, k2)
    PROVE  Regular(k, k2)
BY DEF SameSlices, Regular, SlicesKept, TimersKept, Runs

\* Regular operations may follow each other.
LEMMA RegularTransitive ==
    ASSUME NEW k, NEW k2, NEW k3, Regular(k, k2), Regular(k2, k3)
    PROVE  Regular(k, k3)
BY DEF Regular, SlicesKept, TimersKept, Runs

\* The types of the fields.
LEMMA SliceTypes ==
    ASSUME NEW k \in KernelState
    PROVE  /\ k.state \in [Threads -> SUBSET StateBits]
           /\ k.timeslice_count \in [Threads -> 0..CountMod-1]
           /\ k.timer \in [Threads -> BOOLEAN]
           /\ k.slice \in 0..CountMod-1
           /\ k.current_thread \in Threads
BY DEF KernelState

\* The queues, the reasons and the reschedule flag are no part of it.
LEMMA QueuesSlices ==
    ASSUME NEW k \in KernelState, NEW t \in Threads
    PROVE  /\ SameSlices(k, rem_thread(k, t)) /\ SameSlices(k, link(k, t))
           /\ SameSlices(k, leave_queue(k, t))
           /\ SameSlices(k, set_need_reschedule(k))
           /\ SameSlices(k, set_need_reschedule_for(k, t))
           /\ SameSlices(k, rotate_current(k))
           /\ \A p \in Priorities : SameSlices(k, rotated(k, p))
<1>1. SameSlices(k, rem_thread(k, t))
  BY DEF KernelState, SameSlices, rem_thread
<1>2. SameSlices(k, link(k, t))
  BY DEF KernelState, SameSlices, link
<1>3. SameSlices(k, leave_queue(k, t))
  BY DEF KernelState, SameSlices, leave_queue
<1>4. SameSlices(k, set_need_reschedule(k))
  BY DEF KernelState, SameSlices, set_need_reschedule
<1>5. SameSlices(k, set_need_reschedule_for(k, t))
  BY <1>4 DEF SameSlices, set_need_reschedule_for
<1>6. SameSlices(k, rotate_current(k))
  BY DEF KernelState, SameSlices, rotate_current
<1>7. \A p \in Priorities : SameSlices(k, rotated(k, p))
  BY DEF KernelState, SameSlices, rotated
<1> QED BY <1>1, <1>2, <1>3, <1>4, <1>5, <1>6, <1>7

\* ... nor are the other fields, one by one.
LEMMA FieldsSlices ==
    ASSUME NEW k \in KernelState, NEW t \in Threads, NEW r, NEW n
    PROVE  /\ SameSlices(k, set_sleep_reason(k, r))
           /\ SameSlices(k, set_wake_reason(k, t, r))
           /\ SameSlices(k, [k EXCEPT !.wakeup_count[t] = n])
           /\ SameSlices(k, [k EXCEPT !.suspend_count[t] = n])
           /\ SameSlices(k, assign_priority(k, t, n))
           /\ \A q : SameSlices(k, enqueue(k, q, t))
<1>1. SameSlices(k, set_sleep_reason(k, r)) /\ SameSlices(k, set_wake_reason(k, t, r))
  BY DEF KernelState, SameSlices, set_sleep_reason, set_wake_reason
<1>2. /\ SameSlices(k, [k EXCEPT !.wakeup_count[t] = n])
      /\ SameSlices(k, [k EXCEPT !.suspend_count[t] = n])
  BY DEF KernelState, SameSlices
<1>3. SameSlices(k, assign_priority(k, t, n))
  BY DEF KernelState, SameSlices, assign_priority
<1>4. \A q : SameSlices(k, enqueue(k, q, t))
  BY DEF KernelState, SameSlices, enqueue
<1> QED BY <1>1, <1>2, <1>3, <1>4

\* add_thread() gives the thread a new slice.
LEMMA AddSlices ==
    ASSUME NEW k \in KernelState, NEW t \in Threads
    PROVE  LET k2 == add_thread(k, t)
           IN  /\ k2 \in KernelState
               /\ k2.slice = k.slice /\ k2.current_thread = k.current_thread
               /\ k2.state = k.state /\ k2.timer = k.timer
               /\ k2.timeslice_count = [k.timeslice_count EXCEPT ![t] = Quantum]
<1> DEFINE l == leave_queue(k, t)
           n == link(l, t)
           s == set_need_reschedule_for(n, t)
           r == timeslice_reset(s, t)
<1>1. l \in KernelState /\ SameSlices(k, l)
  BY LeaveQueue, QueuesSlices DEF Quietly
<1> HIDE DEF l
<1>2. n \in KernelState /\ SameSlices(l, n)
  BY <1>1, Link, QueuesSlices
<1> HIDE DEF n
<1>3. s \in KernelState /\ SameSlices(n, s)
  BY <1>2, SetNeed, QueuesSlices DEF set_need_reschedule_for
<1> HIDE DEF s
<1>4. /\ r \in KernelState
      /\ r.slice = s.slice /\ r.current_thread = s.current_thread
      /\ r.state = s.state /\ r.timer = s.timer
      /\ r.timeslice_count = [s.timeslice_count EXCEPT ![t] = Quantum]
  <2>1. r \in KernelState
    BY <1>3, TimesliceReset DEF Quietly
  <2>2. /\ r.slice = s.slice /\ r.current_thread = s.current_thread
        /\ r.state = s.state /\ r.timer = s.timer
        /\ r.timeslice_count = [s.timeslice_count EXCEPT ![t] = Quantum]
    BY <1>3 DEF KernelState, timeslice_reset
  <2> QED BY <2>1, <2>2
<1>5. add_thread(k, t) = r
  BY DEF add_thread, s, n, l
<1> HIDE DEF r
<1>6. /\ r.slice = k.slice /\ r.current_thread = k.current_thread
      /\ r.state = k.state /\ r.timer = k.timer
      /\ r.timeslice_count = [k.timeslice_count EXCEPT ![t] = Quantum]
  BY <1>1, <1>2, <1>3, <1>4 DEF SameSlices
<1> QED BY <1>4, <1>5, <1>6

\* A state that one thread's bits were changed in: it gets a new slice if it
\* became runnable.
LEMMA RunnableSlices ==
    ASSUME NEW k \in KernelState, NEW k1 \in KernelState, NEW t \in Threads,
           k1.slice = k.slice /\ k1.current_thread = k.current_thread,
           k1.timeslice_count = k.timeslice_count,
           TimersKept(k, k1), \A u \in Threads \ {t} : k1.state[u] = k.state[u]
    PROVE  Regular(k, runnable_again(k1, t))
<1> DEFINE k2 == runnable_again(k1, t)
<1>1. CASE k1.state[t] = RUNNING
  <2> DEFINE a == add_thread(k1, t)
  <2>1. /\ a.slice = k1.slice /\ a.current_thread = k1.current_thread
        /\ a.state = k1.state /\ a.timer = k1.timer
        /\ a.timeslice_count = [k1.timeslice_count EXCEPT ![t] = Quantum]
    BY AddSlices
  <2>2. k2 = a
    BY <1>1 DEF runnable_again
  <2> HIDE DEF a, k2
  <2>3. k2.timeslice_count[t] = Quantum
    BY <2>1, <2>2, SliceTypes
  <2>4. \A u \in Threads \ {t} : /\ k2.timeslice_count[u] = k.timeslice_count[u]
                                 /\ k2.state[u] = k.state[u]
    BY <2>1, <2>2, SliceTypes
  <2>5. SlicesKept(k, k2)
    BY <2>1, <2>2, <2>3, <2>4 DEF SlicesKept, Runs
  <2>6. TimersKept(k, k2)
    BY <2>1, <2>2 DEF TimersKept
  <2> QED BY <2>5, <2>6 DEF Regular, k2
<1>2. CASE k1.state[t] # RUNNING
  <2>1. k2 = k1
    BY <1>2 DEF runnable_again
  <2>2. SlicesKept(k, k1)
    BY <1>2 DEF SlicesKept, Runs
  <2> QED BY <2>1, <2>2 DEF Regular
<1> QED BY <1>1, <1>2

\* A thread whose state changes without its becoming runnable.
LEMMA BlockedSlices ==
    ASSUME NEW k \in KernelState, NEW t \in Threads, NEW v, v # RUNNING
    PROVE  Regular(k, [k EXCEPT !.state[t] = v])
<1> DEFINE k2 == [k EXCEPT !.state[t] = v]
<1>1. /\ k2.slice = k.slice /\ k2.current_thread = k.current_thread
      /\ k2.timeslice_count = k.timeslice_count
      /\ k2.timer = k.timer /\ k2.state = [k.state EXCEPT ![t] = v]
  BY DEF KernelState
<1> HIDE DEF k2
<1>2. \A u \in Threads : Runs(k2, u) => Runs(k, u)
  BY <1>1, SliceTypes DEF Runs
<1>3. Regular(k, k2)
  BY <1>1, <1>2 DEF Regular, SlicesKept, TimersKept
<1> QED BY <1>3 DEF k2

\* wake(), and whatever wakes.
LEMMA WakeSlices ==
    ASSUME NEW k \in KernelState, NEW t \in Threads
    PROVE  Regular(k, wake(k, t))
<1> DEFINE v == k.state[t] \ SLEEPSET
           m == [k EXCEPT !.state[t] = v]
           l == leave_queue(m, t)
<1>1. CASE k.state[t] \cap SLEEPSET = {}
  BY <1>1, SameRegular DEF wake, SameSlices
<1>2. CASE k.state[t] \cap SLEEPSET # {}
  <2>1. v \in SUBSET StateBits
    BY SliceTypes
  <2>2. m \in KernelState /\ m.state = [k.state EXCEPT ![t] = v]
    BY <2>1, SetState
  <2>3. /\ m.slice = k.slice /\ m.current_thread = k.current_thread
        /\ m.timeslice_count = k.timeslice_count /\ m.timer = k.timer
    BY DEF KernelState
  <2>4. wake(k, t) = runnable_again(l, t)
    BY <1>2 DEF wake
  <2> HIDE DEF m
  <2>5. l \in KernelState /\ SameSlices(m, l)
    BY <2>2, LeaveQueue, QueuesSlices DEF Quietly
  <2> HIDE DEF l
  <2>6. \A u \in Threads \ {t} : l.state[u] = k.state[u]
    BY <2>2, <2>5, SliceTypes DEF SameSlices
  <2>7. /\ l.slice = k.slice /\ l.current_thread = k.current_thread
        /\ l.timeslice_count = k.timeslice_count
        /\ TimersKept(k, l)
    BY <2>3, <2>5 DEF SameSlices, TimersKept
  <2> QED BY <2>4, <2>5, <2>6, <2>7, RunnableSlices
<1> QED BY <1>1, <1>2

\* A wake with a reason is Regular.
LEMMA WakeForSlices ==
    ASSUME NEW k \in KernelState, NEW t \in Threads, NEW r \in Reasons
    PROVE  Regular(k, wake(set_wake_reason(k, t, r), t))
<1> DEFINE s == set_wake_reason(k, t, r)
<1>1. s \in KernelState /\ SameSlices(k, s)
  BY SetWakeReason, FieldsSlices DEF Quietly
<1> HIDE DEF s
<1>2. Regular(k, s) /\ Regular(s, wake(s, t))
  BY <1>1, SameRegular, WakeSlices
<1>3. Regular(k, wake(s, t))
  BY <1>2, RegularTransitive
<1> QED BY <1>3 DEF s

\* clear_timer() only stops a timer.
LEMMA ClearSlices ==
    ASSUME NEW k \in KernelState, NEW t \in Threads
    PROVE  LET off == clear_timer(k, t)
           IN  /\ Regular(k, off) /\ off \in KernelState
               /\ off.state = k.state
<1> DEFINE off == clear_timer(k, t)
<1>1. /\ off.slice = k.slice /\ off.current_thread = k.current_thread
      /\ off.timeslice_count = k.timeslice_count
      /\ off.state = k.state /\ off.timer = [k.timer EXCEPT ![t] = FALSE]
  BY DEF KernelState, clear_timer
<1>2. off \in KernelState
  BY SetTimerField DEF Quietly, clear_timer
<1> HIDE DEF off
<1>3. Regular(k, off)
  BY <1>1, SliceTypes DEF Regular, SlicesKept, TimersKept, Runs
<1> QED BY <1>1, <1>2, <1>3 DEF off

\* The operations that wake a thread.
LEMMA WakingRegular ==
    ASSUME NEW k \in KernelState, NEW t \in Threads
    PROVE  /\ Regular(k, release(k, t)) /\ Regular(k, counted_wake(k, t))
           /\ Regular(k, cancel_counted_wake(k, t)) /\ Regular(k, alarm(k, t))
<1>1. \A r \in Reasons : Regular(k, wake(set_wake_reason(k, t, r), t))
  BY WakeForSlices
<1>2. \A n : Regular(k, [k EXCEPT !.wakeup_count[t] = n])
  BY FieldsSlices, SameRegular
<1>3. Regular(k, k)
  BY SameRegular DEF SameSlices
<1>4. Regular(k, alarm(k, t))
  <2> DEFINE off == clear_timer(k, t)
  <2>1. Regular(k, off) /\ off \in KernelState
    BY ClearSlices
  <2> HIDE DEF off
  <2>2. \A r \in {"DONE", "TIMEOUT"} : Regular(k, wake(set_wake_reason(off, t, r), t))
    BY <2>1, WakeForSlices, RegularTransitive, ReasonNames
  <2>3. alarm(k, t) \in
           {off} \cup {wake(set_wake_reason(off, t, r), t) : r \in {"DONE", "TIMEOUT"}}
    BY DEF alarm, off
  <2> QED BY <2>1, <2>2, <2>3
<1>5. Regular(k, release(k, t)) /\ Regular(k, counted_wake(k, t))
  BY <1>1, <1>2, <1>3, ReasonNames DEF release, counted_wake
<1> QED BY <1>2, <1>4, <1>5 DEF cancel_counted_wake

\* Suspending and resuming.
LEMMA SuspendingRegular ==
    ASSUME NEW k \in KernelState, NEW t \in Threads
    PROVE  /\ Regular(k, suspend(k, t)) /\ Regular(k, resume(k, t))
           /\ Regular(k, force_resume(k, t))
           /\ \A u \in Threads : Runs(suspend(k, t), u) => Runs(k, u)
<1> DEFINE off == off_queue(k, t)
           s == suspend(k, t)
<1>1. off \in KernelState /\ SameSlices(k, off)
  BY RemThread, QueuesSlices DEF off_queue, SameSlices
<1>2. s = [off EXCEPT !.suspend_count[t] = @ + 1, !.state[t] = @ \cup {"SUSPENDED"}]
  BY DEF suspend, off_queue
<1> HIDE DEF off, s
<1>3. /\ s.slice = off.slice /\ s.current_thread = off.current_thread
      /\ s.timeslice_count = off.timeslice_count
      /\ s.timer = off.timer
      /\ s.state = [off.state EXCEPT ![t] = @ \cup {"SUSPENDED"}]
  BY <1>1, <1>2 DEF KernelState
<1>4. \A u \in Threads : Runs(s, u) => Runs(k, u)
  BY <1>1, <1>3, SliceTypes DEF Runs, RUNNING, SameSlices
<1>5. Regular(k, s)
  BY <1>1, <1>3, <1>4 DEF Regular, SlicesKept, TimersKept, SameSlices
<1>6. Regular(k, unsuspend(k, t))
  <2> DEFINE v == k.state[t] \ {"SUSPENDED"}
             m == set_suspend(k, t, v, 0)
  <2>0. m = set_suspend(k, t, v, 0)
    OBVIOUS
  <2>1. v \in SUBSET StateBits
    BY SliceTypes
  <2>3. /\ m.slice = k.slice /\ m.current_thread = k.current_thread
        /\ m.timeslice_count = k.timeslice_count
        /\ m.timer = k.timer
    BY DEF KernelState, set_suspend
  <2>4. unsuspend(k, t) = runnable_again(m, t)
    BY DEF unsuspend, set_suspend
  <2> HIDE DEF m, v
  <2>2. /\ m \in KernelState /\ SameQueues(k, m)
        /\ m.state = [k.state EXCEPT ![t] = v] /\ m.priority = k.priority
        /\ m.suspend_count = [k.suspend_count EXCEPT ![t] = 0]
    <3>1. 0 \in Nat
      OBVIOUS
    <3> QED BY <2>0, <2>1, <3>1, SetSuspend
  <2>5. /\ \A u \in Threads \ {t} : m.state[u] = k.state[u]
        /\ TimersKept(k, m)
    BY <2>2, <2>3, SliceTypes DEF TimersKept
  <2>6. Regular(k, runnable_again(m, t))
    BY <2>2, <2>3, <2>5, RunnableSlices
  <2> QED BY <2>4, <2>6
<1>7. \A n : Regular(k, [k EXCEPT !.suspend_count[t] = n])
  BY FieldsSlices, SameRegular
<1>8. Regular(k, k)
  BY SameRegular DEF SameSlices
<1>9. resume(k, t) \in
         {k, unsuspend(k, t), [k EXCEPT !.suspend_count[t] = k.suspend_count[t] - 1]}
  <2>1. k.suspend_count[t] \in Nat
    BY DEF KernelState
  <2> QED BY <2>1 DEF resume
<1> QED BY <1>4, <1>5, <1>6, <1>7, <1>8, <1>9 DEF force_resume, s

\* deschedule() makes nobody runnable.
LEMMA DescheduleSlices ==
    ASSUME NEW k \in KernelState, NEW t \in Threads
    PROVE  Regular(k, deschedule(k, t)) /\ deschedule(k, t) \in KernelState
<1> DEFINE off == off_queue(k, t)
           v == {"EXITED"}
<1>1. off \in KernelState /\ SameSlices(k, off)
  BY RemThread, QueuesSlices DEF off_queue, SameSlices
<1>2. deschedule(k, t) = [off EXCEPT !.state[t] = v]
  BY DEF deschedule, off_queue
<1> HIDE DEF off
<1>3. v # RUNNING /\ v \in SUBSET StateBits
  BY DEF RUNNING, StateBits
<1> HIDE DEF v
<1>4. Regular(off, deschedule(k, t)) /\ deschedule(k, t) \in KernelState
  BY <1>1, <1>2, <1>3, BlockedSlices, SetState
<1> QED BY <1>1, <1>4, SameRegular, RegularTransitive

\* exit() is Regular: it makes nobody runnable.
LEMMA ExitRegular ==
    ASSUME NEW k \in KernelState
    PROVE  Regular(k, exit(k))
<1> DEFINE self == k.current_thread
           off == clear_timer(k, self)
           v == {"EXITED"}
           m == [off EXCEPT !.state[self] = v]
<1>0. self \in Threads
  BY SliceTypes
<1>1. Regular(k, off) /\ off \in KernelState
  BY <1>0, ClearSlices
<1>2. exit(k) \in {off, rem_thread(m, self)}
  BY DEF exit
<1> HIDE DEF off
<1>3. v # RUNNING /\ v \in SUBSET StateBits
  BY DEF RUNNING, StateBits
<1> HIDE DEF v
<1>4. Regular(off, m) /\ m \in KernelState
  BY <1>0, <1>1, <1>3, BlockedSlices, SetState
<1> HIDE DEF m
<1>5. Regular(m, rem_thread(m, self))
  BY <1>0, <1>4, QueuesSlices, SameRegular
<1>6. Regular(k, m)
  BY <1>1, <1>4, RegularTransitive
<1>7. Regular(k, rem_thread(m, self))
  BY <1>5, <1>6, RegularTransitive
<1> QED BY <1>1, <1>2, <1>7

\* kill() is Regular in each of its cases.
LEMMA KillRegular ==
    ASSUME NEW k, Good(k), NEW t \in Threads \ {Idle}
    PROVE  Regular(k, kill(k, t))
<1> DEFINE f  == force_resume(k, t)
           up == clear_timer(f, t)
           d  == deschedule(up, t)
           w  == wake(set_wake_reason(up, t, "EXIT"), t)
<1>0. k \in KernelState
  BY GoodType
<1>1. Regular(k, f) /\ f \in KernelState
  BY <1>0, SuspendingRegular, Resume, GoodType DEF Step
<1> HIDE DEF f
<1>2. Regular(f, up) /\ up \in KernelState
  BY <1>1, ClearSlices
<1> HIDE DEF up
<1>3. Regular(k, up)
  BY <1>1, <1>2, RegularTransitive
<1>4. Regular(up, wake(up, t)) /\ Regular(up, w) /\ Regular(up, d) /\ d \in KernelState
  BY <1>2, WakeSlices, WakeForSlices, ReasonNames, DescheduleSlices
<1> HIDE DEF d
<1>5. Regular(d, wake(d, t))
  BY <1>4, WakeSlices
<1>6. Regular(up, wake(d, t))
  BY <1>4, <1>5, RegularTransitive
<1> HIDE DEF w
<1>7. kill(k, t) \in {up, wake(up, t), wake(d, t), w}
  BY DEF kill, up, f, d, w
<1>8. \A v \in {up, wake(up, t), wake(d, t), w} : Regular(k, v)
  BY <1>3, <1>4, <1>6, RegularTransitive
<1> QED BY <1>7, <1>8

\* sleep() makes nobody runnable, with or without the COUNTSLEEP bit.
LEMMA SleepSlices ==
    ASSUME NEW k \in KernelState
    PROVE  /\ Regular(k, sleep(k)) /\ Regular(k, counted(k))
           /\ sleep(k) \in KernelState /\ counted(k) \in KernelState
<1> DEFINE c == k.current_thread
           off == off_queue(k, c)
           v == off.state[c] \cup {"SLEEPING"}
           s == sleep(k)
           w == s.state[s.current_thread] \cup {"COUNTSLEEP"}
<1>1. c \in Threads /\ off \in KernelState /\ SameSlices(k, off)
  <2>1. c \in Threads
    BY SliceTypes
  <2> HIDE DEF c
  <2> QED BY <2>1, RemThread, QueuesSlices DEF off_queue, SameSlices
<1>2. s = [off EXCEPT !.state[c] = v]
  BY DEF sleep, off_queue
<1>3. v # RUNNING /\ v \in SUBSET StateBits
  BY <1>1, SliceTypes DEF RUNNING, StateBits
<1> HIDE DEF off, v, c, s
<1>4. Regular(off, s) /\ s \in KernelState
  BY <1>1, <1>2, <1>3, BlockedSlices, SetState
<1>5. Regular(k, s)
  BY <1>1, <1>4, SameRegular, RegularTransitive
<1>6. w # RUNNING /\ w \in SUBSET StateBits /\ s.current_thread \in Threads
  BY <1>4, SliceTypes DEF RUNNING, StateBits
<1>7. counted(k) = [s EXCEPT !.state[s.current_thread] = w]
  <2>1. s.current_thread = k.current_thread
    BY <1>1, <1>2, RemThread DEF KernelState, off, off_queue, c
  <2> QED BY <2>1 DEF counted, s
<1> HIDE DEF w
<1>8. Regular(s, counted(k)) /\ counted(k) \in KernelState
  BY <1>4, <1>6, <1>7, BlockedSlices, SetState
<1> QED BY <1>4, <1>5, <1>8, RegularTransitive DEF s

\* set_timer() starts a timer, and keeps the slices.
LEMMA SetTimerSlices ==
    ASSUME NEW k \in KernelState, NEW r \in Reasons
    PROVE  SlicesKept(k, set_timer(k, r)) /\ set_timer(k, r) \in KernelState
<1> DEFINE s == set_sleep_reason(k, r)
           c == k.current_thread
           x == [s EXCEPT !.timer[c] = TRUE]
<1>1. s \in KernelState /\ SameSlices(k, s) /\ c \in Threads
  BY SetSleepReason, FieldsSlices, SliceTypes DEF Quietly
<1>2. set_timer(k, r) = x
  BY DEF set_timer
<1> HIDE DEF s, c
<1>3. /\ x.slice = s.slice /\ x.current_thread = s.current_thread
      /\ x.timeslice_count = s.timeslice_count /\ x.state = s.state
  BY <1>1 DEF KernelState
<1>4. x \in KernelState
  BY <1>1, SetTimerField DEF Quietly
<1> HIDE DEF x
<1> QED BY <1>1, <1>2, <1>3, <1>4 DEF SlicesKept, SameSlices, Runs

\* What keeps the slices composes without the timers too.
LEMMA SlicesTransitive ==
    ASSUME NEW k, NEW k2, NEW k3, SlicesKept(k, k2), SlicesKept(k2, k3)
    PROVE  SlicesKept(k, k3)
BY DEF SlicesKept, Runs

\* The sleeping calls of the current thread.
LEMMA SleepingRegular ==
    ASSUME NEW k, Good(k), k.current_thread # Idle
    PROVE  /\ Regular(k, counted_sleep(k)) /\ Regular(k, consume_wakeup(k))
           /\ SlicesKept(k, alarm(set_timer(k, "TIMEOUT"), k.current_thread))
           /\ SlicesKept(k, timed_counted_sleep(set_timer(k, "TIMEOUT")))
           /\ SlicesKept(k, delay(k))
           /\ SlicesKept(k, alarm(delay(k), k.current_thread))
<1> DEFINE c == k.current_thread
           w == set_sleep_reason(k, "WAIT")
           a == set_timer(k, "TIMEOUT")
           b == set_sleep_reason(a, "TIMEOUT")
           s == sleep(k)
           d == delay(k)
<1>1. k \in KernelState /\ c \in Threads /\ {"WAIT", "TIMEOUT", "DELAY"} \subseteq Reasons
  BY GoodType, ReasonNames
<1>2. Regular(k, counted_sleep(k))
  <2>1. w \in KernelState /\ SameSlices(k, w)
    BY <1>1, SetSleepReason, FieldsSlices DEF Quietly
  <2> HIDE DEF w
  <2>2. Regular(w, counted(w))
    BY <2>1, SleepSlices
  <2>3. counted_sleep(k) = counted(w)
    BY DEF counted_sleep, w
  <2> QED BY <2>1, <2>2, <2>3, SameRegular, RegularTransitive
<1>3. Regular(k, consume_wakeup(k))
  BY <1>1, FieldsSlices, SameRegular DEF consume_wakeup
<1>4. SlicesKept(k, a) /\ a \in KernelState
  BY <1>1, SetTimerSlices
<1> HIDE DEF a, c
<1>5. SlicesKept(k, alarm(a, c))
  <2>1. Regular(a, alarm(a, c))
    BY <1>1, <1>4, WakingRegular
  <2> QED BY <1>4, <2>1, SlicesTransitive DEF Regular
<1>6. SlicesKept(k, timed_counted_sleep(a))
  <2>1. b \in KernelState /\ SameSlices(a, b)
    BY <1>1, <1>4, SetSleepReason, FieldsSlices DEF Quietly
  <2> HIDE DEF b
  <2>2. Regular(b, counted(b)) /\ Regular(a, b)
    BY <2>1, SleepSlices, SameRegular
  <2>3. timed_counted_sleep(a) = counted(b)
    BY DEF timed_counted_sleep, b
  <2> QED BY <1>4, <2>2, <2>3, SlicesTransitive DEF Regular
<1>7. SlicesKept(k, d) /\ d \in KernelState
  <2>1. s \in KernelState /\ SlicesKept(k, s)
    BY <1>1, SleepSlices DEF Regular
  <2>2. d = set_timer(s, "DELAY")
    BY DEF delay
  <2> HIDE DEF s, d
  <2>3. SlicesKept(s, d) /\ d \in KernelState
    BY <1>1, <2>1, <2>2, SetTimerSlices
  <2> QED BY <2>1, <2>3, SlicesTransitive
<1> HIDE DEF d
<1>8. SlicesKept(k, alarm(d, c))
  <2>1. Regular(d, alarm(d, c))
    BY <1>1, <1>7, WakingRegular
  <2> QED BY <1>7, <2>1, SlicesTransitive DEF Regular
<1> QED BY <1>2, <1>3, <1>5, <1>6, <1>7, <1>8 DEF a, c, d

\* A change of priority gives a runnable thread a new slice.
LEMMA PriorityRegular ==
    ASSUME NEW k, Good(k), NEW t \in Threads, NEW new \in Priorities
    PROVE  Regular(k, set_priority(k, t, new))
<1> DEFINE q  == k.queue[t]
           r  == rem_thread(k, t)
           ar == assign_priority(r, t, new)
           m1 == add_thread(ar, t)
           l  == leave_queue(k, t)
           al == assign_priority(l, t, new)
           m2 == enqueue(al, q, t)
           m3 == assign_priority(k, t, new)
<1>1. k \in KernelState
  BY GoodType
<1>2. Regular(k, m1) /\ m1 \in KernelState
  <2>1. r \in KernelState /\ SameSlices(k, r)
    BY <1>1, RemThread, QueuesSlices
  <2> HIDE DEF r
  <2>2. ar \in KernelState /\ SameSlices(r, ar)
    BY <2>1, AssignPriority, FieldsSlices
  <2> HIDE DEF ar
  <2>3. /\ m1 \in KernelState
        /\ m1.slice = ar.slice /\ m1.current_thread = ar.current_thread
        /\ m1.state = ar.state /\ m1.timer = ar.timer
        /\ m1.timeslice_count = [ar.timeslice_count EXCEPT ![t] = Quantum]
    BY <2>2, AddSlices
  <2> HIDE DEF m1
  <2>4. Regular(ar, m1)
    BY <2>2, <2>3, SliceTypes DEF Regular, SlicesKept, TimersKept, Runs
  <2>5. Regular(k, ar)
    BY <2>1, <2>2, SameRegular, RegularTransitive
  <2> QED BY <2>3, <2>4, <2>5, RegularTransitive
<1>3. ASSUME q # NoQueue PROVE Regular(k, m2) /\ m2 \in KernelState
  <2>0. q \in WaitQueues
    BY <1>1, <1>3 DEF KernelState
  <2>1. l \in KernelState /\ SameSlices(k, l)
    BY <1>1, LeaveQueue, QueuesSlices DEF Quietly
  <2> HIDE DEF l
  <2>2. al \in KernelState /\ SameSlices(l, al)
    BY <2>1, AssignPriority, FieldsSlices
  <2> HIDE DEF al, q
  <2>3. m2 \in KernelState /\ SameSlices(al, m2)
    BY <2>0, <2>2, Enqueue, FieldsSlices DEF Quietly
  <2> QED BY <2>1, <2>2, <2>3, SameRegular, RegularTransitive
<1>4. Regular(k, m3) /\ m3 \in KernelState
  BY <1>1, AssignPriority, FieldsSlices, SameRegular
<1>5. PICK m \in KernelState : /\ Regular(k, m)
                              /\ set_priority(k, t, new) = notify_priority(m, t)
  <2>1. CASE k.state[t] = RUNNING
    <3>1. set_priority(k, t, new) = notify_priority(m1, t)
      BY <2>1 DEF set_priority, RUNNING
    <3> HIDE DEF m1
    <3> QED BY <1>2, <3>1
  <2>2. CASE k.state[t] # RUNNING /\ "SLEEPING" \in k.state[t] /\ q # NoQueue
    <3>1. set_priority(k, t, new) = notify_priority(m2, t)
      BY <2>2 DEF set_priority, RUNNING
    <3>2. Regular(k, m2) /\ m2 \in KernelState
      BY <1>3, <2>2
    <3> HIDE DEF m2
    <3> QED BY <3>1, <3>2
  <2>3. CASE k.state[t] # RUNNING /\ ~("SLEEPING" \in k.state[t] /\ q # NoQueue)
    <3>1. set_priority(k, t, new) = notify_priority(m3, t)
      BY <2>3 DEF set_priority, RUNNING
    <3> HIDE DEF m3
    <3> QED BY <1>4, <3>1
  <2> QED BY <2>1, <2>2, <2>3
<1>6. Regular(m, notify_priority(m, t))
  BY <1>5, QueuesSlices, SameRegular DEF notify_priority
<1> QED BY <1>5, <1>6, RegularTransitive

\* Rotating run queues, short of the end of a slice.
LEMMA RotatingRegular ==
    ASSUME NEW k, Good(k), NEW p \in Priorities
    PROVE  Regular(k, yield(k)) /\ Regular(k, rotate_queue(k, p))
<1> DEFINE c == k.current_thread
           r == rotate_current(k)
           z == timeslice_reset(r, c)
           x == rotated(k, p)
<1>0. k \in KernelState /\ c \in Threads
  BY GoodType
<1>1. r \in KernelState /\ x \in KernelState /\ SameSlices(k, r) /\ SameSlices(k, x)
  BY <1>0, CurrentQueue, Rotate, QueuesSlices, GoodType DEF Step
<1>2. /\ yield(k) \in {k, z, set_need_reschedule(r)}
      /\ rotate_queue(k, p) \in {k, set_need_reschedule(x)}
  BY <1>1 DEF yield, rotate_queue, rotated
<1> HIDE DEF r, x
<1>3. Regular(r, z)
  <2>1. /\ z.slice = r.slice /\ z.current_thread = r.current_thread
        /\ z.state = r.state /\ z.timer = r.timer
        /\ z.timeslice_count = [r.timeslice_count EXCEPT ![c] = Quantum]
    BY <1>1 DEF KernelState, timeslice_reset
  <2> HIDE DEF z, c
  <2> QED BY <1>1, <2>1, SliceTypes DEF Regular, SlicesKept, TimersKept, Runs
<1> HIDE DEF z
<1>4. Regular(r, set_need_reschedule(r)) /\ Regular(x, set_need_reschedule(x))
  BY <1>0, <1>1, QueuesSlices, SameRegular
<1>5. Regular(k, r) /\ Regular(k, x) /\ Regular(k, k)
  BY <1>1, SameRegular DEF SameSlices
<1>6. \A y \in {k, z, set_need_reschedule(r), set_need_reschedule(x)} : Regular(k, y)
  BY <1>3, <1>4, <1>5, RegularTransitive
<1> QED BY <1>2, <1>6


-----------------------------------------------------------------------------
(* The current thread's place: at the head of its run queue, or about to   *)
(* give up the CPU.                                                        *)

\* An operation that leaves the current thread at the head, if it was there.
HeadKept(k, k2) ==
    /\ k2.current_thread = k.current_thread
    /\ k.need_reschedule => k2.need_reschedule
    /\ \/ k2.need_reschedule
       \/ /\ k2.priority[k.current_thread] = k.priority[k.current_thread]
          /\ current_is_head(k) => current_is_head(k2)

\* Whatever changes neither the run queues nor the priorities keeps the head.
SameHead(k, k2) ==
    /\ k2.current_thread = k.current_thread /\ k2.need_reschedule = k.need_reschedule
    /\ k2.priority = k.priority /\ k2.run_queue = k.run_queue

LEMMA SameKeepsHead ==
    ASSUME NEW k, NEW k2, SameHead(k, k2)
    PROVE  HeadKept(k, k2)
BY DEF SameHead, HeadKept, current_is_head

\* Operations that keep the head may follow each other.
LEMMA HeadTransitive ==
    ASSUME NEW k, NEW k2, NEW k3, HeadKept(k, k2), HeadKept(k2, k3)
    PROVE  HeadKept(k, k3)
BY DEF HeadKept

\* The operations on other fields.
LEMMA FieldsHead ==
    ASSUME NEW k \in KernelState, NEW t \in Threads, NEW r, NEW n, NEW v
    PROVE  /\ SameHead(k, set_sleep_reason(k, r))
           /\ SameHead(k, set_wake_reason(k, t, r))
           /\ SameHead(k, clear_timer(k, t))
           /\ SameHead(k, set_timer(k, r))
           /\ SameHead(k, leave_queue(k, t))
           /\ SameHead(k, timeslice_reset(k, t))
           /\ SameHead(k, [k EXCEPT !.wakeup_count[t] = n])
           /\ SameHead(k, [k EXCEPT !.suspend_count[t] = n])
           /\ SameHead(k, [k EXCEPT !.state[t] = v])
           /\ SameHead(k, set_suspend(k, t, v, n))
           /\ \A q : SameHead(k, enqueue(k, q, t))
<1>1. /\ SameHead(k, set_sleep_reason(k, r))
      /\ SameHead(k, set_wake_reason(k, t, r))
  BY DEF KernelState, SameHead, set_sleep_reason, set_wake_reason
<1>2. SameHead(k, clear_timer(k, t))
  BY DEF KernelState, SameHead, clear_timer
<1>3. SameHead(k, set_timer(k, r))
  BY DEF KernelState, SameHead, set_timer, set_sleep_reason
<1>4. SameHead(k, leave_queue(k, t))
  BY DEF KernelState, SameHead, leave_queue
<1>5. SameHead(k, timeslice_reset(k, t))
  BY DEF KernelState, SameHead, timeslice_reset
<1>6. /\ SameHead(k, [k EXCEPT !.wakeup_count[t] = n])
      /\ SameHead(k, [k EXCEPT !.suspend_count[t] = n])
      /\ SameHead(k, [k EXCEPT !.state[t] = v])
  BY DEF KernelState, SameHead
<1>7. SameHead(k, set_suspend(k, t, v, n))
  BY DEF KernelState, SameHead, set_suspend
<1>8. \A q : SameHead(k, enqueue(k, q, t))
  BY DEF KernelState, SameHead, enqueue
<1> QED BY <1>1, <1>2, <1>3, <1>4, <1>5, <1>6, <1>7, <1>8

\* A reschedule may be requested at any time.
LEMMA NeedHead ==
    ASSUME NEW k \in KernelState, NEW t \in Threads
    PROVE  /\ HeadKept(k, set_need_reschedule(k))
           /\ HeadKept(k, set_need_reschedule_for(k, t))
           /\ set_need_reschedule(k).need_reschedule
<1>1. /\ HeadKept(k, set_need_reschedule(k)) /\ set_need_reschedule(k).need_reschedule
  BY DEF KernelState, HeadKept, set_need_reschedule
<1>2. HeadKept(k, k)
  BY SameKeepsHead DEF SameHead
<1> QED BY <1>1, <1>2 DEF set_need_reschedule_for

\* A thread is put at the tail of its queue, behind the current thread.
LEMMA AddHead ==
    ASSUME NEW k \in KernelState, NEW t \in Threads
    PROVE  HeadKept(k, add_thread(k, t))
<1> DEFINE l == leave_queue(k, t)
           n == link(l, t)
           s == set_need_reschedule_for(n, t)
           r == timeslice_reset(s, t)
<1>1. l \in KernelState /\ HeadKept(k, l)
  BY LeaveQueue, FieldsHead, SameKeepsHead DEF Quietly
<1> HIDE DEF l
<1>2. n \in KernelState /\ HeadKept(l, n)
  <2> DEFINE c == l.current_thread
             p == l.priority[c]
             q == l.priority[t]
             u == l.run_queue[p]
  <2>1. /\ c \in Threads /\ p \in Priorities /\ q \in Priorities /\ u \in Seq(Threads)
        /\ l.run_queue[q] \in Seq(Threads)
    BY <1>1 DEF KernelState
  <2>2. /\ n.current_thread = c /\ n.need_reschedule = l.need_reschedule
        /\ n.priority = l.priority
        /\ n.run_queue = [l.run_queue EXCEPT ![q] = Append(@, t)]
    BY <1>1 DEF KernelState, link
  <2>3. n \in KernelState
    BY <1>1, Link
  <2>4. n.run_queue[p] \in {u, Append(u, t)}
    <3>1. DOMAIN l.run_queue = Priorities
      BY <1>1 DEF KernelState
    <3> HIDE DEF p, q, n
    <3>2. CASE p = q
      BY <2>1, <2>2, <3>1, <3>2
    <3>3. CASE p # q
      BY <2>1, <2>2, <3>1, <3>3
    <3> QED BY <3>2, <3>3
  <2>5. u # <<>> => Append(u, t) # <<>> /\ Head(Append(u, t)) = Head(u)
    BY <2>1
  <2>6. current_is_head(l) => current_is_head(n)
    BY <2>2, <2>4, <2>5 DEF current_is_head
  <2> QED BY <2>2, <2>3, <2>6 DEF HeadKept
<1> HIDE DEF n
<1>3. s \in KernelState /\ HeadKept(n, s)
  BY <1>2, SetNeed, NeedHead DEF set_need_reschedule_for
<1> HIDE DEF s
<1>4. HeadKept(s, r)
  BY <1>3, FieldsHead, SameKeepsHead
<1>5. add_thread(k, t) = r
  BY DEF add_thread, s, n, l
<1> HIDE DEF r
<1> QED BY <1>1, <1>2, <1>3, <1>4, <1>5, HeadTransitive

\* Another thread leaves its queue: the head stays.
LEMMA RemoveHead ==
    ASSUME NEW q \in Seq(Threads), q # <<>>, NEW t, Head(q) # t
    PROVE  remove(q, t) # <<>> /\ Head(remove(q, t)) = Head(q)
<1>1. CASE ~holds(q, t)
  BY <1>1 DEF remove
<1>2. CASE holds(q, t)
  <2> DEFINE p == position(q, t)
             r == remove(q, t)
  <2>1. p \in 1..Len(q) /\ q[p] = t
    BY <1>2 DEF position, holds
  <2>2. p # 1 /\ Len(q) \in Nat
    BY <2>1
  <2> HIDE DEF p
  <2>3. /\ r = [i \in 1..Len(q)-1 |-> IF i < p THEN q[i] ELSE q[i+1]]
    BY <1>2 DEF remove, p
  <2>4. r \in Seq(Threads) /\ Len(r) = Len(q) - 1 /\ r[1] = q[1]
    <3>1. \A i \in 1..Len(q)-1 : (IF i < p THEN q[i] ELSE q[i+1]) \in Threads
      BY <2>1
    <3> QED BY <2>1, <2>2, <2>3, <3>1
  <2> HIDE DEF r
  <2> QED BY <2>1, <2>2, <2>4 DEF r
<1> QED BY <1>1, <1>2

\* rem_thread() of another thread keeps the current one at the head.
LEMMA RemHead ==
    ASSUME NEW k \in KernelState, NEW t \in Threads, t # k.current_thread
    PROVE  rem_thread(k, t) \in KernelState /\ HeadKept(k, rem_thread(k, t))
<1> DEFINE r == rem_thread(k, t)
           c == k.current_thread
           p == k.priority[c]
           q == k.priority[t]
           u == k.run_queue[p]
<1>1. /\ c \in Threads /\ p \in Priorities /\ q \in Priorities /\ u \in Seq(Threads)
  BY DEF KernelState
<1>2. /\ r.current_thread = c /\ r.need_reschedule = k.need_reschedule
      /\ r.priority = k.priority
      /\ r.run_queue = [k.run_queue EXCEPT ![q] = remove(k.run_queue[q], t)]
  BY DEF KernelState, rem_thread
<1>3. r.run_queue[p] \in {u, remove(u, t)}
  BY <1>1, <1>2 DEF KernelState
<1>4. current_is_head(k) => current_is_head(r)
  BY <1>1, <1>2, <1>3, RemoveHead DEF current_is_head
<1>5. r \in KernelState
  BY RemThread
<1> QED BY <1>2, <1>4, <1>5 DEF HeadKept

\* The operations that make a thread runnable add it at the tail.
LEMMA WakeHead ==
    ASSUME NEW k \in KernelState, NEW t \in Threads
    PROVE  /\ HeadKept(k, wake(k, t))
           /\ \A r \in Reasons : HeadKept(k, wake(set_wake_reason(k, t, r), t))
<1>0. HeadKept(k, k)
  BY SameKeepsHead DEF SameHead
<1>1. ASSUME NEW s \in KernelState
      PROVE  HeadKept(s, runnable_again(s, t))
  BY AddHead, SameKeepsHead DEF runnable_again, SameHead
<1>2. ASSUME NEW s \in KernelState
      PROVE  HeadKept(s, wake(s, t))
  <2> DEFINE v == s.state[t] \ SLEEPSET
             m == [s EXCEPT !.state[t] = v]
             l == leave_queue(m, t)
  <2>1. CASE s.state[t] \cap SLEEPSET = {}
    BY <2>1, SameKeepsHead DEF wake, SameHead
  <2>2. CASE s.state[t] \cap SLEEPSET # {}
    <3>1. v \in SUBSET StateBits
      BY SliceTypes
    <3>2. m \in KernelState /\ HeadKept(s, m)
      BY <3>1, SetState, FieldsHead, SameKeepsHead
    <3> HIDE DEF m
    <3>3. l \in KernelState /\ HeadKept(m, l)
      BY <3>2, LeaveQueue, FieldsHead, SameKeepsHead DEF Quietly
    <3> HIDE DEF l
    <3>4. HeadKept(l, runnable_again(l, t))
      BY <1>1, <3>3
    <3>5. wake(s, t) = runnable_again(l, t)
      BY <2>2 DEF wake, l, m
    <3> QED BY <3>2, <3>3, <3>4, <3>5, HeadTransitive
  <2> QED BY <2>1, <2>2
<1>3. ASSUME NEW r \in Reasons PROVE HeadKept(k, wake(set_wake_reason(k, t, r), t))
  <2> DEFINE s == set_wake_reason(k, t, r)
  <2>1. s \in KernelState /\ HeadKept(k, s)
    BY SetWakeReason, FieldsHead, SameKeepsHead DEF Quietly
  <2> HIDE DEF s
  <2>2. HeadKept(s, wake(s, t))
    BY <1>2, <2>1
  <2>3. HeadKept(k, wake(s, t))
    BY <2>1, <2>2, HeadTransitive
  <2> QED BY <2>3 DEF s
<1> QED BY <1>2, <1>3

\* The operations that wake a thread keep the head.
LEMMA WakingHead ==
    ASSUME NEW k \in KernelState, NEW t \in Threads
    PROVE  /\ HeadKept(k, release(k, t)) /\ HeadKept(k, counted_wake(k, t))
           /\ HeadKept(k, cancel_counted_wake(k, t)) /\ HeadKept(k, alarm(k, t))
<1>1. \A n : HeadKept(k, [k EXCEPT !.wakeup_count[t] = n])
  BY FieldsHead, SameKeepsHead
<1>2. HeadKept(k, k)
  BY SameKeepsHead DEF SameHead
<1>3. HeadKept(k, alarm(k, t))
  <2> DEFINE off == clear_timer(k, t)
  <2>1. HeadKept(k, off) /\ off \in KernelState
    BY ClearSlices, FieldsHead, SameKeepsHead
  <2> HIDE DEF off
  <2>2. \A r \in {"DONE", "TIMEOUT"} : HeadKept(k, wake(set_wake_reason(off, t, r), t))
    BY <2>1, WakeHead, HeadTransitive, ReasonNames
  <2>3. alarm(k, t) \in
           {off} \cup {wake(set_wake_reason(off, t, r), t) : r \in {"DONE", "TIMEOUT"}}
    BY DEF alarm, off
  <2> QED BY <2>1, <2>2, <2>3
<1>4. HeadKept(k, release(k, t)) /\ HeadKept(k, counted_wake(k, t))
  BY <1>1, <1>2, WakeHead, ReasonNames DEF release, counted_wake
<1> QED BY <1>1, <1>3, <1>4 DEF cancel_counted_wake

\* Resuming keeps the head; suspending does unless it is the current thread's.
LEMMA SuspendingHead ==
    ASSUME NEW k \in KernelState, NEW t \in Threads
    PROVE  /\ HeadKept(k, resume(k, t)) /\ HeadKept(k, force_resume(k, t))
           /\ \/ HeadKept(k, suspend(k, t))
              \/ ~Runs(suspend(k, t), k.current_thread)
<1>1. HeadKept(k, unsuspend(k, t))
  <2> DEFINE v == k.state[t] \ {"SUSPENDED"}
             m == set_suspend(k, t, v, 0)
  <2>0. m = set_suspend(k, t, v, 0)
    OBVIOUS
  <2>1. v \in SUBSET StateBits
    BY SliceTypes
  <2>2. HeadKept(k, m)
    BY FieldsHead, SameKeepsHead
  <2>3. unsuspend(k, t) = runnable_again(m, t)
    BY DEF unsuspend, set_suspend
  <2> HIDE DEF m, v
  <2>4. /\ m \in KernelState /\ SameQueues(k, m)
        /\ m.state = [k.state EXCEPT ![t] = v] /\ m.priority = k.priority
        /\ m.suspend_count = [k.suspend_count EXCEPT ![t] = 0]
    <3>1. 0 \in Nat
      OBVIOUS
    <3> QED BY <2>0, <2>1, <3>1, SetSuspend
  <2>5. HeadKept(m, runnable_again(m, t))
    BY <2>4, AddHead, SameKeepsHead DEF runnable_again, SameHead
  <2> QED BY <2>2, <2>3, <2>5, HeadTransitive
<1>2. \A n : HeadKept(k, [k EXCEPT !.suspend_count[t] = n])
  BY FieldsHead, SameKeepsHead
<1>3. HeadKept(k, k)
  BY SameKeepsHead DEF SameHead
<1>4. resume(k, t) \in
         {k, unsuspend(k, t), [k EXCEPT !.suspend_count[t] = k.suspend_count[t] - 1]}
  <2>1. k.suspend_count[t] \in Nat
    BY DEF KernelState
  <2> QED BY <2>1 DEF resume
<1>5. HeadKept(k, suspend(k, t)) \/ ~Runs(suspend(k, t), k.current_thread)
  <2> DEFINE off == off_queue(k, t)
             s == suspend(k, t)
             c == k.current_thread
  <2>1. off \in KernelState /\ SameSlices(k, off)
    BY RemThread, QueuesSlices DEF off_queue, SameSlices
  <2>2. s = [off EXCEPT !.suspend_count[t] = @ + 1, !.state[t] = @ \cup {"SUSPENDED"}]
    BY DEF suspend, off_queue
  <2>3. CASE t = c
    <3> HIDE DEF off, s
    <3>1. s.state = [off.state EXCEPT ![t] = @ \cup {"SUSPENDED"}]
      BY <2>1, <2>2 DEF KernelState
    <3>2. ~Runs(s, c)
      BY <2>1, <2>3, <3>1, SliceTypes DEF Runs, RUNNING
    <3> QED BY <3>2 DEF s
  <2>4. CASE t # c
    <3>1. HeadKept(k, off)
      BY <1>3, <2>4, RemHead DEF off_queue
    <3> HIDE DEF off, s
    <3>2. SameHead(off, s)
      BY <2>1, <2>2 DEF KernelState, SameHead
    <3>3. HeadKept(k, s)
      BY <3>1, <3>2, SameKeepsHead, HeadTransitive
    <3> QED BY <3>3 DEF s
  <2> QED BY <2>3, <2>4
<1> QED BY <1>1, <1>2, <1>3, <1>4, <1>5 DEF force_resume

\* kill() of another thread keeps the head.
LEMMA KillHead ==
    ASSUME NEW k, Good(k), NEW t \in Threads \ {Idle}, t # k.current_thread
    PROVE  HeadKept(k, kill(k, t))
<1> DEFINE f  == force_resume(k, t)
           up == clear_timer(f, t)
           d  == deschedule(up, t)
           w  == wake(set_wake_reason(up, t, "EXIT"), t)
<1>0. k \in KernelState
  BY GoodType
<1>1. HeadKept(k, f) /\ f \in KernelState
  BY <1>0, SuspendingHead, Resume, GoodType DEF Step
<1> HIDE DEF f
<1>2. HeadKept(f, up) /\ up \in KernelState
  BY <1>1, ClearSlices, FieldsHead, SameKeepsHead
<1> HIDE DEF up
<1>3. HeadKept(k, up) /\ t # up.current_thread
  BY <1>1, <1>2, HeadTransitive DEF HeadKept
<1>4. HeadKept(up, wake(up, t)) /\ HeadKept(up, w)
  BY <1>2, WakeHead, ReasonNames
<1>5. HeadKept(up, d) /\ d \in KernelState
  <2> DEFINE off == off_queue(up, t)
             v == {"EXITED"}
  <2>1. off \in KernelState /\ HeadKept(up, off)
    BY <1>2, <1>3, RemHead, SameKeepsHead DEF off_queue, SameHead
  <2>2. d = [off EXCEPT !.state[t] = v]
    BY DEF deschedule, off_queue
  <2> HIDE DEF off, d, v
  <2>3. HeadKept(off, d)
    BY <2>1, <2>2, FieldsHead, SameKeepsHead
  <2>4. d \in KernelState
    BY <1>2, DescheduleSlices DEF d
  <2> QED BY <2>1, <2>3, <2>4, HeadTransitive
<1> HIDE DEF d
<1>6. HeadKept(d, wake(d, t))
  BY <1>5, WakeHead
<1>7. HeadKept(up, wake(d, t))
  BY <1>5, <1>6, HeadTransitive
<1> HIDE DEF w
<1>8. kill(k, t) \in {up, wake(up, t), wake(d, t), w}
  BY DEF kill, up, f, d, w
<1>9. \A v \in {up, wake(up, t), wake(d, t), w} : HeadKept(k, v)
  BY <1>3, <1>4, <1>7, HeadTransitive
<1> QED BY <1>8, <1>9

\* A priority change keeps the head, or requests a reschedule.
LEMMA PriorityHead ==
    ASSUME NEW k, Good(k), NEW t \in Threads, NEW new \in Priorities
    PROVE  HeadKept(k, set_priority(k, t, new))
<1> DEFINE q  == k.queue[t]
           r  == rem_thread(k, t)
           ar == assign_priority(r, t, new)
           m1 == add_thread(ar, t)
           l  == leave_queue(k, t)
           al == assign_priority(l, t, new)
           m2 == enqueue(al, q, t)
           m3 == assign_priority(k, t, new)
<1>1. k \in KernelState
  BY GoodType
<1>2. ASSUME NEW s \in KernelState
      PROVE  LET a == assign_priority(s, t, new)
             IN  /\ a \in KernelState /\ a.current_thread = s.current_thread
                 /\ t # s.current_thread => HeadKept(s, a)
  <2> DEFINE a == assign_priority(s, t, new)
             c == s.current_thread
  <2>1. /\ a.current_thread = c /\ a.need_reschedule = s.need_reschedule
        /\ a.run_queue = s.run_queue
        /\ \A u \in Threads \ {t} : a.priority[u] = s.priority[u]
    BY DEF KernelState, assign_priority
  <2>2. a \in KernelState
    BY AssignPriority
  <2>3. t # c => HeadKept(s, a)
    BY <2>1, SliceTypes DEF HeadKept, current_is_head
  <2> QED BY <2>1, <2>2, <2>3
<1> DEFINE Fine(m) == /\ m \in KernelState /\ m.current_thread = k.current_thread
                      /\ t # k.current_thread => HeadKept(k, m)
<1>3. Fine(m1)
  <2>1. /\ r \in KernelState /\ r.current_thread = k.current_thread
        /\ t # k.current_thread => HeadKept(k, r)
    BY <1>1, RemThread, RemHead, QueuesSlices DEF SameSlices
  <2> HIDE DEF r
  <2>2. /\ ar \in KernelState /\ ar.current_thread = r.current_thread
        /\ t # r.current_thread => HeadKept(r, ar)
    BY <1>2, <2>1
  <2> HIDE DEF ar
  <2>3. m1 \in KernelState /\ HeadKept(ar, m1)
    BY <2>2, AddSlices, AddHead
  <2> HIDE DEF m1
  <2>4. m1.current_thread = k.current_thread
    BY <2>1, <2>2, <2>3 DEF HeadKept
  <2> QED BY <2>1, <2>2, <2>3, <2>4, HeadTransitive
<1>4. ASSUME q # NoQueue PROVE Fine(m2)
  <2>0. q \in WaitQueues
    BY <1>1, <1>4 DEF KernelState
  <2>1. l \in KernelState /\ HeadKept(k, l) /\ l.current_thread = k.current_thread
    BY <1>1, LeaveQueue, FieldsHead, SameKeepsHead DEF Quietly, SameHead
  <2> HIDE DEF l
  <2>2. /\ al \in KernelState /\ al.current_thread = l.current_thread
        /\ t # l.current_thread => HeadKept(l, al)
    BY <1>2, <2>1
  <2> HIDE DEF al, q
  <2>3. m2 \in KernelState /\ HeadKept(al, m2) /\ m2.current_thread = al.current_thread
    BY <2>0, <2>2, Enqueue, FieldsHead, SameKeepsHead DEF Quietly, SameHead
  <2> HIDE DEF m2
  <2> QED BY <2>1, <2>2, <2>3, HeadTransitive
<1>5. Fine(m3)
  BY <1>1, <1>2
<1>6. PICK m : Fine(m) /\ set_priority(k, t, new) = notify_priority(m, t)
  <2> HIDE DEF Fine
  <2>1. CASE k.state[t] = RUNNING
    <3>1. set_priority(k, t, new) = notify_priority(m1, t)
      BY <2>1 DEF set_priority, RUNNING
    <3> HIDE DEF m1
    <3> QED BY <1>3, <3>1
  <2>2. CASE k.state[t] # RUNNING /\ "SLEEPING" \in k.state[t] /\ q # NoQueue
    <3>1. set_priority(k, t, new) = notify_priority(m2, t)
      BY <2>2 DEF set_priority, RUNNING
    <3>2. Fine(m2)
      BY <1>4, <2>2
    <3> HIDE DEF m2
    <3> QED BY <3>1, <3>2
  <2>3. CASE k.state[t] # RUNNING /\ ~("SLEEPING" \in k.state[t] /\ q # NoQueue)
    <3>1. set_priority(k, t, new) = notify_priority(m3, t)
      BY <2>3 DEF set_priority, RUNNING
    <3> HIDE DEF m3
    <3> QED BY <1>5, <3>1
  <2> QED BY <2>1, <2>2, <2>3
<1>7. CASE t = k.current_thread
  <2>1. notify_priority(m, t) = set_need_reschedule(m)
    BY <1>6, <1>7 DEF notify_priority
  <2>2. HeadKept(m, set_need_reschedule(m)) /\ set_need_reschedule(m).need_reschedule
    BY <1>6, NeedHead
  <2> HIDE DEF Fine
  <2>3. m.current_thread = k.current_thread
    BY <1>6 DEF Fine
  <2> QED BY <1>6, <2>1, <2>2, <2>3 DEF HeadKept
<1>8. CASE t # k.current_thread
  <2>1. HeadKept(k, m) /\ HeadKept(m, notify_priority(m, t))
    BY <1>6, <1>8, NeedHead DEF notify_priority
  <2> QED BY <1>6, <2>1, HeadTransitive
<1> QED BY <1>7, <1>8

\* The current thread runs at the head of its queue, or will be rescheduled.
Ahead(k) == Runs(k, k.current_thread) => k.need_reschedule \/ current_is_head(k)
\* What an operation may do to that: keep the place, or stop the thread.
Leads(k, k2) == HeadKept(k, k2) \/ ~Runs(k2, k.current_thread)

\* A runnable current thread stays ahead.
LEMMA LeadsAhead ==
    ASSUME NEW k, NEW k2, Ahead(k), Runs(k, k.current_thread), Leads(k, k2),
           k2.current_thread = k.current_thread
    PROVE  Ahead(k2)
BY DEF Ahead, Leads, HeadKept

\* The calls in which the current thread sleeps, unless nothing is to be
\* waited for.
LEMMA SleepingHead ==
    ASSUME NEW k, Good(k), k.current_thread # Idle
    PROVE  /\ Leads(k, counted_sleep(k)) /\ Leads(k, consume_wakeup(k))
           /\ Leads(k, alarm(set_timer(k, "TIMEOUT"), k.current_thread))
           /\ Leads(k, timed_counted_sleep(set_timer(k, "TIMEOUT")))
           /\ Leads(k, delay(k))
<1> DEFINE c == k.current_thread
           w == set_sleep_reason(k, "WAIT")
           a == set_timer(k, "TIMEOUT")
           b == set_sleep_reason(a, "TIMEOUT")
           s == sleep(k)
<1>1. k \in KernelState /\ c \in Threads /\ {"WAIT", "TIMEOUT", "DELAY"} \subseteq Reasons
  BY GoodType, ReasonNames
<1>2. ASSUME NEW x \in KernelState, x.current_thread = c
      PROVE  ~Runs(counted(x), c)
  <2> DEFINE y == sleep(x)
  <2>1. y \in KernelState
    BY <1>2, SleepSlices
  <2>2. counted(x) = [y EXCEPT !.state[c] = @ \cup {"COUNTSLEEP"}]
    BY <1>2 DEF counted
  <2> HIDE DEF y, c
  <2>3. counted(x).state = [y.state EXCEPT ![c] = @ \cup {"COUNTSLEEP"}]
    BY <2>1, <2>2 DEF KernelState
  <2> QED BY <1>1, <2>1, <2>3, SliceTypes DEF Runs, RUNNING
<1>3. Leads(k, counted_sleep(k))
  <2>1. w \in KernelState /\ w.current_thread = c
    BY <1>1, SetSleepReason DEF Quietly, SameQueues
  <2> QED BY <1>2, <2>1 DEF counted_sleep, Leads
<1>4. Leads(k, consume_wakeup(k))
  <2>1. \A n : HeadKept(k, [k EXCEPT !.wakeup_count[c] = n])
    BY <1>1, FieldsHead, SameKeepsHead
  <2> QED BY ONLY <2>1 DEF consume_wakeup, Leads
<1>5. a \in KernelState /\ a.current_thread = c /\ HeadKept(k, a)
  BY <1>1, SetTimerSlices, FieldsHead, SameKeepsHead DEF SlicesKept
<1>6. Leads(k, alarm(a, c))
  <2> HIDE DEF a
  <2> QED BY <1>1, <1>5, WakingHead, HeadTransitive DEF Leads
<1>7. Leads(k, timed_counted_sleep(a))
  <2> HIDE DEF a
  <2>1. b \in KernelState /\ b.current_thread = c
    BY <1>1, <1>5, SetSleepReason DEF Quietly, SameQueues
  <2> QED BY <1>2, <2>1 DEF timed_counted_sleep, Leads
<1>8. Leads(k, delay(k))
  <2>1. ~Runs(s, c) /\ s \in KernelState
    BY Sleep, SleepSlices, <1>1
  <2>2. delay(k) = set_timer(s, "DELAY")
    BY DEF delay
  <2> HIDE DEF s, c
  <2>3. set_timer(s, "DELAY").state = s.state
    BY <2>1 DEF KernelState, set_timer, set_sleep_reason
  <2> QED BY <2>1, <2>2, <2>3 DEF Leads, Runs, c
<1> QED BY <1>3, <1>4, <1>6, <1>7, <1>8

\* exit() stops the thread.
LEMMA ExitStops ==
    ASSUME NEW k \in KernelState
    PROVE  ~Runs(exit(k), k.current_thread)
<1> DEFINE self == k.current_thread
           off == clear_timer(k, self)
           m == [off EXCEPT !.state[self] = {"EXITED"}]
<1>1. self \in Threads
  BY SliceTypes
<1>2. off \in KernelState /\ off.state = k.state
  BY <1>1, ClearSlices
<1>3. CASE k.state[self] = {"EXITED"}
  <2>1. exit(k) = off
    BY <1>3 DEF exit
  <2> HIDE DEF off
  <2> QED BY <1>2, <1>3, <2>1 DEF Runs, RUNNING
<1>4. CASE k.state[self] # {"EXITED"}
  <2>1. exit(k) = rem_thread(m, self)
    BY <1>4 DEF exit
  <2>2. {"EXITED"} \in SUBSET StateBits
    BY DEF StateBits
  <2> HIDE DEF off, self
  <2>3. m \in KernelState /\ m.state = [off.state EXCEPT ![self] = {"EXITED"}]
    BY <1>1, <1>2, <2>2, SetState
  <2> HIDE DEF m
  <2>4. rem_thread(m, self).state = m.state
    BY <1>1, <2>3, QueuesSlices DEF SameSlices
  <2>5. ~Runs(exit(k), self)
    BY <1>1, <1>2, <2>1, <2>3, <2>4, SliceTypes DEF Runs, RUNNING
  <2> QED BY <2>5 DEF self
<1> QED BY <1>3, <1>4

\* After yield() the head runs, or a reschedule is requested.
LEMMA YieldAhead ==
    ASSUME NEW k, Good(k)
    PROVE  /\ Ahead(yield(k))
           /\ \A p \in Priorities : Leads(k, rotate_queue(k, p))
<1> DEFINE c == k.current_thread
           r == rotate_current(k)
           z == timeslice_reset(r, c)
<1>1. k \in KernelState /\ c \in Threads /\ r \in KernelState /\ r.current_thread = c
  BY GoodType, CurrentQueue DEF Step
<1>2. Ahead(yield(k))
  <2>1. CASE k.state[c] # RUNNING
    BY <2>1 DEF yield, Ahead, Runs
  <2>2. CASE k.state[c] = RUNNING /\ current_is_head(r)
    <3>1. yield(k) = z
      BY <2>2 DEF yield
    <3> HIDE DEF r
    <3>2. SameHead(r, z)
      BY <1>1, FieldsHead
    <3> HIDE DEF z, c
    <3> QED BY <2>2, <3>1, <3>2 DEF Ahead, SameHead, current_is_head
  <2>3. CASE k.state[c] = RUNNING /\ ~current_is_head(r)
    <3>1. yield(k) = set_need_reschedule(r)
      BY <2>3 DEF yield
    <3> HIDE DEF r
    <3> QED BY <1>1, <3>1, NeedHead DEF Ahead
  <2> QED BY <2>1, <2>2, <2>3
<1>3. ASSUME NEW p \in Priorities PROVE Leads(k, rotate_queue(k, p))
  <2> DEFINE x == rotated(k, p)
  <2>1. rotate_queue(k, p) \in {k, set_need_reschedule(x)}
    BY DEF rotate_queue, rotated
  <2>2. x \in KernelState /\ x.current_thread = c
    BY Rotate DEF Step
  <2> HIDE DEF x, c
  <2>3. HeadKept(x, set_need_reschedule(x)) /\ set_need_reschedule(x).need_reschedule
    BY <1>1, <2>2, NeedHead
  <2>4. HeadKept(k, set_need_reschedule(x))
    BY <2>2, <2>3 DEF HeadKept, c
  <2>5. HeadKept(k, k)
    BY DEF HeadKept
  <2> QED BY <2>1, <2>4, <2>5 DEF Leads
<1> QED BY <1>2, <1>3

\* timeslice() leaves the head running too; and at the end of a slice the
\* thread that was at the head of a queue of several gives up the CPU.
LEMMA TimesliceAhead ==
    ASSUME NEW k, Good(k), Ahead(k)
    PROVE  /\ Ahead(timeslice(k))
           /\ \A t \in Threads :
                 /\ k.slice = 1 /\ Runs(k, k.current_thread)
                 /\ t # k.current_thread /\ Runs(k, t)
                 /\ k.priority[t] = k.priority[k.current_thread]
                 => timeslice(k).need_reschedule
<1> DEFINE n == (k.slice + CountMod - 1) % CountMod
           d == [k EXCEPT !.slice = n]
           r == rotate_current(d)
           z == [r EXCEPT !.slice = Quantum]
           c == k.current_thread
           p == k.priority[c]
           q == k.run_queue[p]
<1>1. /\ k \in KernelState /\ Quantum \in 0..CountMod-1 /\ CountMod \in Nat \ {0}
      /\ c \in Threads /\ p \in Priorities
  <2>1. k \in KernelState
    BY GoodType
  <2>2. Quantum \in 0..CountMod-1 /\ CountMod \in Nat \ {0}
    BY QuantumAssumption
  <2>3. c \in Threads /\ p \in Priorities
    BY <2>1 DEF KernelState
  <2> QED BY <2>1, <2>2, <2>3
<1>2. n \in 0..CountMod-1 /\ (k.slice = 1 => n = 0)
  <2>1. k.slice \in 0..CountMod-1
    BY <1>1 DEF KernelState
  <2>2. k.slice + CountMod - 1 \in Nat
    BY <1>1, <2>1
  <2>3. CountMod % CountMod = 0
    BY <1>1
  <2> QED BY <1>1, <2>1, <2>2, <2>3
<1> HIDE DEF n
<1>3. /\ Good(d) /\ SameHead(k, d) /\ d.state = k.state /\ d.slice = n
  <2>1. Quietly(k, d)
    BY <1>1, <1>2, SetSlice
  <2>2. d.slice = n
    BY <1>1 DEF KernelState
  <2> HIDE DEF d
  <2> QED BY <2>1, <2>2, QuietAfter DEF Quietly, SameQueues, SameHead
<1>4. /\ n # 0 => timeslice(k) = d
      /\ n = 0 => timeslice(k) = timeslice_cpu(d)
  BY <1>3 DEF timeslice, n
<1> HIDE DEF d
<1>5. Ahead(d)
  BY <1>3 DEF Ahead, Runs, SameHead, current_is_head
<1>6. /\ d \in KernelState /\ d.current_thread = c /\ d.priority[c] = p
      /\ d.run_queue[p] = q /\ q \in Seq(Threads)
      /\ d.run_queue \in [Priorities -> Seq(Threads)]
  BY <1>1, <1>3, GoodType DEF SameHead, KernelState
<1> HIDE DEF c, p, q
<1>7. /\ r \in KernelState /\ r.current_thread = c /\ r.priority[c] = p
      /\ r.need_reschedule = d.need_reschedule
      /\ r.state = d.state /\ r.run_queue[p] = rotate(q)
  <2>1. r = rotated(d, p) /\ Step(d, r)
    BY <1>3, <1>6, CurrentQueue
  <2>2. /\ r.priority = d.priority /\ r.state = d.state
        /\ r.need_reschedule = d.need_reschedule
        /\ r.run_queue = [d.run_queue EXCEPT ![p] = rotate(@)]
    BY <1>6, <2>1 DEF KernelState, rotated
  <2> HIDE DEF r
  <2> QED BY <1>1, <1>6, <2>1, <2>2, GoodType DEF Step
<1> HIDE DEF r
<1>8. /\ z \in KernelState /\ z.current_thread = c /\ z.priority[c] = p
      /\ z.need_reschedule = d.need_reschedule
      /\ z.state = d.state /\ z.run_queue[p] = rotate(q)
  BY <1>1, <1>7 DEF KernelState
<1>9. ASSUME n = 0, Runs(d, c)
      PROVE  /\ current_is_head(z) => timeslice(k) = z
             /\ ~current_is_head(z) => timeslice(k) = set_need_reschedule(z)
  BY <1>4, <1>6, <1>9 DEF timeslice_cpu, Runs, r, z
<1> HIDE DEF z
<1>10. Ahead(timeslice(k))
  <2>1. CASE n # 0
    BY <1>4, <1>5, <2>1
  <2>2. CASE n = 0 /\ Runs(d, c)
    <3>1. CASE current_is_head(z)
      BY <1>9, <2>2, <3>1 DEF Ahead
    <3>2. CASE ~current_is_head(z)
      BY <1>1, <1>8, <1>9, <2>2, <3>2, NeedHead DEF Ahead
    <3> QED BY <3>1, <3>2
  <2>3. CASE n = 0 /\ ~Runs(d, c)
    BY <1>4, <1>5, <1>6, <2>3 DEF timeslice_cpu, Runs
  <2> QED BY <2>1, <2>2, <2>3
<1>11. ASSUME NEW t \in Threads, k.slice = 1, Runs(k, c), t # c, Runs(k, t),
              k.priority[t] = p
       PROVE  timeslice(k).need_reschedule
  <2>1. n = 0 /\ Runs(d, c)
    BY <1>2, <1>3, <1>11 DEF Runs
  <2>2. d.need_reschedule \/ current_is_head(d)
    BY <1>5, <1>6, <2>1 DEF Ahead
  <2>3. CASE d.need_reschedule
    <3>1. z.need_reschedule
      BY <1>8, <2>3
    <3> QED BY <1>1, <1>8, <1>9, <2>1, <3>1, NeedHead
  <2>4. CASE current_is_head(d)
    <3>1. q # <<>> /\ q[1] = c
      BY <1>6, <2>4 DEF current_is_head
    <3>2. PICK i \in 1..Len(q) : q[i] = t
      <4>1. holds(q, t)
        BY <1>1, <1>11 DEF Good, Agree, Placed, q, p
      <4> QED BY <4>1 DEF holds
    <3>3. Distinct(q)
      BY <1>1 DEF Good, Agree, Sound, q
    <3>4. Len(q) \in Nat /\ i > 1
      BY <1>6, <1>11, <3>1, <3>2
    <3>5. q[2] # c
      BY <3>1, <3>3, <3>4 DEF Distinct
    <3>6. rotate(q) # <<>> /\ Head(rotate(q)) = q[2]
      BY <1>6, <3>1, <3>4 DEF rotate
    <3>7. ~current_is_head(z)
      BY <1>8, <3>5, <3>6 DEF current_is_head
    <3> QED BY <1>1, <1>8, <1>9, <2>1, <3>7, NeedHead
  <2> QED BY <2>2, <2>3, <2>4
<1> QED BY <1>10, <1>11 DEF c, p

\* Whoever schedule() names is at the head of its queue.
LEMMA ScheduleHead ==
    ASSUME NEW k, Agree(k), NEW k2, k2.run_queue = k.run_queue,
           k2.priority = k.priority, k2.current_thread = schedule(k)
    PROVE  current_is_head(k2)
<1> DEFINE best == lowest_bit(k.queue_map)
           q == k.run_queue[best]
<1>1. /\ k \in KernelState /\ k.queue_map \in SUBSET Priorities
      /\ k.run_queue \in [Priorities -> Seq(Threads)]
      /\ k.priority \in [Threads -> Priorities]
  BY DEF Agree, Sound, KernelState
<1>0. Priorities \subseteq Nat
  BY PriorityAssumption DEF Priorities
<1>2. k.queue_map # {}
  <2> DEFINE p == k.priority[Idle]
  <2>1. p \in Priorities /\ Runs(k, Idle)
    BY <1>1, ThreadsAssumption DEF Agree, Sound
  <2>2. holds(k.run_queue[p], Idle)
    BY <2>1, ThreadsAssumption DEF Agree, Placed
  <2>3. k.run_queue[p] # <<>>
    BY <2>2 DEF holds
  <2> QED BY <2>1, <2>3 DEF Agree, Sound
<1>3. best \in k.queue_map
  BY <1>0, <1>1, <1>2, NatMin DEF lowest_bit
<1> HIDE DEF best
<1>4. best \in Priorities /\ q \in Seq(Threads) /\ q # <<>>
  BY <1>1, <1>3 DEF Agree, Sound
<1>5. Head(q) \in Threads /\ holds(q, Head(q))
  BY <1>4 DEF holds
<1>6. k.priority[Head(q)] = best
  BY <1>4, <1>5 DEF Agree, Placed
<1>7. schedule(k) = Head(q)
  BY DEF schedule, best
<1> QED BY <1>4, <1>6, <1>7 DEF current_is_head


\* timeslice() counts the CPU's slice down by one, and sets it again when a
\* runnable thread used it up.
LEMMA TimesliceSlices ==
    ASSUME NEW k \in KernelState, k.slice \in 1..Quantum
    PROVE  LET k2 == timeslice(k)
           IN  /\ k2.slice \in 0..Quantum
               /\ k2.slice = 0 => ~Runs(k, k.current_thread)
               /\ k2.current_thread = k.current_thread /\ k2.state = k.state
               /\ k2.timeslice_count = k.timeslice_count /\ k2.timer = k.timer
<1> DEFINE n == (k.slice + CountMod - 1) % CountMod
           d == [k EXCEPT !.slice = n]
           r == rotate_current(d)
           z == [r EXCEPT !.slice = Quantum]
           k2 == timeslice(k)
<1>1. Quantum \in 1..CountMod-1 /\ CountMod \in Nat \ {0}
  BY QuantumAssumption
<1>2. n = k.slice - 1 /\ n \in 0..Quantum-1 /\ n \in 0..CountMod-1
  <2>1. /\ k.slice - 1 \in 0..CountMod-1
        /\ k.slice + CountMod - 1 = (k.slice - 1) + CountMod
    BY <1>1
  <2>2. \A x \in 0..CountMod-1 : (x + CountMod) % CountMod = x
    BY <1>1
  <2> QED BY <1>1, <2>1, <2>2
<1> HIDE DEF n
<1>3. /\ d \in KernelState /\ d.slice = n
      /\ d.current_thread = k.current_thread /\ d.state = k.state
      /\ d.timeslice_count = k.timeslice_count /\ d.timer = k.timer
  <2>1. d \in KernelState
    BY <1>2, SetSlice DEF Quietly
  <2>2. /\ d.slice = n
        /\ d.current_thread = k.current_thread /\ d.state = k.state
        /\ d.timeslice_count = k.timeslice_count /\ d.timer = k.timer
    BY DEF KernelState
  <2> QED BY <2>1, <2>2
<1>4. /\ n # 0 => k2 = d
      /\ n = 0 => k2 = timeslice_cpu(d)
  BY <1>3 DEF timeslice, n
<1> HIDE DEF d
<1>5. SameSlices(d, r)
  BY <1>3, QueuesSlices, ThreadsAssumption
<1>6. DOMAIN r = DOMAIN d
  BY <1>3 DEF KernelState, rotate_current
<1> HIDE DEF r
<1>7. /\ z.slice = Quantum /\ z.current_thread = k.current_thread /\ z.state = k.state
      /\ z.timeslice_count = k.timeslice_count /\ z.timer = k.timer
      /\ set_need_reschedule(z).slice = Quantum
      /\ set_need_reschedule(z).current_thread = k.current_thread
      /\ set_need_reschedule(z).state = k.state
      /\ set_need_reschedule(z).timeslice_count = k.timeslice_count
      /\ set_need_reschedule(z).timer = k.timer
  BY <1>3, <1>5, <1>6 DEF KernelState, SameSlices, set_need_reschedule
<1>8. CASE n # 0
  BY <1>1, <1>2, <1>3, <1>4, <1>8
<1>9. CASE n = 0 /\ Runs(k, k.current_thread)
  <2>1. k2 \in {z, set_need_reschedule(z)}
    BY <1>3, <1>4, <1>9 DEF timeslice_cpu, Runs, r
  <2> HIDE DEF z, k2
  <2> QED BY <1>1, <1>7, <2>1 DEF k2
<1>10. CASE n = 0 /\ ~Runs(k, k.current_thread)
  <2>1. k2 = d
    BY <1>3, <1>4, <1>10 DEF timeslice_cpu, Runs
  <2> QED BY <1>1, <1>2, <1>3, <1>10, <2>1
<1> QED BY <1>8, <1>9, <1>10

=============================================================================
