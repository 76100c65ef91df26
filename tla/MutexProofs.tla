----------------------------- MODULE MutexProofs -----------------------------
(***************************************************************************)
(* What the priority protocols of mutexes do: they change no wait, they    *)
(* count mutexes, and a thread gets back the priority that was asked for.  *)
(***************************************************************************)
EXTENDS Mutexes, WaitProofs

\* The priority last asked for t, and one that is no worse.
Lawful(kk, t, req) ==
    /\ req = IF kk.priority_inherited[t] THEN kk.original_priority[t] ELSE kk.priority[t]
    /\ kk.priority[t] <= req

Law(kk, k2) == \A t \in Threads : \A req : Lawful(kk, t, req) => Lawful(k2, t, req)

\* Only threads with mutexes have inherited a priority.
NoFreeLoans(kk) ==
    \A t \in Threads : kk.mutex_count[t] = 0 => ~kk.priority_inherited[t]

\* The laws of inheritance are kept.
Kept(kk, k2) == Law(kk, k2) /\ (NoFreeLoans(kk) => NoFreeLoans(k2))

\* Only marks of priorities change, and the order in a queue.
Ranked(kk, k2) == Step(kk, k2) /\ Lists(k2) /\ SameMarks(kk, k2)

\* No thread gets a worse priority, and only t's changes.
Raised(kk, k2, t) ==
    \A u \in Threads : /\ k2.priority[u] <= kk.priority[u]
                       /\ u # t => k2.priority[u] = kk.priority[u]

\* Priorities are numbers.
LEMMA PriorityNumbers ==
    ASSUME NEW kk, Good(kk)
    PROVE  \A u \in Threads : kk.priority[u] \in Int /\ kk.priority[u] <= kk.priority[u]
<1>1. /\ kk.priority \in [Threads -> Priorities] /\ Priorities \subseteq Int
  BY FieldTypes, PriorityAssumption DEF Priorities
<1>2. SUFFICES ASSUME NEW u \in Threads
              PROVE  kk.priority[u] \in Int /\ kk.priority[u] <= kk.priority[u]
  OBVIOUS
<1>3. kk.priority[u] \in Int
  BY <1>1
<1> QED BY ONLY <1>3

\* What leaves priorities alone keeps the laws.
LEMMA PlainKept ==
    ASSUME NEW kk, NEW k2, Plain(kk, k2)
    PROVE  Kept(kk, k2)
BY DEF Plain, SamePriorities, Kept, Law, Lawful, NoFreeLoans

\* Laws that are kept by two steps are kept by both together.
LEMMA KeptTransitive ==
    ASSUME NEW k1, NEW k2, NEW k3, Kept(k1, k2), Kept(k2, k3)
    PROVE  Kept(k1, k3)
BY DEF Kept, Law

\* Changes of rank follow one another.
LEMMA RankedTransitive ==
    ASSUME NEW k1, NEW k2, NEW k3, Ranked(k1, k2), Ranked(k2, k3)
    PROVE  Ranked(k1, k3)
BY StepTransitive DEF Ranked, SameMarks

\* set_inherited_priority() changes no mark of a wait and keeps the laws, if
\* the thread it lends to has a mutex.
LEMMA InheritFields ==
    ASSUME NEW kk, Good(kk), NEW t \in Users, NEW pri \in Priorities,
           Lists(kk), QueuedSleeps(kk, t)
    PROVE  LET k2 == set_inherited_priority(kk, t, pri)
           IN  /\ Ranked(kk, k2) /\ k2.mutex_count = kk.mutex_count
               /\ kk.mutex_count[t] > 0 => Kept(kk, k2)
               /\ Raised(kk, k2, t) /\ k2.priority[t] <= pri
<1> DEFINE off == [kk EXCEPT !.priority_inherited[t] = FALSE]
           s   == set_priority(off, t, pri)
           o   == IF kk.priority_inherited[t] THEN s.original_priority[t] ELSE kk.priority[t]
           k2  == [s EXCEPT !.original_priority[t] = o, !.priority_inherited[t] = TRUE]
<1>1. /\ kk \in KernelState /\ t \in Threads /\ Priorities \subseteq Int
      /\ kk.priority \in [Threads -> Priorities]
      /\ kk.priority_inherited \in [Threads -> BOOLEAN]
      /\ kk.original_priority \in [Threads -> Priorities]
      /\ kk.mutex_count \in [Threads -> Nat]
  BY FieldTypes, PriorityAssumption DEF Users, Priorities
<1>2. CASE ~(pri < kk.priority[t])
  <2>1. set_inherited_priority(kk, t, pri) = kk
    BY <1>2 DEF set_inherited_priority
  <2>2. Raised(kk, kk, t) /\ kk.priority[t] <= pri
    BY <1>1, <1>2 DEF Raised
  <2> QED BY <2>1, <2>2, StepRefl DEF Ranked, SameMarks, Kept, Law
<1>3. CASE pri < kk.priority[t]
  <2>1. set_inherited_priority(kk, t, pri) = k2
    BY <1>3 DEF set_inherited_priority
  <2>2. /\ off \in KernelState /\ Quietly(kk, off) /\ SameMarks(kk, off)
        /\ off.wait_queue = kk.wait_queue /\ off.mutex_count = kk.mutex_count
        /\ off.priority = kk.priority
        /\ off.original_priority = kk.original_priority
        /\ off.priority_inherited = [kk.priority_inherited EXCEPT ![t] = FALSE]
    BY <1>1 DEF KernelState, Quietly, SameQueues, SameMarks
  <2> HIDE DEF off
  <2>3. Step(kk, off) /\ Good(off) /\ Lists(off) /\ QueuedSleeps(off, t)
    BY <2>2, QuietStep DEF Step, Lists, QueuedSleeps, SameMarks, Asleep
  <2>4. /\ Step(off, s) /\ Good(s) /\ Lists(s)
        /\ SameMarks(off, s) /\ Assigned(off, s, t, pri)
    BY <2>3, SetPriorityFields
  <2> HIDE DEF s
  <2>5. ~off.priority_inherited[t]
    BY <1>1, <2>2
  <2>6. /\ s.mutex_count = kk.mutex_count
        /\ s.priority_inherited = [kk.priority_inherited EXCEPT ![t] = FALSE]
        /\ s.priority = [kk.priority EXCEPT ![t] = pri]
        /\ s.original_priority = kk.original_priority
    BY <1>1, <2>2, <2>4, <2>5 DEF Assigned
  <2>7. o \in Priorities
    BY <1>1, <2>6
  <2>8. /\ o = IF kk.priority_inherited[t] THEN kk.original_priority[t] ELSE kk.priority[t]
    BY <2>6
  <2> HIDE DEF o
  <2>9. s \in KernelState
    BY <2>4, GoodType
  <2>10. /\ k2 \in KernelState /\ Quietly(s, k2) /\ SameMarks(s, k2)
         /\ k2.wait_queue = s.wait_queue /\ k2.mutex_count = s.mutex_count
         /\ k2.priority = s.priority
         /\ k2.original_priority = [s.original_priority EXCEPT ![t] = o]
         /\ k2.priority_inherited = [s.priority_inherited EXCEPT ![t] = TRUE]
    BY <1>1, <2>7, <2>9 DEF KernelState, Quietly, SameQueues, SameMarks
  <2> HIDE DEF k2
  <2>11. Step(s, k2) /\ Lists(k2)
    BY <2>4, <2>10, QuietStep DEF Lists, SameMarks
  <2>12. Step(kk, k2)
    BY <2>3, <2>4, <2>11, StepTransitive
  <2>13. Ranked(kk, k2)
    BY <2>2, <2>4, <2>10, <2>11, <2>12 DEF Ranked, SameMarks
  <2>14. Law(kk, k2)
    <3> SUFFICES ASSUME NEW u \in Threads, NEW req, Lawful(kk, u, req)
                 PROVE  Lawful(k2, u, req)
      BY DEF Law
    <3>1. CASE u # t
      BY <1>1, <2>6, <2>10, <3>1 DEF Lawful
    <3>2. CASE u = t
      <4>1. /\ k2.priority[t] = pri /\ k2.original_priority[t] = o
            /\ k2.priority_inherited[t]
        BY <1>1, <2>6, <2>10
      <4>2. req = o /\ kk.priority[t] <= req /\ req \in Priorities
        BY <2>7, <2>8, <3>2 DEF Lawful
      <4>3. pri <= req
        BY <1>1, <1>3, <4>2
      <4> QED BY <3>2, <4>1, <4>2, <4>3 DEF Lawful
    <3> QED BY <3>1, <3>2
  <2>15. kk.mutex_count[t] > 0 /\ NoFreeLoans(kk) => NoFreeLoans(k2)
    BY <1>1, <2>6, <2>10 DEF NoFreeLoans
  <2>16. Raised(kk, k2, t) /\ k2.priority[t] <= pri
    <3>1. k2.priority = [kk.priority EXCEPT ![t] = pri]
      BY <2>6, <2>10
    <3> QED BY <1>1, <1>3, <3>1 DEF Raised
  <2> QED BY <2>1, <2>6, <2>10, <2>13, <2>14, <2>15, <2>16 DEF Kept
<1> QED BY <1>2, <1>3

\* Setting a mutex count changes nothing else.
LEMMA SetMutexCount ==
    ASSUME NEW kk, Good(kk), Lists(kk), NEW t \in Threads, NEW n \in Nat
    PROVE  LET k2 == [kk EXCEPT !.mutex_count[t] = n]
           IN  /\ Ranked(kk, k2) /\ SamePriorities(kk, k2)
               /\ k2.mutex_count = [kk.mutex_count EXCEPT ![t] = n]
               /\ k2.wait_queue = kk.wait_queue
<1> DEFINE k2 == [kk EXCEPT !.mutex_count[t] = n]
<1>1. kk \in KernelState
  BY GoodType
<1>2. /\ Quietly(kk, k2) /\ SameMarks(kk, k2) /\ SamePriorities(kk, k2)
      /\ k2.wait_queue = kk.wait_queue
      /\ k2.mutex_count = [kk.mutex_count EXCEPT ![t] = n]
  BY <1>1 DEF KernelState, Quietly, SameQueues, SameMarks, SamePriorities
<1> HIDE DEF k2
<1>3. Ranked(kk, k2)
  BY <1>2, QuietStep DEF Ranked, Lists, SameMarks
<1> QED BY <1>2, <1>3 DEF k2

\* The count of mutexes after one more, or one less, that affects priorities.
more(kk, t, m) == IF Active(m) THEN [kk.mutex_count EXCEPT ![t] = @ + 1] ELSE kk.mutex_count
less(kk, t, m) == IF Active(m) THEN [kk.mutex_count EXCEPT ![t] = @ - 1] ELSE kk.mutex_count

\* A mutex is counted before a thread locks it or waits for it.
LEMMA CountFields ==
    ASSUME NEW kk, Good(kk), NEW t \in Users, Lists(kk), QueuedSleeps(kk, t),
           NEW m \in Mutexes, mutex[m].ceiling \in Priorities
    PROVE  LET k2 == count_mutex(kk, t, m)
           IN  /\ Ranked(kk, k2) /\ Kept(kk, k2) /\ k2.mutex_count = more(kk, t, m)
               /\ Raised(kk, k2, t) /\ (Inherits(m) => k2.priority = kk.priority)
<1> DEFINE k2  == count_mutex(kk, t, m)
           up  == [kk EXCEPT !.mutex_count[t] = kk.mutex_count[t] + 1]
<1>1. /\ kk \in KernelState /\ t \in Threads
      /\ kk.mutex_count \in [Threads -> Nat]
      /\ Protocol[m] \in {"NONE", "INHERIT", "CEILING"}
      /\ kk.priority \in [Threads -> Priorities] /\ Priorities \subseteq Int
  BY FieldTypes, MutexAssumption, PriorityAssumption DEF Users, Priorities
<1>1a. Raised(kk, kk, t)
  BY PriorityNumbers DEF Raised
<1>2. CASE Protocol[m] = "NONE"
  <2>1. k2 = kk
    BY <1>2 DEF count_mutex
  <2> QED BY <1>1a, <1>2, <2>1, StepRefl DEF Ranked, SameMarks, Kept, Law, more, Active
<1>3. CASE Protocol[m] # "NONE"
  <2>1. kk.mutex_count[t] + 1 \in Nat /\ kk.mutex_count[t] + 1 > 0
    BY <1>1
  <2>2. /\ Ranked(kk, up) /\ SamePriorities(kk, up)
        /\ up.mutex_count = [kk.mutex_count EXCEPT ![t] = kk.mutex_count[t] + 1]
    BY <1>1, <2>1, SetMutexCount
  <2>3. /\ k2 \in {up, set_inherited_priority(up, t, mutex[m].ceiling)}
        /\ Inherits(m) => k2 = up
    BY <1>1, <1>3 DEF count_mutex, Inherits
  <2> HIDE DEF up, k2
  <2>4. up.mutex_count[t] > 0 /\ up.mutex_count = more(kk, t, m)
    BY <1>1, <1>3, <2>1, <2>2 DEF more, Active
  <2>5. Kept(kk, up)
    <3>1. NoFreeLoans(kk) => NoFreeLoans(up)
      BY <1>1, <2>1, <2>2 DEF NoFreeLoans, SamePriorities
    <3> QED BY <2>2, <3>1 DEF Kept, Law, Lawful, SamePriorities
  <2>6. Good(up) /\ Lists(up) /\ QueuedSleeps(up, t)
    BY <2>2 DEF Ranked, Step, SameMarks, QueuedSleeps, Asleep
  <2>7. LET s == set_inherited_priority(up, t, mutex[m].ceiling)
        IN  /\ Ranked(up, s) /\ s.mutex_count = up.mutex_count /\ Kept(up, s)
            /\ Raised(up, s, t)
    BY <2>4, <2>6, InheritFields
  <2>8. LET s == set_inherited_priority(up, t, mutex[m].ceiling)
        IN  /\ Ranked(kk, s) /\ s.mutex_count = more(kk, t, m) /\ Kept(kk, s)
    BY <2>2, <2>4, <2>5, <2>7, RankedTransitive, KeptTransitive
  <2>9. up.priority = kk.priority
    BY <2>2 DEF SamePriorities
  <2>10. Raised(kk, k2, t)
    BY <1>1a, <2>3, <2>7, <2>9 DEF Raised
  <2> QED BY <2>2, <2>3, <2>4, <2>5, <2>8, <2>9, <2>10 DEF k2
<1> QED BY <1>2, <1>3

\* clear_inherited_priority(): a thread without a mutex gets the priority
\* back that was asked for it.
LEMMA ClearInheritedFields ==
    ASSUME NEW kk, Good(kk), NEW t \in Users, Lists(kk), QueuedSleeps(kk, t)
    PROVE  LET k2 == clear_inherited_priority(kk, t)
           IN  /\ Ranked(kk, k2) /\ k2.mutex_count = kk.mutex_count
               /\ Law(kk, k2)
               /\ k2.mutex_count[t] = 0 => ~k2.priority_inherited[t]
               /\ \A u \in Threads \ {t} :
                    k2.priority_inherited[u] = kk.priority_inherited[u]
               /\ \A u \in Threads :
                    u # t \/ kk.mutex_count[t] # 0 => k2.priority[u] = kk.priority[u]
<1> DEFINE off == [kk EXCEPT !.priority_inherited[t] = FALSE]
           s   == set_priority(off, t, kk.original_priority[t])
           k2  == clear_inherited_priority(kk, t)
<1>1. /\ kk \in KernelState /\ t \in Threads /\ Priorities \subseteq Int
      /\ kk.priority \in [Threads -> Priorities]
      /\ kk.priority_inherited \in [Threads -> BOOLEAN]
      /\ kk.original_priority \in [Threads -> Priorities]
      /\ kk.original_priority[t] \in Priorities /\ kk.priority[t] \in Priorities
  BY FieldTypes, PriorityAssumption DEF Users, Priorities
<1>2. CASE ~(kk.mutex_count[t] = 0 /\ kk.priority_inherited[t])
  <2>1. k2 = kk
    BY <1>2 DEF clear_inherited_priority
  <2> QED BY <1>2, <2>1, StepRefl DEF Ranked, SameMarks, Law
<1>3. CASE kk.mutex_count[t] = 0 /\ kk.priority_inherited[t]
  <2>1. k2 = IF kk.priority[t] < kk.original_priority[t] THEN s ELSE off
    BY <1>3 DEF clear_inherited_priority
  <2>2. /\ Quietly(kk, off) /\ SameMarks(kk, off)
        /\ off.wait_queue = kk.wait_queue /\ off.mutex_count = kk.mutex_count
        /\ off.priority = kk.priority
        /\ off.original_priority = kk.original_priority
        /\ off.priority_inherited = [kk.priority_inherited EXCEPT ![t] = FALSE]
    BY <1>1 DEF KernelState, Quietly, SameQueues, SameMarks
  <2> HIDE DEF off
  <2>3. /\ Step(kk, off) /\ Good(off) /\ Lists(off) /\ QueuedSleeps(off, t)
        /\ Ranked(kk, off)
    BY <2>2, QuietStep DEF Ranked, Step, Lists, QueuedSleeps, SameMarks, Asleep
  <2>4. /\ Ranked(off, s) /\ Assigned(off, s, t, kk.original_priority[t])
    BY <1>1, <2>3, SetPriorityFields DEF Ranked
  <2> HIDE DEF s, k2
  <2>5. ~off.priority_inherited[t]
    BY <1>1, <2>2
  <2>6. Ranked(kk, s)
    BY <2>3, <2>4, RankedTransitive
  <2>7. /\ s.mutex_count = kk.mutex_count
        /\ s.priority_inherited = [kk.priority_inherited EXCEPT ![t] = FALSE]
        /\ s.priority = [kk.priority EXCEPT ![t] = kk.original_priority[t]]
        /\ s.original_priority = kk.original_priority
    BY <1>1, <2>2, <2>4, <2>5 DEF Assigned
  <2>8. ASSUME NEW u \in Threads, NEW req, Lawful(kk, u, req)
        PROVE  Lawful(k2, u, req)
    <3>1. CASE u # t
      BY <1>1, <2>1, <2>2, <2>7, <2>8, <3>1 DEF Lawful
    <3>2. CASE u = t
      <4>0. kk.original_priority[t] \in Int /\ kk.priority[t] \in Int
        BY <1>1
      <4>1. req = kk.original_priority[t] /\ kk.priority[t] <= req
        BY <1>3, <2>8, <3>2 DEF Lawful
      <4>2. CASE kk.priority[t] < kk.original_priority[t]
        <5>1. k2.priority[t] = req /\ ~k2.priority_inherited[t]
          BY <1>1, <2>1, <2>7, <4>1, <4>2
        <5> QED BY <3>2, <4>0, <4>1, <5>1 DEF Lawful
      <4>3. CASE ~(kk.priority[t] < kk.original_priority[t])
        <5>1. k2.priority[t] = kk.priority[t] /\ ~k2.priority_inherited[t]
          BY <1>1, <2>1, <2>2, <2>5, <4>3
        <5>2. kk.priority[t] = req
          BY <4>0, <4>1, <4>3
        <5> QED BY <3>2, <4>0, <4>1, <5>1, <5>2 DEF Lawful
      <4> QED BY <4>2, <4>3
    <3> QED BY <3>1, <3>2
  <2>9. Law(kk, k2)
    BY <2>8 DEF Law
  <2>10. /\ k2.mutex_count = kk.mutex_count
         /\ k2.priority_inherited = [kk.priority_inherited EXCEPT ![t] = FALSE]
    BY <2>1, <2>2, <2>7
  <2>11. \A u \in Threads :
            u # t \/ kk.mutex_count[t] # 0 => k2.priority[u] = kk.priority[u]
    BY <1>1, <1>3, <2>1, <2>2, <2>7
  <2> QED BY <1>1, <2>1, <2>3, <2>6, <2>9, <2>10, <2>11 DEF k2
<1> QED BY <1>2, <1>3

\* A thread has one mutex less.
LEMMA UncountFields ==
    ASSUME NEW kk, Good(kk), NEW t \in Users, Lists(kk), QueuedSleeps(kk, t),
           NEW m \in Mutexes, Active(m) => kk.mutex_count[t] > 0
    PROVE  LET k2 == uncount_mutex(kk, t, m)
           IN  /\ Ranked(kk, k2) /\ Kept(kk, k2) /\ k2.mutex_count = less(kk, t, m)
               /\ \A u \in Threads :
                    u # t \/ k2.mutex_count[t] # 0 => k2.priority[u] = kk.priority[u]
<1> DEFINE down == [kk EXCEPT !.mutex_count[t] = kk.mutex_count[t] - 1]
           k2   == clear_inherited_priority(down, t)
<1>1. /\ kk \in KernelState /\ t \in Threads
      /\ kk.mutex_count \in [Threads -> Nat]
  BY FieldTypes DEF Users
<1>2. CASE ~Active(m)
  <2>1. uncount_mutex(kk, t, m) = kk
    BY <1>2 DEF uncount_mutex
  <2> QED BY <1>2, <2>1, StepRefl DEF Ranked, SameMarks, Kept, Law, less
<1>3. CASE Active(m)
  <2>1. uncount_mutex(kk, t, m) = k2
    BY <1>3 DEF uncount_mutex
  <2>2. kk.mutex_count[t] - 1 \in Nat
    BY <1>1, <1>3
  <2>3. /\ Ranked(kk, down) /\ SamePriorities(kk, down)
        /\ down.mutex_count = [kk.mutex_count EXCEPT ![t] = kk.mutex_count[t] - 1]
    BY <1>1, <2>2, SetMutexCount
  <2> HIDE DEF down
  <2>4. Good(down) /\ Lists(down) /\ QueuedSleeps(down, t)
    BY <2>3 DEF Ranked, Step, SameMarks, QueuedSleeps, Asleep
  <2>5. /\ Ranked(down, k2) /\ k2.mutex_count = down.mutex_count
        /\ Law(down, k2)
        /\ k2.mutex_count[t] = 0 => ~k2.priority_inherited[t]
        /\ \A u \in Threads \ {t} : k2.priority_inherited[u] = down.priority_inherited[u]
        /\ \A u \in Threads :
             u # t \/ down.mutex_count[t] # 0 => k2.priority[u] = down.priority[u]
    BY <2>4, ClearInheritedFields
  <2> HIDE DEF k2
  <2>6. Law(kk, down)
    BY <2>3 DEF Law, Lawful, SamePriorities
  <2>7. Law(kk, k2)
    BY <2>5, <2>6 DEF Law
  <2>8. NoFreeLoans(kk) => NoFreeLoans(k2)
    BY <1>1, <2>3, <2>5 DEF NoFreeLoans, SamePriorities
  <2>9. Ranked(kk, k2)
    BY <2>3, <2>5, RankedTransitive
  <2>10. k2.mutex_count = less(kk, t, m)
    BY <1>3, <2>3, <2>5 DEF less
  <2>11. \A u \in Threads :
            u # t \/ k2.mutex_count[t] # 0 => k2.priority[u] = kk.priority[u]
    BY <2>3, <2>5 DEF SamePriorities
  <2> QED BY <2>1, <2>7, <2>8, <2>9, <2>10, <2>11 DEF Kept
<1> QED BY <1>2, <1>3

\* A change of rank ends no wait.
LEMMA RankedContinued ==
    ASSUME NEW kk, NEW k2, NEW D, Waits(kk), Ranked(kk, k2)
    PROVE  Continued(kk, k2, D) /\ Waits(k2) /\ Good(k2)
<1>1. Continued(kk, k2, D)
  BY MarksContinued DEF Ranked, SameMarks
<1> QED BY <1>1 DEF Continued, Step

\* set_priority() keeps the laws, with the new priority as the one asked for.
LEMMA SetPriorityLaw ==
    ASSUME NEW kk, Good(kk), Waits(kk), NEW t \in Users, NEW new \in Priorities
    PROVE  LET k2 == set_priority(kk, t, new)
           IN  /\ Ranked(kk, k2) /\ k2.mutex_count = kk.mutex_count
               /\ NoFreeLoans(kk) => NoFreeLoans(k2)
               /\ \A u \in Threads : \A req :
                    Lawful(kk, u, req) => Lawful(k2, u, IF u = t THEN new ELSE req)
<1> DEFINE k2 == set_priority(kk, t, new)
<1>1. /\ t \in Threads /\ Priorities \subseteq Int
      /\ kk.priority \in [Threads -> Priorities]
      /\ kk.original_priority \in [Threads -> Priorities]
  BY FieldTypes, PriorityAssumption DEF Users, Priorities
<1>2. /\ Step(kk, k2) /\ Lists(k2) /\ SameMarks(kk, k2) /\ Assigned(kk, k2, t, new)
  BY <1>1, SetPriorityFields DEF Waits, QueuedSleeps
<1> HIDE DEF k2
<1>3. NoFreeLoans(kk) => NoFreeLoans(k2)
  BY <1>2 DEF NoFreeLoans, Assigned
<1>4. ASSUME NEW u \in Threads, NEW req, Lawful(kk, u, req)
      PROVE  Lawful(k2, u, IF u = t THEN new ELSE req)
  <2>1. CASE u # t
    BY <1>1, <1>2, <1>4, <2>1 DEF Lawful, Assigned
  <2>2. CASE u = t
    <3>1. kk.priority[t] \in Int /\ new \in Int
      BY <1>1
    <3> QED BY <1>1, <1>2, <1>4, <2>2, <3>1 DEF Lawful, Assigned
  <2> QED BY <2>1, <2>2
<1> QED BY <1>2, <1>3, <1>4 DEF Ranked, Assigned, k2

\* unlock(): the heir's wait ends, it inherits what its ex-owner had, and the
\* ex-owner's count goes down.
LEMMA UnlockedContinued ==
    ASSUME NEW kk, Good(kk), Waits(kk), self \in Users, NEW m \in Mutexes,
           Active(m) => kk.mutex_count[self] > 0,
           kk.wait_queue[m] # <<>> /\ Active(m) => kk.mutex_count[Head(kk.wait_queue[m])] > 0,
           NEW D, kk.wait_queue[m] # <<>> => Head(kk.wait_queue[m]) \in D
    PROVE  LET k2   == unlocked(kk, m)
               heir == Head(kk.wait_queue[m])
           IN  /\ Continued(kk, k2, D) /\ Kept(kk, k2) /\ k2.mutex_count = less(kk, self, m)
               /\ kk.wait_queue[m] # <<>> =>
                    /\ heir \in Users /\ kk.queue[heir] = m /\ Awake(k2, heir)
                    /\ k2.sleep_reason[heir] = "NONE" /\ k2.wake_reason[heir] = "DONE"
<1> DEFINE heir == Head(kk.wait_queue[m])
           l    == leave_queue(kk, heir)
           r    == relay_priority(l, heir, self, m)
           w    == wake_done(r, heir)
           told == IF kk.wait_queue[m] = <<>> THEN kk ELSE w
           k2   == unlocked(kk, m)
<1>1. /\ kk \in KernelState /\ m \in WaitQueues /\ self \in Threads
      /\ kk.queue \in [Threads -> WaitQueues \cup {NoQueue}]
      /\ kk.state \in [Threads -> SUBSET StateBits]
  BY FieldTypes, MutexAssumption DEF Users
<1>2. k2 = uncount_mutex(told, self, m)
  BY DEF unlocked
<1> HIDE DEF k2
<1>3. ASSUME kk.wait_queue[m] # <<>>
      PROVE  /\ Continued(kk, w, D) /\ Kept(kk, w) /\ w.mutex_count = kk.mutex_count
             /\ heir \in Users /\ kk.queue[heir] = m /\ Awake(w, heir)
             /\ w.sleep_reason[heir] = "NONE" /\ w.wake_reason[heir] = "DONE"
  <2>1. /\ heir \in Users /\ heir \in Threads /\ kk.queue[heir] = m
        /\ kk.sleep_reason[heir] \in {"WAIT", "TIMEOUT"} /\ heir \in D
        /\ Active(m) => kk.mutex_count[heir] > 0
    BY <1>1, <1>3, HeadWaits DEF Users
  <2> HIDE DEF heir
  <2>2. /\ Lists(l) /\ Plain(kk, l) /\ l.queue = [kk.queue EXCEPT ![heir] = NoQueue]
        /\ l.state = kk.state /\ l.timer = kk.timer
        /\ l.sleep_reason = kk.sleep_reason /\ l.wake_reason = kk.wake_reason
    BY <1>1, <2>1, LeaveLists DEF Waits
  <2>3. Good(l) /\ Step(kk, l) /\ l \in KernelState
    BY <1>1, <2>1, LeaveQueue, QuietStep DEF Step, Quietly
  <2> HIDE DEF l
  <2>4. QueuedSleeps(l, heir) /\ l.priority[self] \in Priorities
    BY <1>1, <2>1, <2>2, <2>3, FieldTypes DEF QueuedSleeps
  <2>5. Ranked(l, r) /\ r.mutex_count = l.mutex_count /\ Kept(l, r)
    <3>1. CASE r = l
      BY <2>2, <2>3, <3>1, StepRefl DEF Ranked, SameMarks, Kept, Law
    <3>2. CASE r # l
      <4>1. Inherits(m) /\ r = set_inherited_priority(l, heir, l.priority[self])
        BY <3>2 DEF relay_priority
      <4>2. Active(m)
        BY <4>1 DEF Inherits, Active
      <4>3. l.mutex_count[heir] > 0
        BY <2>1, <2>2, <4>2 DEF Plain
      <4> HIDE DEF r
      <4> QED BY <2>1, <2>2, <2>3, <2>4, <4>1, <4>3, InheritFields
    <3> QED BY <3>1, <3>2
  <2> HIDE DEF r
  <2>6. Good(r) /\ Lists(r) /\ QueuedSleeps(r, heir)
    BY <2>4, <2>5 DEF Ranked, Step, SameMarks, QueuedSleeps, Asleep
  <2>7. w = wake(set_wake_reason(r, heir, "DONE"), heir)
    BY DEF wake_done
  <2> HIDE DEF w
  <2>8. Step(r, w) /\ Woken(r, w, heir, "DONE")
    BY <2>1, <2>6, <2>7, WokenFields DEF Reasons
  <2>9. Step(kk, w)
    BY <2>3, <2>5, <2>8, StepTransitive DEF Ranked
  <2>10. /\ Lists(w) /\ w.queue = [kk.queue EXCEPT ![heir] = NoQueue]
         /\ w.state = [kk.state EXCEPT ![heir] = @ \ SLEEPSET]
         /\ w.timer = kk.timer
         /\ w.sleep_reason = [kk.sleep_reason EXCEPT ![heir] = "NONE"]
         /\ w.wake_reason = [kk.wake_reason EXCEPT ![heir] = "DONE"]
    <3>1. [[kk.queue EXCEPT ![heir] = NoQueue] EXCEPT ![heir] = NoQueue]
            = [kk.queue EXCEPT ![heir] = NoQueue]
      BY <1>1
    <3> QED BY <2>2, <2>5, <2>8, <3>1 DEF Ranked, SameMarks, Woken
  <2>11. w.mutex_count = kk.mutex_count
    BY <2>2, <2>5, <2>8 DEF Plain, Woken
  <2>12. Kept(kk, w)
    <3>1. Kept(kk, l) /\ Kept(r, w)
      BY <2>2, <2>8, PlainKept DEF Woken
    <3> QED BY <2>5, <3>1, KeptTransitive
  <2>13. /\ kk.sleep_reason \in [Threads -> Reasons]
         /\ kk.wake_reason \in [Threads -> Reasons]
    BY FieldTypes
  <2>14. /\ w.queue[heir] = NoQueue /\ ~Asleep(w, heir)
         /\ w.sleep_reason[heir] = "NONE" /\ w.wake_reason[heir] = "DONE"
    BY <1>1, <2>1, <2>10, <2>13 DEF Asleep, SLEEPSET
  <2>15. \A u \in Threads \ {heir} :
            /\ Asleep(w, u) <=> Asleep(kk, u)
            /\ w.sleep_reason[u] = kk.sleep_reason[u]
            /\ w.wake_reason[u] = kk.wake_reason[u]
            /\ w.timer[u] = kk.timer[u]
    BY <1>1, <2>10, <2>13 DEF Asleep
  <2>16. Continued(kk, w, D)
    <3>1. Ends(kk, w, heir, D)
      BY <2>1, <2>14 DEF Ends, Outcomes
    <3>2. ~Asleep(w, heir)
      BY <2>14
    <3> QED BY <2>1, <2>9, <2>10, <2>15, <3>1, <3>2, OneContinued
  <2> QED BY <2>1, <2>11, <2>12, <2>14, <2>16 DEF Awake
<1>4. Continued(kk, told, D) /\ Kept(kk, told) /\ told.mutex_count = kk.mutex_count
  <2>1. Plain(kk, kk)
    BY DEF Plain, SamePriorities
  <2> HIDE DEF w
  <2> QED BY <1>3, <2>1, ContinuedRefl, PlainKept
<1>5. ASSUME kk.wait_queue[m] # <<>>
      PROVE  /\ heir \in Users /\ kk.queue[heir] = m /\ Awake(told, heir)
             /\ told.sleep_reason[heir] = "NONE" /\ told.wake_reason[heir] = "DONE"
  <2> HIDE DEF w
  <2> QED BY <1>3, <1>5
<1> HIDE DEF told, heir
<1>6. Good(told) /\ Waits(told) /\ Lists(told) /\ QueuedSleeps(told, self)
  BY <1>1, <1>4 DEF Continued, Step, Waits, QueuedSleeps
<1>7. Ranked(told, k2) /\ Kept(told, k2) /\ k2.mutex_count = less(told, self, m)
  BY <1>2, <1>4, <1>6, UncountFields
<1>8. Continued(told, k2, D)
  BY <1>6, <1>7, RankedContinued
<1>9. Continued(kk, k2, D) /\ Kept(kk, k2) /\ k2.mutex_count = less(kk, self, m)
  BY <1>4, <1>7, <1>8, ContinuedTransitive, KeptTransitive DEF less
<1> QED BY <1>5, <1>7, <1>9 DEF Ranked, SameMarks, Awake, Asleep, heir, k2

\* A thread goes to sleep on a mutex, and lends its owner its priority.
LEMMA LockBlocks ==
    ASSUME NEW kk, Calling(kk), kk.current_thread = self, NEW m \in Mutexes,
           mutex[m].owner \in Users, Active(m) => kk.mutex_count[mutex[m].owner] > 0, NEW D
    PROVE  LET asleep == block(kk, m, "WAIT")
               k2 == IF Inherits(m)
                     THEN set_inherited_priority(asleep, mutex[m].owner, asleep.priority[self])
                     ELSE asleep
           IN  /\ Moved(kk, k2, D) /\ Kept(kk, k2) /\ k2.mutex_count = kk.mutex_count
               /\ k2.queue[self] = m /\ Asleep(k2, self)
               /\ k2.sleep_reason[self] = "WAIT" /\ k2.wake_reason[self] = "NONE"
<1> DEFINE asleep == block(kk, m, "WAIT")
           owner  == mutex[m].owner
           s      == set_inherited_priority(asleep, owner, asleep.priority[self])
           k2     == IF Inherits(m) THEN s ELSE asleep
           Goal(z) == /\ Moved(kk, z, D) /\ Kept(kk, z) /\ z.mutex_count = kk.mutex_count
                      /\ z.queue[self] = m /\ Asleep(z, self)
                      /\ z.sleep_reason[self] = "WAIT" /\ z.wake_reason[self] = "NONE"
<1>1. m \in WaitQueues /\ self \in Users /\ self \in Threads
  BY MutexAssumption DEF Calling, Users
<1>2. /\ Moved(kk, asleep, D) /\ Plain(kk, asleep)
      /\ asleep.queue[self] = m /\ Asleep(asleep, self)
      /\ asleep.sleep_reason[self] = "WAIT" /\ asleep.wake_reason[self] = "NONE"
  BY <1>1, BlockMoved DEF Blocked
<1> HIDE DEF asleep
<1>3. /\ Good(asleep) /\ Waits(asleep) /\ Lists(asleep) /\ QueuedSleeps(asleep, owner)
      /\ asleep.current_thread = self /\ asleep.priority[self] \in Priorities
  BY <1>1, <1>2, FieldTypes DEF Moved, Step, Waits, QueuedSleeps, Users
<1>4. Kept(kk, asleep) /\ asleep.mutex_count = kk.mutex_count
  BY <1>2, PlainKept DEF Plain
<1>5. Goal(asleep)
  BY <1>2, <1>4
<1>6. ASSUME Inherits(m) PROVE Goal(s)
  <2>1. asleep.mutex_count[owner] > 0
    BY <1>4, <1>6 DEF Inherits, Active
  <2>2. Ranked(asleep, s) /\ s.mutex_count = asleep.mutex_count /\ Kept(asleep, s)
    BY <1>3, <2>1, InheritFields
  <2> HIDE DEF s
  <2>3. Continued(asleep, s, D)
    BY <1>3, <2>2, RankedContinued
  <2>4. Moved(asleep, s, D)
    BY <2>3, ContinuedMoved
  <2>5. Moved(kk, s, D) /\ Kept(kk, s)
    BY <1>2, <1>4, <2>2, <2>4, MovedTransitive, KeptTransitive
  <2> QED BY <1>2, <1>4, <1>6, <2>2, <2>5 DEF Ranked, SameMarks, Asleep
<1> HIDE DEF s
<1>7. Goal(k2)
  BY <1>5, <1>6
<1> QED BY <1>7 DEF asleep, s

-----------------------------------------------------------------------------
(* What owners, heirs and waiters lend each other.                         *)

\* A change of rank makes no thread unclear.
LEMMA RankedCleared ==
    ASSUME NEW kk, NEW k2, Ranked(kk, k2)
    PROVE  Cleared(kk, k2)
BY DEF Ranked, SameMarks, Cleared, Clear

\* unlock() lends the heir the ex-owner's priority if others stay behind it,
\* and takes back only what was lent to a thread without mutexes.
Relayed(kk, k2, m) ==
    LET heir == Head(kk.wait_queue[m])
    IN  /\ Cleared(kk, k2)
        /\ \A u \in Threads :
             u # self \/ k2.mutex_count[self] # 0 => k2.priority[u] <= kk.priority[u]
        /\ \A u \in Threads \ {self} :
             ~(kk.wait_queue[m] # <<>> /\ u = heir) => k2.priority[u] = kk.priority[u]
        /\ Inherits(m) /\ (\E t \in Users : t # heir /\ kk.queue[t] = m) =>
             k2.priority[heir] <= kk.priority[self]

LEMMA UnlockedRanks ==
    ASSUME NEW kk, Good(kk), Waits(kk), self \in Users, Awake(kk, self), NEW m \in Mutexes,
           Active(m) => kk.mutex_count[self] > 0,
           kk.wait_queue[m] # <<>> /\ Active(m) => kk.mutex_count[Head(kk.wait_queue[m])] > 0
    PROVE  Relayed(kk, unlocked(kk, m), m)
<1> DEFINE heir == Head(kk.wait_queue[m])
           l    == leave_queue(kk, heir)
           r    == relay_priority(l, heir, self, m)
           w    == wake_done(r, heir)
           told == IF kk.wait_queue[m] = <<>> THEN kk ELSE w
           k2   == unlocked(kk, m)
<1>1. /\ kk \in KernelState /\ m \in WaitQueues /\ self \in Threads
      /\ kk.queue \in [Threads -> WaitQueues \cup {NoQueue}]
      /\ kk.priority \in [Threads -> Priorities] /\ Priorities \subseteq Int
      /\ Users \subseteq Threads
  BY FieldTypes, MutexAssumption, PriorityAssumption DEF Users, Priorities
<1>1a. \A u \in Threads : kk.priority[u] <= kk.priority[u]
  BY <1>1, PriorityNumbers
<1>2. k2 = uncount_mutex(told, self, m)
  BY DEF unlocked
<1> HIDE DEF k2
<1>3. ASSUME kk.wait_queue[m] # <<>>
      PROVE  /\ Good(w) /\ Lists(w) /\ QueuedSleeps(w, self) /\ Cleared(kk, w)
             /\ heir \in Users /\ heir # self
             /\ Raised(kk, w, heir) /\ w.mutex_count = kk.mutex_count
             /\ Inherits(m) /\ (\E t \in Users : t # heir /\ kk.queue[t] = m) =>
                  w.priority[heir] <= kk.priority[self]
  <2>1. /\ heir \in Users /\ heir \in Threads /\ kk.queue[heir] = m
        /\ heir # self
    BY <1>1, <1>3, HeadWaits, QueueAssumption DEF Awake
  <2>1a. Active(m) => kk.mutex_count[heir] > 0
    BY <1>3
  <2> HIDE DEF heir
  <2>2. /\ Lists(l) /\ Plain(kk, l) /\ l.queue = [kk.queue EXCEPT ![heir] = NoQueue]
        /\ l.state = kk.state
    BY <1>1, <2>1, LeaveLists DEF Waits
  <2>3. Good(l) /\ l \in KernelState
    BY <1>1, <2>1, LeaveQueue, QuietStep DEF Step, Quietly
  <2> HIDE DEF l
  <2>4. QueuedSleeps(l, heir) /\ l.priority = kk.priority /\ l.priority[self] \in Priorities
    BY <1>1, <2>1, <2>2 DEF QueuedSleeps, Plain, SamePriorities
  <2>5. Inherits(m) => Active(m)
    BY DEF Inherits, Active
  <2>6. /\ Ranked(l, r) /\ Raised(l, r, heir) /\ r.mutex_count = l.mutex_count
        /\ Inherits(m) /\ l.wait_queue[m] # <<>> => r.priority[heir] <= l.priority[self]
    <3> DEFINE s == set_inherited_priority(l, heir, l.priority[self])
    <3>1. /\ Ranked(l, s) /\ Raised(l, s, heir) /\ s.mutex_count = l.mutex_count
          /\ s.priority[heir] <= l.priority[self]
      BY <2>1, <2>2, <2>3, <2>4, InheritFields
    <3>2. r = IF Inherits(m) /\ l.wait_queue[m] # <<>> THEN s ELSE l
      BY DEF relay_priority
    <3>3. Ranked(l, l) /\ Raised(l, l, heir)
      BY <1>1a, <2>2, <2>3, <2>4, StepRefl DEF Ranked, SameMarks, Raised
    <3> HIDE DEF s, r
    <3> QED BY <3>1, <3>2, <3>3
  <2> HIDE DEF r
  <2>7. Good(r) /\ Lists(r) /\ QueuedSleeps(r, heir)
    BY <2>4, <2>6 DEF Ranked, Step, SameMarks, QueuedSleeps, Asleep
  <2>8. w = wake(set_wake_reason(r, heir, "DONE"), heir)
    BY DEF wake_done
  <2> HIDE DEF w
  <2>9. Step(r, w) /\ Woken(r, w, heir, "DONE")
    BY <2>1, <2>7, <2>8, WokenFields DEF Reasons
  <2>10. /\ Good(w) /\ Lists(w) /\ w.priority = r.priority /\ w.mutex_count = kk.mutex_count
    BY <2>2, <2>6, <2>9 DEF Step, Woken, Plain, SamePriorities
  <2>11. Cleared(kk, w)
    <3>1. Cleared(r, w)
      BY <2>1, <2>7, <2>9, WokenCleared DEF Woken
    <3> QED BY <2>2, <2>6, <3>1 DEF Ranked, SameMarks, Cleared, Clear
  <2>12. w.queue[self] = NoQueue
    <3>1. r.queue[self] = NoQueue
      BY <1>1, <2>1, <2>2, <2>6 DEF Awake, Ranked, SameMarks
    <3> QED BY <1>1, <2>2, <2>6, <2>9, <3>1 DEF Woken, Ranked, SameMarks
  <2>13. ASSUME Inherits(m), NEW t \in Users, t # heir, kk.queue[t] = m
         PROVE  w.priority[heir] <= kk.priority[self]
    <3>1. l.queue[t] = m
      BY <1>1, <2>2, <2>13
    <3>2. holds(l.wait_queue[m], t)
      BY <1>1, <2>2, <3>1 DEF Lists
    <3>3. l.wait_queue[m] # <<>>
      BY <3>2 DEF holds
    <3> QED BY <2>4, <2>6, <2>10, <2>13, <3>3
  <2>14. Raised(kk, w, heir)
    BY <2>4, <2>6, <2>10 DEF Raised
  <2> QED BY <2>1, <2>10, <2>11, <2>12, <2>13, <2>14 DEF QueuedSleeps
<1> HIDE DEF w
<1>4. /\ Good(told) /\ Lists(told) /\ QueuedSleeps(told, self) /\ Cleared(kk, told)
      /\ told.mutex_count = kk.mutex_count
      /\ \A u \in Threads : told.priority[u] <= kk.priority[u]
      /\ told.priority[self] = kk.priority[self]
      /\ \A u \in Threads :
           ~(kk.wait_queue[m] # <<>> /\ u = heir) => told.priority[u] = kk.priority[u]
      /\ Inherits(m) /\ (\E t \in Users : t # heir /\ kk.queue[t] = m) =>
           told.priority[heir] <= kk.priority[self] /\ heir # self /\ heir \in Threads
  <2>1. CASE kk.wait_queue[m] = <<>>
    <3>1. told = kk
      BY <2>1
    <3>2. Lists(kk) /\ QueuedSleeps(kk, self)
      BY DEF Waits, QueuedSleeps, Awake
    <3>3. ~\E t \in Users : kk.queue[t] = m
      BY <1>1, <2>1, EmptyQueue
    <3> HIDE DEF told
    <3> QED BY <1>1, <1>1a, <2>1, <3>1, <3>2, <3>3 DEF Cleared
  <2>2. CASE kk.wait_queue[m] # <<>>
    <3>1. told = w
      BY <2>2
    <3> HIDE DEF told, heir
    <3> QED BY <1>1, <1>3, <2>2, <3>1 DEF Raised
  <2> QED BY <2>1, <2>2
<1> HIDE DEF told, heir
<1>5. /\ Ranked(told, k2)
      /\ \A u \in Threads :
           u # self \/ k2.mutex_count[self] # 0 => k2.priority[u] = told.priority[u]
  BY <1>1, <1>2, <1>4, UncountFields
<1>6. Cleared(kk, k2)
  BY <1>4, <1>5, RankedCleared DEF Cleared
<1> QED BY <1>1, <1>4, <1>5, <1>6 DEF Relayed, k2, heir

\* A thread that waits for a mutex lends its owner its priority.
LEMMA LockLends ==
    ASSUME NEW kk, Calling(kk), kk.current_thread = self, NEW m \in Mutexes,
           mutex[m].owner \in Users
    PROVE  LET asleep == block(kk, m, "WAIT")
               owner  == mutex[m].owner
               k2 == IF Inherits(m)
                     THEN set_inherited_priority(asleep, owner, asleep.priority[self])
                     ELSE asleep
           IN  /\ Cleared(kk, k2) /\ Raised(kk, k2, owner)
               /\ Inherits(m) => k2.priority[owner] <= kk.priority[self]
<1> DEFINE asleep == block(kk, m, "WAIT")
           owner  == mutex[m].owner
           s      == set_inherited_priority(asleep, owner, asleep.priority[self])
           k2     == IF Inherits(m) THEN s ELSE asleep
<1>1. /\ m \in WaitQueues /\ self \in Threads /\ Good(kk)
      /\ kk.priority \in [Threads -> Priorities] /\ Priorities \subseteq Int
  BY FieldTypes, MutexAssumption, PriorityAssumption DEF Calling, Users, Priorities
<1>1a. \A u \in Threads : kk.priority[u] <= kk.priority[u]
  BY <1>1, PriorityNumbers
<1>2. Moved(kk, asleep, {}) /\ Plain(kk, asleep)
  BY <1>1, BlockMoved DEF Blocked
<1>3. Cleared(kk, asleep)
  BY <1>1, BlockCleared
<1> HIDE DEF asleep
<1>4. /\ Good(asleep) /\ Lists(asleep) /\ QueuedSleeps(asleep, owner)
      /\ asleep.priority = kk.priority /\ asleep.priority[self] \in Priorities
  BY <1>1, <1>2 DEF Moved, Step, Waits, QueuedSleeps, Plain, SamePriorities, Users
<1>5. /\ Ranked(asleep, s) /\ Raised(asleep, s, owner)
      /\ s.priority[owner] <= asleep.priority[self]
  BY <1>4, InheritFields
<1> HIDE DEF s
<1>6. Cleared(kk, s)
  BY <1>3, <1>5, RankedCleared DEF Cleared
<1>7. Raised(kk, asleep, owner) /\ Raised(kk, s, owner)
  BY <1>1a, <1>4, <1>5 DEF Raised
<1>8. /\ Cleared(kk, k2) /\ Raised(kk, k2, owner)
      /\ Inherits(m) => k2.priority[owner] <= kk.priority[self]
  BY <1>3, <1>4, <1>5, <1>6, <1>7
<1> QED BY <1>8 DEF asleep, s

=============================================================================
