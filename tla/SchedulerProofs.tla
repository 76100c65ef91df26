--------------------------- MODULE SchedulerProofs ---------------------------
(***************************************************************************)
(* The inductive invariants of Scheduler and the safety theorems of them:  *)
(* IInv for queues, dispatch and locks, SleepInv for suspends and timers,  *)
(* SliceInv and HeadInv for timeslices and the hand-over at their end,     *)
(* OrderInv for what a kill leaves of a sleep.                             *)
(***************************************************************************)
EXTENDS Scheduler, KernelOpsProofs

-----------------------------------------------------------------------------
(* The invariant.                                                          *)

\* The lock value l a thread should find where it took the lock N times.  The
\* early return of new_data_index() is the only leak.
Leaky == "new_data_index" \in Calls
Level(l, N) == l \in Nat /\ (l = N \/ (Leaky /\ l >= N))

\* Frames that give control back to the frame below them.
Exiting == {"isrend", "loop", "dsrs", "resched", "switched", "finish", "recheck"}

\* What a frame is, in a stack of thread t with N locks taken.
FrameOK(f, N, t) ==
    /\ f.pc \in {"recheck", "dsrs", "isrend"} => f.new_lock = 0
    /\ f.pc \in {"entry", "unwind"} => N = 0
    /\ t = Idle => f.pc \notin {"woken", "delayed", "timed", "dead"}

\* A thread may be at the resting frame f with the lock at l.
Fits(l, f, N) ==
    /\ f.pc \in {"woken", "delayed", "timed", "unwind", "dead", "isrend", "recheck"}
    /\ f.pc \in {"woken", "delayed"} => Level(l, N)
    /\ f.pc = "timed" => Level(l, N + 1)
    /\ f.pc \in {"isrend", "recheck"} => l = 0

FitsStack(l, s, N) == IF s = <<>> THEN Level(l, N) ELSE Fits(l, Head(s), N)

\* Each frame leaves the lock at a value that fits the frame below it.
StackOK(s, N, t) ==
    \A i \in 1..Len(s) :
        /\ FrameOK(s[i], N, t)
        /\ s[i].pc \notin Exiting => i = Len(s)
        /\ s[i].pc \in Exiting =>
              IF i = Len(s) THEN Level(s[i].new_lock, N)
                            ELSE Fits(s[i].new_lock, s[i+1], N)

\* The lock's value l fits the place where the running thread is.
LockFits(l, s, N) ==
    IF s = <<>> THEN Level(l, N)
    ELSE \/ Fits(l, Head(s), N)
         \/ /\ Head(s).pc = "loop"
            /\ IF Head(s).new_lock = 0 THEN l = 1
               ELSE l \in {Head(s).new_lock, Head(s).new_lock + 1}
         \/ Head(s).pc = "dsrs" /\ l = 1
         \/ Head(s).pc \in {"resched", "finish"} /\ l >= 1

Settling(l, s) == l = 0 \/ (s # <<>> /\ Head(s).pc \in {"finish", "recheck"})

StacksOK  == \A t \in Threads : StackOK(frames[t], nest[t], t)
\* Every other thread is where it was switched out, or never ran.
SwitchedOut == \A t \in Threads \ {current} :
                  frames[t] # <<>> /\ Head(frames[t]).pc \in {"switched", "entry"}
Settled   == Settling(sched_lock, stack) => Runs(k, current) /\ ~k.need_reschedule
BatchOK   == dsrs # <<>> => stack # <<>> /\ Head(stack).pc = "dsrs"

IInv == /\ TypeOK
        /\ Good(k)
        /\ StacksOK
        /\ SwitchedOut
        /\ LockFits(sched_lock, stack, nest[current])
        /\ Settled
        /\ BatchOK

\* What every step is shown to do; no thread comes back from EXITED.
Preserved == IInv' /\ Stays(k, k')

-----------------------------------------------------------------------------
(* Stacks.                                                                 *)

\* A stack without its top frame is a stack, and the top frame returns to it
\* with a lock value that fits.
LEMMA PopStack ==
    ASSUME NEW s \in Seq(Frame), NEW N \in Nat, NEW t, StackOK(s, N, t), s # <<>>
    PROVE  /\ Tail(s) \in Seq(Frame) /\ StackOK(Tail(s), N, t)
           /\ Head(s) \in Frame /\ FrameOK(Head(s), N, t)
           /\ Head(s).pc \in Exiting => FitsStack(Head(s).new_lock, Tail(s), N)
           /\ Head(s).pc \notin Exiting => Tail(s) = <<>>
<1> DEFINE r == Tail(s)
<1>1. /\ r \in Seq(Frame) /\ Len(s) \in Nat \ {0} /\ Len(r) = Len(s) - 1
      /\ \A i \in 1..Len(r) : r[i] = s[i+1]
      /\ Head(s) = s[1] /\ Head(s) \in Frame
  OBVIOUS
<1> HIDE DEF r
<1>2. StackOK(r, N, t)
  <2> SUFFICES ASSUME NEW i \in 1..Len(r)
               PROVE  /\ FrameOK(r[i], N, t)
                      /\ r[i].pc \notin Exiting => i = Len(r)
                      /\ r[i].pc \in Exiting =>
                            IF i = Len(r) THEN Level(r[i].new_lock, N)
                                          ELSE Fits(r[i].new_lock, r[i+1], N)
    BY DEF StackOK
  <2>1. i + 1 \in 1..Len(s) /\ r[i] = s[i+1] /\ (i = Len(r) <=> i + 1 = Len(s))
    BY <1>1
  <2>2. i # Len(r) => r[i+1] = s[(i+1)+1]
    BY <1>1
  <2> QED BY <2>1, <2>2 DEF StackOK
<1>3. 1 \in 1..Len(s)
  BY <1>1
<1>4. FrameOK(s[1], N, t)
  BY <1>3 DEF StackOK
<1>5. s[1].pc \notin Exiting => Len(s) = 1
  BY <1>3 DEF StackOK
<1>6. s[1].pc \in Exiting => IF 1 = Len(s) THEN Level(s[1].new_lock, N)
                                           ELSE Fits(s[1].new_lock, s[1+1], N)
  BY <1>3 DEF StackOK
<1>7. Len(s) = 1 <=> r = <<>>
  BY <1>1
<1>8. Len(s) # 1 => Head(r) = s[1+1]
  BY <1>1
<1> QED BY <1>1, <1>2, <1>4, <1>5, <1>6, <1>7, <1>8 DEF FitsStack, r

\* A frame whose exit value fits the stack may be put on it.
LEMMA PushFrame ==
    ASSUME NEW s \in Seq(Frame), NEW N \in Nat, NEW t, StackOK(s, N, t),
           NEW f \in Frame, FrameOK(f, N, t), f.pc \in Exiting,
           FitsStack(f.new_lock, s, N)
    PROVE  LET p == <<f>> \o s
           IN  /\ p \in Seq(Frame) /\ p # <<>> /\ Head(p) = f /\ Tail(p) = s
               /\ StackOK(p, N, t)
<1> DEFINE p == <<f>> \o s
<1>1. /\ p \in Seq(Frame) /\ p # <<>> /\ Len(p) = Len(s) + 1 /\ Len(s) \in Nat
      /\ p[1] = f /\ \A i \in 2..Len(p) : p[i] = s[i-1]
      /\ Head(p) = f
  OBVIOUS
<1>2. Tail(p) = s
  OBVIOUS
<1> HIDE DEF p
<1>3. StackOK(p, N, t)
  <2> SUFFICES ASSUME NEW i \in 1..Len(p)
               PROVE  /\ FrameOK(p[i], N, t)
                      /\ p[i].pc \notin Exiting => i = Len(p)
                      /\ p[i].pc \in Exiting =>
                            IF i = Len(p) THEN Level(p[i].new_lock, N)
                                          ELSE Fits(p[i].new_lock, p[i+1], N)
    BY DEF StackOK
  <2>1. CASE i = 1
    <3>1. Len(p) = 1 <=> s = <<>>
      BY <1>1
    <3>2. Len(p) # 1 => p[1+1] = Head(s)
      BY <1>1
    <3> QED BY <1>1, <2>1, <3>1, <3>2 DEF FitsStack
  <2>2. CASE i # 1
    <3>1. i - 1 \in 1..Len(s) /\ p[i] = s[i-1] /\ (i = Len(p) <=> i - 1 = Len(s))
      BY <1>1, <2>2
    <3>2. i # Len(p) => p[i+1] = s[(i-1)+1]
      BY <1>1, <2>2
    <3> QED BY <3>1, <3>2 DEF StackOK
  <2> QED BY <2>1, <2>2
<1> QED BY <1>1, <1>2, <1>3 DEF p

\* A frame nothing is below of is a stack.
LEMMA OneFrame ==
    ASSUME NEW f \in Frame, NEW N \in Nat, NEW t, FrameOK(f, N, t),
           f.pc \notin Exiting
    PROVE  /\ <<f>> \in Seq(Frame) /\ <<f>> # <<>> /\ Head(<<f>>) = f
           /\ StackOK(<<f>>, N, t)
<1>1. <<f>> \in Seq(Frame) /\ Len(<<f>>) = 1 /\ <<f>>[1] = f /\ Head(<<f>>) = f
      /\ <<f>> # <<>>
  OBVIOUS
<1> QED BY <1>1 DEF StackOK

\* So is the empty stack.
LEMMA EmptyStack == ASSUME NEW N, NEW t PROVE <<>> \in Seq(Frame) /\ StackOK(<<>>, N, t)
BY DEF StackOK

\* The frame on top goes to another place in unlock_inner().
LEMMA MoveFrame ==
    ASSUME NEW s \in Seq(Frame), NEW N \in Nat, NEW t, StackOK(s, N, t), s # <<>>,
           Head(s).pc \in Exiting, NEW pc \in Exiting,
           pc \in {"recheck", "dsrs", "isrend"} => Head(s).new_lock = 0
    PROVE  LET f == [pc |-> pc, new_lock |-> Head(s).new_lock]
               p == <<f>> \o Tail(s)
           IN  /\ p \in Seq(Frame) /\ p # <<>> /\ Head(p) = f
               /\ Tail(p) = Tail(s) /\ StackOK(p, N, t)
<1> DEFINE f == [pc |-> pc, new_lock |-> Head(s).new_lock]
<1>1. /\ Tail(s) \in Seq(Frame) /\ StackOK(Tail(s), N, t)
      /\ Head(s) \in Frame
      /\ FitsStack(Head(s).new_lock, Tail(s), N)
  BY PopStack
<1>2. f \in Frame /\ f.pc \in Exiting /\ f.new_lock = Head(s).new_lock
      /\ FrameOK(f, N, t)
  BY <1>1 DEF Frame, Places, Exiting, FrameOK
<1> HIDE DEF f
<1>3. LET p == <<f>> \o Tail(s)
      IN  /\ p \in Seq(Frame) /\ p # <<>> /\ Head(p) = f
          /\ Tail(p) = Tail(s) /\ StackOK(p, N, t)
  BY <1>1, <1>2, PushFrame
<1> QED BY <1>3 DEF f

-----------------------------------------------------------------------------
(* One step of the thread on the CPU.                                      *)

\* The parts of the invariant about the running thread.
LEMMA Types ==
    ASSUME IInv
    PROVE  /\ k \in KernelState /\ current \in Threads /\ sched_lock \in Nat
           /\ frames \in [Threads -> Seq(Frame)] /\ stack \in Seq(Frame)
           /\ nest \in [Threads -> Nat] /\ nest[current] \in Nat
           /\ dsr_list \in Seq(Sources) /\ dsrs \in Seq(Sources)
           /\ slots \subseteq Slots
           /\ StackOK(stack, nest[current], current)
           /\ LockFits(sched_lock, stack, nest[current])
           /\ Good(k)
<1>1. k \in KernelState /\ current \in Threads
  BY GoodType DEF IInv, current
<1> QED BY <1>1 DEF IInv, TypeOK, StacksOK, stack

\* The running thread's stack becomes s; nothing else is switched.
LEMMA Move ==
    ASSUME IInv, NEW s \in Seq(Frame), SetStack(s), Step(k, k'),
           nest' \in [Threads -> Nat],
           \A t \in Threads \ {current} : nest'[t] = nest[t],
           StackOK(s, nest'[current], current),
           sched_lock' \in Nat, LockFits(sched_lock', s, nest'[current]),
           Settling(sched_lock', s) => Runs(k', current) /\ ~k'.need_reschedule,
           dsr_list' \in Seq(Sources), dsrs' \in Seq(Sources),
           dsrs' # <<>> => s # <<>> /\ Head(s).pc = "dsrs",
           slots' \subseteq Slots
    PROVE  Preserved
<1>1. /\ current \in Threads /\ frames \in [Threads -> Seq(Frame)]
      /\ StacksOK /\ SwitchedOut
  BY Types DEF IInv
<1>2. Good(k') /\ k' \in KernelState /\ current' = current
  BY GoodType DEF Step, current
<1>3. /\ frames' \in [Threads -> Seq(Frame)] /\ frames'[current] = s
      /\ \A t \in Threads \ {current} : frames'[t] = frames[t]
  BY <1>1 DEF SetStack
<1>4. stack' = s /\ nest[current]' = nest'[current]
  BY <1>2, <1>3 DEF stack
<1>5. TypeOK'
  BY <1>2, <1>3 DEF TypeOK
<1>6. StacksOK'
  BY <1>1, <1>2, <1>3 DEF StacksOK
<1>7. SwitchedOut'
  BY <1>1, <1>2, <1>3 DEF SwitchedOut
<1>8. LockFits(sched_lock, stack, nest[current])'
  BY <1>4
<1>9. Settled'
  BY <1>2, <1>4 DEF Settled
<1>10. BatchOK'
  BY <1>4 DEF BatchOK
<1>11. Good(k)'
  BY <1>2
<1> QED BY <1>5, <1>6, <1>7, <1>8, <1>9, <1>10, <1>11 DEF IInv, Preserved, Step

\* unlock_inner() starts at its loop.
LEMMA NewFrame ==
    ASSUME NEW n \in Nat, NEW N, NEW t
    PROVE  /\ unlock_inner(n) \in Frame /\ FrameOK(unlock_inner(n), N, t)
           /\ unlock_inner(n).pc = "loop" /\ unlock_inner(n).pc \in Exiting
           /\ unlock_inner(n).new_lock = n
BY DEF unlock_inner, Frame, Places, FrameOK, Exiting

\* A lock value that fits a stack fits the running thread.
LEMMA Rests ==
    ASSUME NEW l \in Nat, NEW s, NEW N, FitsStack(l, s, N)
    PROVE  LockFits(l, s, N) /\ (l # 0 => ~Settling(l, s))
BY DEF FitsStack, LockFits, Fits, Settling

\* What the three ways to give the lock back need and preserve.
LEMMA UnlockStep ==
    ASSUME IInv, dsrs = <<>>, NEW held \in Nat \ {0}, NEW rest \in Seq(Frame),
           StackOK(rest, nest'[current], current),
           FitsStack(held - 1, rest, nest'[current]),
           unlock(held, rest), Step(k, k'),
           nest' \in [Threads -> Nat],
           \A t \in Threads \ {current} : nest'[t] = nest[t],
           dsr_list' = dsr_list, dsrs' = dsrs, slots' \subseteq Slots
    PROVE  Preserved
<1> DEFINE N == nest'[current]
<1>1. current \in Threads /\ N \in Nat /\ dsr_list' \in Seq(Sources)
      /\ dsrs' \in Seq(Sources)
  BY Types
<1>2. CASE held = 1
  <2> DEFINE f == unlock_inner(0)
             s == <<f>> \o rest
  <2>1. sched_lock' = 1 /\ SetStack(s)
    BY <1>2 DEF unlock
  <2>2. f \in Frame /\ FrameOK(f, N, current) /\ f.pc = "loop" /\ f.pc \in Exiting
        /\ f.new_lock = 0
    BY NewFrame
  <2> HIDE DEF f
  <2>3. FitsStack(f.new_lock, rest, N)
    BY <1>2, <2>2
  <2>4. s \in Seq(Frame) /\ s # <<>> /\ Head(s) = f /\ StackOK(s, N, current)
    BY <1>1, <2>2, <2>3, PushFrame
  <2> HIDE DEF s
  <2>5. LockFits(sched_lock', s, N) /\ ~Settling(sched_lock', s)
    BY <2>1, <2>2, <2>4 DEF LockFits, Settling
  <2> QED BY <1>1, <2>1, <2>4, <2>5, Move
<1>3. CASE held # 1
  <2>1. sched_lock' = held - 1 /\ SetStack(rest) /\ held - 1 \in Nat \ {0}
    BY <1>3 DEF unlock
  <2>2. LockFits(sched_lock', rest, N) /\ ~Settling(sched_lock', rest)
    BY <2>1, Rests
  <2> QED BY <1>1, <2>1, <2>2, Move
<1> QED BY <1>2, <1>3

\* reschedule() and unlock_reschedule() keep the invariant.
LEMMA RescheduleStep ==
    ASSUME IInv, dsrs = <<>>, NEW held \in Nat \ {0}, NEW n \in {held, held - 1},
           NEW rest \in Seq(Frame),
           StackOK(rest, nest[current], current),
           FitsStack(n, rest, nest[current]),
           sched_lock' = held, SetStack(<<unlock_inner(n)>> \o rest), Step(k, k'),
           nest' = nest, dsr_list' = dsr_list, dsrs' = dsrs, slots' = slots
    PROVE  Preserved
<1> DEFINE N == nest[current]
           f == unlock_inner(n)
           s == <<f>> \o rest
<1>1. /\ current \in Threads /\ N \in Nat /\ dsr_list' \in Seq(Sources)
      /\ dsrs' \in Seq(Sources) /\ nest' \in [Threads -> Nat] /\ slots' \subseteq Slots
      /\ n \in Nat /\ held \in Nat \ {0}
  BY Types
<1>2. f \in Frame /\ FrameOK(f, N, current) /\ f.pc = "loop" /\ f.pc \in Exiting
      /\ f.new_lock = n
  BY <1>1, NewFrame
<1>3. SetStack(s)
  OBVIOUS
<1> HIDE DEF f
<1>4. s \in Seq(Frame) /\ s # <<>> /\ Head(s) = f /\ StackOK(s, N, current)
  BY <1>1, <1>2, PushFrame
<1> HIDE DEF s
<1>5. IF n = 0 THEN held = 1 ELSE held \in {n, n + 1}
  OBVIOUS
<1>6. LockFits(sched_lock', s, N) /\ ~Settling(sched_lock', s)
  BY <1>1, <1>2, <1>4, <1>5 DEF LockFits, Settling
<1> QED BY <1>1, <1>3, <1>4, <1>6, Move

-----------------------------------------------------------------------------
(* Calls from threads.                                                     *)

\* What holds where a thread may make a call.
LEMMA UserCode ==
    ASSUME IInv, InUserCode
    PROVE  /\ stack = <<>> /\ current \in Threads \ {Idle}
           /\ Level(sched_lock, nest[current]) /\ dsrs = <<>>
           /\ sched_lock \in Nat /\ sched_lock + 1 \in Nat \ {0}
           /\ nest[current] \in Nat
BY Types DEF IInv, BatchOK, InUserCode, LockFits

\* What a call may leave to be done after its unlock().
LEMMA RestOfCall ==
    ASSUME NEW t \in Threads \ {Idle}, NEW N \in Nat, NEW l, Level(l, N),
           NEW rest \in {<<>>, <<At_("woken")>>, <<At_("delayed")>>}
    PROVE  rest \in Seq(Frame) /\ StackOK(rest, N, t) /\ FitsStack(l, rest, N)
<1>1. CASE rest = <<>>
  BY <1>1, EmptyStack DEF FitsStack
<1>2. ASSUME NEW pc \in {"woken", "delayed"}, rest = <<At_(pc)>>
      PROVE  rest \in Seq(Frame) /\ StackOK(rest, N, t) /\ FitsStack(l, rest, N)
  <2> DEFINE f == At_(pc)
  <2>1. f \in Frame /\ f.pc = pc /\ f.pc \notin Exiting /\ FrameOK(f, N, t)
    BY DEF At_, Frame, Places, Exiting, FrameOK
  <2> HIDE DEF f
  <2>2. <<f>> \in Seq(Frame) /\ <<f>> # <<>> /\ Head(<<f>>) = f /\ StackOK(<<f>>, N, t)
    BY <2>1, OneFrame
  <2>3. FitsStack(l, <<f>>, N)
    BY <2>1, <2>2 DEF FitsStack, Fits
  <2>4. rest = <<f>>
    BY <1>2 DEF f
  <2> QED BY <2>2, <2>3, <2>4
<1> QED BY <1>1, <1>2

\* A call that ends in unlock() keeps the invariant.
LEMMA CallStep ==
    ASSUME IInv, InUserCode, NEW body, Step(k, body),
           NEW rest \in {<<>>, <<At_("woken")>>, <<At_("delayed")>>},
           k' = body, unlock(sched_lock + 1, rest),
           dsr_list' = dsr_list, dsrs' = dsrs, nest' = nest, slots' \subseteq Slots
    PROVE  Preserved
<1> DEFINE N == nest[current]
<1>1. /\ current \in Threads \ {Idle} /\ N \in Nat /\ Level(sched_lock, N)
      /\ dsrs = <<>> /\ sched_lock \in Nat /\ sched_lock + 1 \in Nat \ {0}
  BY UserCode
<1>2. nest' \in [Threads -> Nat] /\ nest'[current] = N
  BY Types
<1>3. rest \in Seq(Frame) /\ StackOK(rest, N, current) /\ FitsStack(sched_lock, rest, N)
  BY <1>1, RestOfCall
<1>4. (sched_lock + 1) - 1 = sched_lock
  BY <1>1
<1>5. Step(k, k')
  OBVIOUS
<1> QED BY <1>1, <1>2, <1>3, <1>4, <1>5, UnlockStep

\* ... and after its reschedule().
LEMMA RescheduleCallStep ==
    ASSUME IInv, InUserCode, Step(k, k'), NEW pc \in {"timed", "dead"},
           reschedule(sched_lock + 1, <<At_(pc)>>),
           UNCHANGED <<dsr_list, dsrs, nest, slots>>
    PROVE  Preserved
<1> DEFINE N == nest[current]
           f == At_(pc)
<1>1. /\ current \in Threads \ {Idle} /\ N \in Nat /\ Level(sched_lock, N)
      /\ dsrs = <<>> /\ sched_lock \in Nat /\ sched_lock + 1 \in Nat \ {0}
  BY UserCode
<1>2. Level(sched_lock + 1, N + 1)
  BY <1>1 DEF Level
<1>3. f \in Frame /\ f.pc = pc /\ f.pc \notin Exiting /\ FrameOK(f, N, current)
  BY <1>1 DEF At_, Frame, Places, Exiting, FrameOK
<1>4. SetStack(<<unlock_inner(sched_lock + 1)>> \o <<f>>) /\ sched_lock' = sched_lock + 1
  BY DEF reschedule
<1> HIDE DEF f
<1>5. <<f>> \in Seq(Frame) /\ <<f>> # <<>> /\ Head(<<f>>) = f /\ StackOK(<<f>>, N, current)
  BY <1>1, <1>3, OneFrame
<1>6. FitsStack(sched_lock + 1, <<f>>, N)
  BY <1>2, <1>3, <1>5 DEF FitsStack, Fits
<1> QED BY <1>1, <1>4, <1>5, <1>6, RescheduleStep

\* The same for the calls of the form Call.
LEMMA SimpleCall ==
    ASSUME IInv, InUserCode, NEW body, Step(k, body),
           NEW rest \in {<<>>, <<At_("woken")>>, <<At_("delayed")>>},
           Call(body, rest)
    PROVE  Preserved
<1>1. slots' \subseteq Slots
  BY Types DEF Call
<1>2. /\ k' = body /\ unlock(sched_lock + 1, rest)
      /\ dsr_list' = dsr_list /\ dsrs' = dsrs /\ nest' = nest
  BY DEF Call
<1> QED BY <1>1, <1>2, CallStep

\* cyg_scheduler_lock() keeps the invariant.
LEMMA SchedulerLock == ASSUME IInv, scheduler_lock PROVE Preserved
<1> DEFINE N == nest'[current]
<1>1. InUserCode /\ UNCHANGED <<k, dsr_list, dsrs, frames, slots>>
      /\ sched_lock' = sched_lock + 1 /\ nest' = [nest EXCEPT ![current] = @ + 1]
  BY DEF scheduler_lock, MayCall
<1>2. /\ stack = <<>> /\ current \in Threads /\ Level(sched_lock, nest[current])
      /\ dsrs = <<>> /\ sched_lock \in Nat /\ nest[current] \in Nat
      /\ frames \in [Threads -> Seq(Frame)] /\ nest \in [Threads -> Nat]
  BY <1>1, UserCode, Types
<1>3. /\ nest' \in [Threads -> Nat] /\ N = nest[current] + 1
      /\ \A t \in Threads \ {current} : nest'[t] = nest[t]
  BY <1>1, <1>2
<1>4. SetStack(<<>>)
  BY <1>1, <1>2 DEF SetStack, stack
<1>5. sched_lock' \in Nat /\ Level(sched_lock', N) /\ sched_lock' # 0
  BY <1>1, <1>2, <1>3 DEF Level
<1> HIDE DEF N
<1>6. LockFits(sched_lock', <<>>, N) /\ ~Settling(sched_lock', <<>>)
  BY <1>5 DEF LockFits, Settling
<1>7. Step(k, k') /\ <<>> \in Seq(Frame) /\ StackOK(<<>>, N, current)
      /\ dsr_list' \in Seq(Sources) /\ dsrs' \in Seq(Sources) /\ dsrs' = <<>>
      /\ slots' \subseteq Slots
  BY <1>1, <1>2, Types, StepRefl, EmptyStack
<1> QED BY <1>3, <1>4, <1>5, <1>6, <1>7, Move DEF N

\* cyg_scheduler_unlock() keeps it, and never counts below zero.
LEMMA SchedulerUnlock == ASSUME IInv, scheduler_unlock PROVE Preserved
<1> DEFINE N == nest'[current]
<1>1. /\ InUserCode /\ nest[current] > 0 /\ unlock(sched_lock, <<>>)
      /\ nest' = [nest EXCEPT ![current] = @ - 1]
      /\ UNCHANGED <<k, dsr_list, dsrs, slots>>
  BY DEF scheduler_unlock
<1>2. /\ stack = <<>> /\ current \in Threads /\ Level(sched_lock, nest[current])
      /\ dsrs = <<>> /\ sched_lock \in Nat /\ nest[current] \in Nat
      /\ nest \in [Threads -> Nat]
  BY <1>1, UserCode, Types
<1>3. /\ nest' \in [Threads -> Nat] /\ N = nest[current] - 1
      /\ \A t \in Threads \ {current} : nest'[t] = nest[t]
  BY <1>1, <1>2
<1>4. sched_lock \in Nat \ {0} /\ Level(sched_lock - 1, N)
  BY <1>1, <1>2, <1>3 DEF Level
<1> HIDE DEF N
<1>5. FitsStack(sched_lock - 1, <<>>, N) /\ StackOK(<<>>, N, current)
      /\ <<>> \in Seq(Frame) /\ Step(k, k') /\ slots' \subseteq Slots
  BY <1>1, <1>4, Types, StepRefl, EmptyStack DEF FitsStack
<1> QED BY <1>1, <1>2, <1>3, <1>4, <1>5, UnlockStep DEF N

\* counted_sleep() keeps the invariant.
LEMMA CountedSleepCall == ASSUME IInv, CallCountedSleep PROVE Preserved
<1>1. InUserCode /\ Good(k) /\ current \in Threads \ {Idle}
      /\ current = k.current_thread
  BY UserCode, Types DEF CallCountedSleep, MayCall, current
<1>2. CASE k.wakeup_count[current] = 0
  BY <1>1, <1>2, Sleeps, SimpleCall DEF CallCountedSleep
<1>3. CASE k.wakeup_count[current] # 0
  BY <1>1, <1>3, ConsumeWakeup, SimpleCall DEF CallCountedSleep
<1> QED BY <1>2, <1>3

\* counted_sleep(delay) keeps the invariant on each of its paths.
LEMMA TimedSleepCall == ASSUME IInv, CallTimedSleep PROVE Preserved
<1>1. /\ InUserCode /\ Good(k) /\ current \in Threads \ {Idle}
      /\ current = k.current_thread
      /\ dsr_list' = dsr_list /\ dsrs' = dsrs /\ nest' = nest /\ slots' = slots
      /\ slots' \subseteq Slots
  BY UserCode, Types DEF CallTimedSleep, MayCall, current
<1>2. CASE k.wakeup_count[current] > 0 /\ k' = consume_wakeup(k)
           /\ unlock(sched_lock + 1, <<At_("woken")>>)
  <2>1. k.wakeup_count[current] # 0
    BY <1>2
  <2>2. Step(k, consume_wakeup(k))
    BY <1>1, <2>1, ConsumeWakeup
  <2> QED BY <1>1, <1>2, <2>2, CallStep
<1>3. CASE k' = alarm(set_timer(k, "TIMEOUT"), current)
           /\ unlock(sched_lock + 1, <<At_("woken")>>)
  <2>1. Step(k, alarm(set_timer(k, "TIMEOUT"), current))
    BY <1>1, Sleeps
  <2> QED BY <1>1, <1>3, <2>1, CallStep
<1>4. CASE k' = timed_counted_sleep(set_timer(k, "TIMEOUT"))
           /\ reschedule(sched_lock + 1, <<At_("timed")>>)
  <2>1. Step(k, k')
    BY <1>1, <1>4, Sleeps
  <2> QED BY <1>1, <1>4, <2>1, RescheduleCallStep
<1> QED BY <1>2, <1>3, <1>4 DEF CallTimedSleep

\* delay() keeps the invariant.
LEMMA DelayCall == ASSUME IInv, CallDelay PROVE Preserved
<1>1. InUserCode /\ Good(k) /\ current \in Threads \ {Idle}
      /\ current = k.current_thread
  BY UserCode, Types DEF CallDelay, MayCall, current
<1>2. Step(k, delay(k)) /\ Step(k, alarm(delay(k), current))
  BY <1>1, Sleeps
<1> QED BY <1>1, <1>2, SimpleCall DEF CallDelay

\* yield() keeps the invariant.
LEMMA YieldCall == ASSUME IInv, CallYield PROVE Preserved
<1> DEFINE N == nest[current]
<1>1. InUserCode /\ unlock_reschedule(sched_lock + 1, <<>>) /\ k' = yield(k)
      /\ UNCHANGED <<dsr_list, dsrs, nest, slots>>
  BY DEF CallYield, MayCall
<1>2. /\ stack = <<>> /\ Level(sched_lock, N)
      /\ dsrs = <<>> /\ sched_lock \in Nat /\ N \in Nat /\ Good(k)
  BY <1>1, UserCode, Types
<1>3. Step(k, k')
  BY <1>1, <1>2, Yield
<1>4. sched_lock + 1 \in Nat \ {0} /\ sched_lock = (sched_lock + 1) - 1
  BY <1>2
<1>5. sched_lock' = sched_lock + 1 /\ SetStack(<<unlock_inner(sched_lock)>> \o <<>>)
  BY <1>1, <1>4 DEF unlock_reschedule
<1>6. <<>> \in Seq(Frame) /\ StackOK(<<>>, N, current) /\ FitsStack(sched_lock, <<>>, N)
  BY <1>2, EmptyStack DEF FitsStack
<1> DEFINE held == sched_lock + 1
<1>7. held \in Nat \ {0} /\ sched_lock \in {held, held - 1} /\ sched_lock' = held
  BY <1>4, <1>5
<1> HIDE DEF held
<1> QED BY <1>1, <1>2, <1>3, <1>5, <1>6, <1>7, RescheduleStep

\* exit() keeps the invariant.
LEMMA ExitCall ==
    ASSUME IInv, InUserCode, Exit(<<>>) PROVE Preserved
<1>1. Good(k) /\ current \in Threads \ {Idle} /\ current = k.current_thread
  BY UserCode, Types DEF current
<1>2. Step(k, k')
  BY <1>1, Exit_ DEF Exit
<1>3. <<At_("dead")>> \o <<>> = <<At_("dead")>>
  OBVIOUS
<1> QED BY <1>2, <1>3, RescheduleCallStep DEF Exit

\* new_data_index() keeps the invariant; its early return is what Leaky is for.
LEMMA NewDataIndexCall == ASSUME IInv, CallNewDataIndex PROVE Preserved
<1> DEFINE N == nest[current]
<1>1. InUserCode /\ UNCHANGED <<k, dsr_list, dsrs, nest>> /\ Leaky
  BY DEF CallNewDataIndex, MayCall, Leaky
<1>2. /\ stack = <<>> /\ Level(sched_lock, N) /\ current \in Threads
      /\ dsrs = <<>> /\ sched_lock \in Nat /\ N \in Nat /\ Good(k)
      /\ frames \in [Threads -> Seq(Frame)] /\ nest \in [Threads -> Nat]
      /\ slots \subseteq Slots
  BY <1>1, UserCode, Types
<1>3. Step(k, k) /\ Step(k, k')
  BY <1>1, <1>2, StepRefl
<1>4. CASE sched_lock' = sched_lock + 1 /\ UNCHANGED <<frames, slots>>
  <2>1. SetStack(<<>>)
    BY <1>2, <1>4 DEF SetStack, stack
  <2>2. sched_lock' \in Nat /\ sched_lock' # 0 /\ Level(sched_lock', N)
    BY <1>1, <1>2, <1>4 DEF Level
  <2>3. LockFits(sched_lock', <<>>, N) /\ ~Settling(sched_lock', <<>>)
    BY <2>2 DEF LockFits, Settling
  <2>4. <<>> \in Seq(Frame) /\ StackOK(<<>>, N, current)
        /\ dsr_list' \in Seq(Sources) /\ dsrs' \in Seq(Sources) /\ dsrs' = <<>>
        /\ slots' \subseteq Slots /\ nest' \in [Threads -> Nat] /\ nest'[current] = N
        /\ \A t \in Threads \ {current} : nest'[t] = nest[t]
    BY <1>1, <1>2, <1>4, Types, EmptyStack
  <2> QED BY <1>3, <2>1, <2>2, <2>3, <2>4, Move
<1>5. CASE slots' \subseteq slots /\ unlock(sched_lock + 1, <<>>)
  BY <1>1, <1>2, <1>3, <1>5, CallStep
<1> QED BY <1>4, <1>5 DEF CallNewDataIndex

\* free_data_index() keeps the invariant.
LEMMA FreeDataIndexCall ==
    ASSUME IInv, NEW i \in Slots, CallFreeDataIndex(i) PROVE Preserved
<1>1. InUserCode /\ UNCHANGED <<k, dsr_list, dsrs, nest>>
      /\ unlock(sched_lock + 1, <<>>) /\ slots' \subseteq Slots
  BY Types DEF CallFreeDataIndex, MayCall
<1>2. Step(k, k)
  BY Types, StepRefl
<1> QED BY <1>1, <1>2, CallStep

\* The calls whose body is one operation of KernelOps.
LEMMA OperationCall ==
    ASSUME IInv, NEW t \in Users,
           \/ CallCountedWake(t) \/ CallCancelWakeups(t) \/ CallSuspend(t)
           \/ CallResume(t) \/ CallForceResume(t) \/ CallRelease(t)
    PROVE  Preserved
<1>1. InUserCode /\ Good(k) /\ t \in Threads \ {Idle}
  BY Types DEF CallCountedWake, CallCancelWakeups, CallSuspend, CallResume,
               CallForceResume, CallRelease, MayCall, Users
<1>2. /\ Step(k, counted_wake(k, t)) /\ Step(k, cancel_counted_wake(k, t))
      /\ Step(k, suspend(k, t)) /\ Step(k, resume(k, t))
      /\ Step(k, force_resume(k, t)) /\ Step(k, release(k, t))
  BY <1>1, CountedWake, Suspend, Resume, Release
<1>3. \E body : Step(k, body) /\ Call(body, <<>>)
  BY <1>2 DEF CallCountedWake, CallCancelWakeups, CallSuspend, CallResume,
              CallForceResume, CallRelease
<1> QED BY <1>1, <1>3, SimpleCall

\* kill() keeps the invariant, of the caller and of another thread.
LEMMA KillCall == ASSUME IInv, NEW t \in Users, CallKill(t) PROVE Preserved
<1>1. InUserCode /\ Good(k) /\ t \in Threads \ {Idle}
  BY Types DEF CallKill, MayCall, Users
<1>2. CASE t = current
  BY <1>1, <1>2, ExitCall DEF CallKill
<1>3. CASE t # current
  BY <1>1, <1>3, Kill, SimpleCall DEF CallKill
<1> QED BY <1>2, <1>3

\* rotate_queue() and set_priority() keep the invariant.
LEMMA PriorityCalls ==
    ASSUME IInv, NEW p \in UserPriorities,
           CallRotateQueue(p) \/ \E t \in Users : CallSetPriority(t, p)
    PROVE  Preserved
<1>1. InUserCode /\ Good(k) /\ p \in Priorities
  BY Types, PriorityAssumption
     DEF CallRotateQueue, CallSetPriority, MayCall, UserPriorities, Priorities
<1>2. CASE CallRotateQueue(p)
  BY <1>1, <1>2, RotateQueue, SimpleCall DEF CallRotateQueue
<1>3. ASSUME NEW t \in Users, CallSetPriority(t, p) PROVE Preserved
  BY <1>1, <1>3, SetPriority, SimpleCall DEF CallSetPriority, Users
<1> QED BY <1>2, <1>3

\* Every call from a thread keeps the invariant.
LEMMA ThreadCallStep == ASSUME IInv, ThreadCall PROVE Preserved
<1>1. ASSUME CallExit PROVE Preserved
  BY <1>1, ExitCall DEF CallExit, MayCall
<1> QED BY <1>1, SchedulerLock, SchedulerUnlock, CountedSleepCall,
           TimedSleepCall, DelayCall, YieldCall, NewDataIndexCall,
           FreeDataIndexCall, OperationCall, KillCall, PriorityCalls
        DEF ThreadCall

-----------------------------------------------------------------------------
(* The rest of a call, after the lock went back.                           *)

\* A frame put on the empty stack is alone.
LEMMA AloneFrame == ASSUME NEW x, NEW s, s = <<>> PROVE <<x>> \o s = <<x>>
<1>1. <<x>> \o <<>> = <<x>>
  OBVIOUS
<1> QED BY <1>1

\* What holds of the frame the running thread is at.
LEMMA AtTop ==
    ASSUME IInv, NEW pc, At(pc)
    PROVE  /\ stack # <<>> /\ Head(stack).pc = pc /\ stack \in Seq(Frame)
           /\ Tail(stack) \in Seq(Frame) /\ Head(stack) \in Frame
           /\ new_lock \in Nat /\ new_lock = Head(stack).new_lock
           /\ StackOK(Tail(stack), nest[current], current)
           /\ FrameOK(Head(stack), nest[current], current)
           /\ pc \in Exiting => FitsStack(new_lock, Tail(stack), nest[current])
           /\ pc \notin Exiting => Tail(stack) = <<>>
           /\ pc # "dsrs" => dsrs = <<>>
<1>1. stack # <<>> /\ Head(stack).pc = pc
  BY DEF At
<1>2. stack \in Seq(Frame) /\ nest[current] \in Nat
      /\ StackOK(stack, nest[current], current)
  BY Types
<1>3. /\ Tail(stack) \in Seq(Frame) /\ StackOK(Tail(stack), nest[current], current)
      /\ Head(stack) \in Frame /\ FrameOK(Head(stack), nest[current], current)
      /\ Head(stack).pc \in Exiting =>
           FitsStack(Head(stack).new_lock, Tail(stack), nest[current])
      /\ Head(stack).pc \notin Exiting => Tail(stack) = <<>>
  BY <1>1, <1>2, PopStack
<1>4. new_lock = Head(stack).new_lock /\ new_lock \in Nat
  BY <1>3 DEF new_lock, Frame
<1>5. pc # "dsrs" => dsrs = <<>>
  BY <1>1 DEF IInv, BatchOK
<1> QED BY <1>1, <1>2, <1>3, <1>4, <1>5

\* At a resting frame the lock fits that frame.
LEMMA RestingFits ==
    ASSUME IInv, NEW pc \in {"isrend", "recheck", "woken", "delayed", "timed",
                             "unwind", "dead"}, At(pc)
    PROVE  Fits(sched_lock, Head(stack), nest[current])
BY Types DEF At, LockFits

\* The end of counted_sleep(delay) keeps the invariant.
LEMMA TimedSleepDoneStep == ASSUME IInv, TimedSleepDone PROVE Preserved
<1> DEFINE N == nest[current]
<1>1. /\ At("timed") /\ k' = clear_timer(k, current)
      /\ unlock(sched_lock, <<At_("woken")>> \o Tail(stack))
      /\ UNCHANGED <<dsr_list, dsrs, nest, slots>>
  BY DEF TimedSleepDone
<1>2. /\ Tail(stack) = <<>> /\ dsrs = <<>> /\ Head(stack).pc = "timed"
      /\ FrameOK(Head(stack), N, current)
  BY <1>1, AtTop DEF Exiting
<1>3. <<At_("woken")>> \o Tail(stack) = <<At_("woken")>>
  BY <1>2, AloneFrame
<1>4. /\ N \in Nat /\ nest \in [Threads -> Nat] /\ Good(k)
      /\ slots \subseteq Slots /\ sched_lock \in Nat /\ current \in Threads
  BY Types
<1>5. Level(sched_lock, N + 1) /\ current # Idle
  BY <1>1, <1>2, RestingFits DEF Fits, FrameOK
<1>6. sched_lock \in Nat \ {0} /\ Level(sched_lock - 1, N)
  BY <1>4, <1>5 DEF Level
<1> DEFINE rest == <<At_("woken")>>
<1>7. rest \in Seq(Frame) /\ StackOK(rest, N, current) /\ FitsStack(sched_lock - 1, rest, N)
  BY <1>4, <1>5, <1>6, RestOfCall
<1>8. Step(k, k') /\ unlock(sched_lock, rest)
  BY <1>1, <1>3, <1>4, ReasonSteps, ReasonNames
<1> HIDE DEF rest
<1> QED BY <1>1, <1>2, <1>4, <1>6, <1>7, <1>8, UnlockStep

\* The end of delay() keeps the invariant.
LEMMA DelayDoneStep == ASSUME IInv, DelayDone PROVE Preserved
<1> DEFINE N == nest[current]
<1>1. /\ At("delayed")
      /\ Call(clear_timer(k, current), <<At_("woken")>> \o Tail(stack))
  BY DEF DelayDone
<1>2. /\ Tail(stack) = <<>> /\ dsrs = <<>> /\ Head(stack).pc = "delayed"
      /\ FrameOK(Head(stack), N, current)
  BY <1>1, AtTop DEF Exiting
<1>3. <<At_("woken")>> \o Tail(stack) = <<At_("woken")>>
  BY <1>2, AloneFrame
<1>4. /\ N \in Nat /\ nest \in [Threads -> Nat] /\ Good(k)
      /\ slots \subseteq Slots /\ sched_lock \in Nat /\ current \in Threads
  BY Types
<1>5. Level(sched_lock, N) /\ current # Idle
  BY <1>1, <1>2, RestingFits DEF Fits, FrameOK
<1>6. sched_lock + 1 \in Nat \ {0} /\ (sched_lock + 1) - 1 = sched_lock
  BY <1>4
<1> DEFINE rest == <<At_("woken")>>
           held == sched_lock + 1
<1>7. rest \in Seq(Frame) /\ StackOK(rest, N, current) /\ FitsStack(sched_lock, rest, N)
  BY <1>4, <1>5, RestOfCall
<1>8. Step(k, k') /\ unlock(held, rest) /\ UNCHANGED <<dsr_list, dsrs, nest, slots>>
  BY <1>1, <1>3, <1>4, ReasonSteps, ReasonNames DEF Call
<1>9. held \in Nat \ {0} /\ held - 1 = sched_lock
  BY <1>6
<1> HIDE DEF rest, held
<1> QED BY <1>2, <1>4, <1>7, <1>8, <1>9, UnlockStep

\* The stack loses its top frame and the lock takes the value that fits.
LEMMA ReturnStep ==
    ASSUME IInv, NEW pc, At(pc), pc # "dsrs", Return,
           sched_lock' \in Nat, FitsStack(sched_lock', Tail(stack), nest[current]),
           sched_lock' = 0 => Runs(k, current) /\ ~k.need_reschedule,
           UNCHANGED <<k, dsr_list, dsrs, nest, slots>>
    PROVE  Preserved
<1> DEFINE s == Tail(stack)
<1>1. s \in Seq(Frame) /\ StackOK(s, nest[current], current) /\ dsrs = <<>>
  BY AtTop
<1>2. SetStack(s)
  BY DEF Return
<1> HIDE DEF s
<1>3. /\ LockFits(sched_lock', s, nest[current])
      /\ sched_lock' # 0 => ~Settling(sched_lock', s)
  BY Rests DEF s
<1>4. /\ nest' \in [Threads -> Nat] /\ Step(k, k') /\ slots' \subseteq Slots
      /\ dsr_list' \in Seq(Sources) /\ dsrs' \in Seq(Sources) /\ dsrs' = <<>>
  BY <1>1, Types, StepRefl
<1> QED BY <1>1, <1>2, <1>3, <1>4, Move

\* Looking at the wake reason keeps the invariant, also when it is EXIT.
LEMMA WakeCheckStep == ASSUME IInv, WakeCheck PROVE Preserved
<1> DEFINE N == nest[current]
<1>1. At("woken")
  BY DEF WakeCheck
<1>2. /\ Tail(stack) = <<>> /\ dsrs = <<>> /\ Head(stack).pc = "woken"
      /\ FrameOK(Head(stack), N, current)
  BY <1>1, AtTop DEF Exiting
<1>3. /\ N \in Nat /\ nest \in [Threads -> Nat] /\ Good(k)
      /\ slots \subseteq Slots /\ sched_lock \in Nat /\ current \in Threads
      /\ current = k.current_thread
  BY Types DEF current
<1>4. Level(sched_lock, N) /\ current # Idle
  BY <1>1, <1>2, RestingFits DEF Fits, FrameOK
<1>5. CASE Exit(Tail(stack))
  <2> DEFINE f == At_("dead")
             held == sched_lock + 1
  <2>1. <<At_("dead")>> \o Tail(stack) = <<f>>
    BY <1>2, AloneFrame
  <2>2. f \in Frame /\ f.pc = "dead" /\ f.pc \notin Exiting /\ FrameOK(f, N, current)
    BY <1>4 DEF At_, Frame, Places, Exiting, FrameOK
  <2>3. /\ SetStack(<<unlock_inner(held)>> \o <<f>>) /\ sched_lock' = held
        /\ k' = exit(k) /\ UNCHANGED <<dsr_list, dsrs, nest, slots>>
    BY <1>5, <2>1 DEF Exit, reschedule
  <2>4. Step(k, k')
    BY <1>3, <1>4, <2>3, Exit_
  <2>5. held \in Nat \ {0}
    BY <1>3
  <2> HIDE DEF f, held
  <2>6. <<f>> \in Seq(Frame) /\ <<f>> # <<>> /\ Head(<<f>>) = f /\ StackOK(<<f>>, N, current)
    BY <1>3, <2>2, OneFrame
  <2>7. FitsStack(held, <<f>>, N)
    BY <2>2, <2>6 DEF FitsStack, Fits
  <2> QED BY <1>2, <2>3, <2>4, <2>5, <2>6, <2>7, RescheduleStep
<1>6. CASE Return /\ UNCHANGED <<k, sched_lock, dsr_list, dsrs, nest, slots>>
  <2>1. FitsStack(sched_lock', Tail(stack), N)
    BY <1>2, <1>4, <1>6 DEF FitsStack
  <2>2. sched_lock' = 0 => Runs(k, current) /\ ~k.need_reschedule
    BY <1>6 DEF IInv, Settled, Settling
  <2> QED BY <1>1, <1>3, <1>6, <2>1, <2>2, ReturnStep
<1> QED BY <1>5, <1>6 DEF WakeCheck

-----------------------------------------------------------------------------
(* unlock_inner().                                                         *)

PlaceFits(l, pc, n) ==
    \/ pc = "recheck" /\ l = 0 /\ n = 0
    \/ pc = "loop" /\ (IF n = 0 THEN l = 1 ELSE l \in {n, n + 1})
    \/ pc = "dsrs" /\ l = 1 /\ n = 0
    \/ pc \in {"resched", "finish"} /\ l >= 1

\* The lock's value at each place of unlock_inner().
LEMMA PlaceOfLock ==
    ASSUME IInv, NEW pc \in {"loop", "dsrs", "resched", "finish", "recheck"}, At(pc)
    PROVE  PlaceFits(sched_lock, pc, new_lock)
<1>1. LockFits(sched_lock, stack, nest[current]) /\ stack # <<>>
      /\ Head(stack).pc = pc /\ new_lock = Head(stack).new_lock
      /\ FrameOK(Head(stack), nest[current], current)
  BY Types, AtTop
<1> QED BY <1>1 DEF LockFits, Fits, PlaceFits, FrameOK

\* A step from one place of unlock_inner() to another.
LEMMA GotoStep ==
    ASSUME IInv, NEW from \in Exiting, At(from),
           NEW pc \in Exiting \ {"isrend", "switched"}, Goto(pc),
           Step(k, k'), sched_lock' \in Nat, PlaceFits(sched_lock', pc, new_lock),
           pc \in {"finish", "recheck"} => Runs(k', current) /\ ~k'.need_reschedule,
           dsr_list' \in Seq(Sources), dsrs' \in Seq(Sources),
           dsrs' # <<>> => pc = "dsrs",
           nest' = nest, slots' = slots
    PROVE  Preserved
<1> DEFINE N == nest[current]
           f == [pc |-> pc, new_lock |-> new_lock]
           s == <<f>> \o Tail(stack)
<1>1. /\ stack \in Seq(Frame) /\ stack # <<>> /\ Head(stack).pc \in Exiting
      /\ N \in Nat /\ StackOK(stack, N, current) /\ new_lock = Head(stack).new_lock
      /\ nest \in [Threads -> Nat] /\ slots \subseteq Slots
  BY Types, AtTop
<1>2. pc \in {"recheck", "dsrs", "isrend"} => new_lock = 0
  BY DEF PlaceFits
<1>3. f.pc = pc /\ f.new_lock = new_lock /\ SetStack(s)
  BY DEF Goto
<1>4. s \in Seq(Frame) /\ s # <<>> /\ Head(s) = f /\ StackOK(s, N, current)
  BY <1>1, <1>2, MoveFrame
<1> HIDE DEF s, f
<1>5. LockFits(sched_lock', s, N)
  BY <1>3, <1>4 DEF LockFits, Fits, PlaceFits
<1>6. Settling(sched_lock', s) => Runs(k', current) /\ ~k'.need_reschedule
  <2>1. sched_lock' = 0 => pc = "recheck"
    BY AtTop, <1>1 DEF PlaceFits
  <2> QED BY <1>3, <1>4, <2>1 DEF Settling
<1>7. nest' \in [Threads -> Nat] /\ nest'[current] = N /\ slots' \subseteq Slots
      /\ \A t \in Threads \ {current} : nest'[t] = nest[t]
  BY <1>1
<1>8. dsrs' # <<>> => s # <<>> /\ Head(s).pc = "dsrs"
  BY <1>3, <1>4
<1> QED BY <1>3, <1>4, <1>5, <1>6, <1>7, <1>8, Move

\* Calling the posted DSRs, or not, keeps the invariant.
LEMMA LoopSteps ==
    ASSUME IInv, CallPendingDSRs \/ NoPendingDSRs \/ DSRsDone
    PROVE  Preserved
<1>1. /\ Good(k) /\ sched_lock \in Nat /\ dsr_list \in Seq(Sources)
      /\ dsrs \in Seq(Sources) /\ Step(k, k)
  BY Types, StepRefl
<1>2. CASE CallPendingDSRs
  <2>1. /\ At("loop") /\ new_lock = 0 /\ dsrs' = dsr_list /\ dsr_list' = <<>>
        /\ Goto("dsrs") /\ UNCHANGED <<k, sched_lock, nest, slots>>
    BY <1>2 DEF CallPendingDSRs
  <2>2. PlaceFits(sched_lock, "loop", new_lock)
    BY <2>1, PlaceOfLock
  <2>3. PlaceFits(sched_lock', "dsrs", new_lock) /\ dsr_list' \in Seq(Sources)
    BY <2>1, <2>2 DEF PlaceFits
  <2> QED BY <1>1, <2>1, <2>3, GotoStep DEF Exiting
<1>3. CASE NoPendingDSRs
  <2>1. /\ At("loop") /\ Goto("resched")
        /\ UNCHANGED <<k, sched_lock, dsr_list, dsrs, nest, slots>>
    BY <1>3 DEF NoPendingDSRs
  <2>2. PlaceFits(sched_lock, "loop", new_lock) /\ dsrs = <<>> /\ new_lock \in Nat
    BY <2>1, PlaceOfLock, AtTop
  <2>3. PlaceFits(sched_lock', "resched", new_lock)
    BY <1>1, <2>1, <2>2 DEF PlaceFits
  <2> QED BY <1>1, <2>1, <2>2, <2>3, GotoStep DEF Exiting
<1>4. CASE DSRsDone
  <2>1. /\ At("dsrs") /\ Goto("resched") /\ dsrs = <<>>
        /\ UNCHANGED <<k, sched_lock, dsr_list, dsrs, nest, slots>>
    BY <1>4 DEF DSRsDone
  <2>2. PlaceFits(sched_lock, "dsrs", new_lock)
    BY <2>1, PlaceOfLock
  <2>3. PlaceFits(sched_lock', "resched", new_lock)
    BY <1>1, <2>1, <2>2 DEF PlaceFits
  <2> QED BY <1>1, <2>1, <2>3, GotoStep DEF Exiting
<1> QED BY <1>2, <1>3, <1>4

\* A reschedule that keeps the running thread keeps the invariant.
LEMMA KeepRunningStep == ASSUME IInv, KeepRunning PROVE Preserved
<1>1. /\ At("resched") /\ (~NeedSwitch \/ schedule(k) = current) /\ Goto("finish")
      /\ k' = [k EXCEPT !.need_reschedule = ~NeedSwitch /\ @]
      /\ UNCHANGED <<sched_lock, dsr_list, dsrs, nest, slots>>
  BY DEF KeepRunning
<1>2. /\ Good(k) /\ k \in KernelState /\ sched_lock \in Nat
      /\ dsr_list \in Seq(Sources) /\ dsrs \in Seq(Sources)
      /\ current = k.current_thread /\ dsrs = <<>>
      /\ PlaceFits(sched_lock, "resched", new_lock)
  BY <1>1, Types, AtTop, PlaceOfLock DEF current
<1>3. Step(k, k') /\ Runs(k', current) /\ ~k'.need_reschedule
  <2>1. CASE ~NeedSwitch
    <3>1. Runs(k, current) /\ ~k.need_reschedule
      BY <2>1 DEF NeedSwitch, Runs
    <3>2. k' = [k EXCEPT !.need_reschedule = k.need_reschedule]
      BY <1>1, <1>2, <2>1, <3>1 DEF KernelState
    <3>3. k' = k
      BY <1>2, <3>2 DEF KernelState
    <3> QED BY <1>2, <3>1, <3>3, StepRefl
  <2>2. CASE NeedSwitch
    <3>1. k' = [k EXCEPT !.need_reschedule = FALSE] /\ schedule(k) = current
      BY <1>1, <2>2
    <3>2. k' = switched_to(k, schedule(k))
      BY <1>2, <3>1 DEF switched_to, KernelState
    <3>3. /\ Good(k') /\ Runs(k', schedule(k)) /\ Stays(k, k')
          /\ k'.current_thread = schedule(k) /\ ~k'.need_reschedule
      BY <1>2, <3>2, SwitchedTo DEF Good
    <3> QED BY <1>2, <3>1, <3>3 DEF Step
  <2> QED BY <2>1, <2>2
<1>4. PlaceFits(sched_lock', "finish", new_lock)
  BY <1>1, <1>2 DEF PlaceFits
<1> QED BY <1>1, <1>2, <1>3, <1>4, GotoStep DEF Exiting

\* Both ways out of an iteration keep the invariant.
LEMMA FinishSteps ==
    ASSUME IInv, LeaveLocked \/ ZeroLock
    PROVE  Preserved
<1>1. /\ At("finish") /\ UNCHANGED <<k, dsr_list, dsrs, nest, slots>>
  BY DEF LeaveLocked, ZeroLock
<1>2. /\ Good(k) /\ dsr_list \in Seq(Sources) /\ dsrs \in Seq(Sources)
      /\ dsrs = <<>> /\ new_lock \in Nat
      /\ FitsStack(new_lock, Tail(stack), nest[current])
      /\ Runs(k, current) /\ ~k.need_reschedule
  BY <1>1, Types, AtTop DEF Exiting, IInv, Settled, Settling, At
<1>3. CASE LeaveLocked
  <2>1. new_lock # 0 /\ sched_lock' = new_lock /\ Return
    BY <1>3 DEF LeaveLocked
  <2> QED BY <1>1, <1>2, <2>1, ReturnStep
<1>4. CASE ZeroLock
  <2>1. new_lock = 0 /\ sched_lock' = 0 /\ Goto("recheck")
    BY <1>4 DEF ZeroLock
  <2>2. PlaceFits(sched_lock', "recheck", new_lock) /\ Step(k, k')
        /\ Runs(k', current) /\ ~k'.need_reschedule
        /\ dsr_list' \in Seq(Sources) /\ dsrs' \in Seq(Sources) /\ dsrs' = <<>>
        /\ sched_lock' \in Nat /\ nest' = nest /\ slots' = slots
    BY <1>1, <1>2, <2>1, StepRefl DEF PlaceFits
  <2> QED BY <1>1, <2>1, <2>2, GotoStep DEF Exiting
<1> QED BY <1>3, <1>4

\* The look at the DSR list with the lock at zero keeps the invariant.
LEMMA RecheckStep == ASSUME IInv, Recheck PROVE Preserved
<1>1. /\ At("recheck") /\ UNCHANGED <<k, dsr_list, dsrs, nest, slots>>
  BY DEF Recheck
<1>2. /\ Good(k) /\ dsr_list \in Seq(Sources) /\ dsrs \in Seq(Sources)
      /\ dsrs = <<>> /\ PlaceFits(sched_lock, "recheck", new_lock)
      /\ FitsStack(new_lock, Tail(stack), nest[current])
      /\ Runs(k, current) /\ ~k.need_reschedule
  BY <1>1, Types, AtTop, PlaceOfLock DEF Exiting, IInv, Settled, Settling, At
<1>3. sched_lock = 0 /\ new_lock = 0
  BY <1>2 DEF PlaceFits
<1>4. CASE sched_lock' = sched_lock + 1 /\ Goto("loop")
  <2>1. PlaceFits(sched_lock', "loop", new_lock) /\ Step(k, k')
        /\ dsr_list' \in Seq(Sources) /\ dsrs' \in Seq(Sources) /\ dsrs' = <<>>
        /\ sched_lock' \in Nat /\ nest' = nest /\ slots' = slots
    BY <1>1, <1>2, <1>3, <1>4, StepRefl DEF PlaceFits
  <2> QED BY <1>1, <1>4, <2>1, GotoStep DEF Exiting
<1>5. CASE sched_lock' = sched_lock /\ Return
  BY <1>1, <1>2, <1>3, <1>5, ReturnStep
<1> QED BY <1>4, <1>5 DEF Recheck

\* The unlocking loop of thread_entry() keeps the invariant.
LEMMA UnwindStep == ASSUME IInv, Unwind PROVE Preserved
<1> DEFINE N == nest[current]
<1>1. At("unwind") /\ UNCHANGED <<k, dsr_list, dsrs, nest, slots>>
  BY DEF Unwind
<1>2. /\ Good(k) /\ sched_lock \in Nat /\ N \in Nat /\ nest \in [Threads -> Nat]
      /\ stack \in Seq(Frame) /\ StackOK(stack, N, current) /\ stack # <<>>
      /\ slots \subseteq Slots /\ dsrs = <<>> /\ Tail(stack) = <<>>
      /\ FrameOK(Head(stack), N, current) /\ Head(stack).pc = "unwind"
  <2>1. At("unwind") /\ "unwind" \notin Exiting
    BY <1>1 DEF Exiting
  <2>2. stack # <<>> /\ Head(stack).pc = "unwind"
    BY <1>1 DEF At
  <2>3. dsrs = <<>> /\ FrameOK(Head(stack), N, current) /\ Tail(stack) = <<>>
    BY <2>1, AtTop
  <2> QED BY <2>2, <2>3, Types
<1>3. CASE sched_lock = 0 /\ Return /\ UNCHANGED sched_lock
  <2>1. FitsStack(sched_lock', Tail(stack), N)
    BY <1>2, <1>3 DEF FitsStack, FrameOK, Level
  <2>2. Runs(k, current) /\ ~k.need_reschedule
    BY <1>3 DEF IInv, Settled, Settling
  <2> QED BY <1>1, <1>2, <1>3, <2>1, <2>2, ReturnStep
<1>4. CASE sched_lock # 0 /\ unlock(sched_lock, stack)
  <2>1. FitsStack(sched_lock - 1, stack, N)
    BY <1>2 DEF FitsStack, Fits
  <2>2. Step(k, k') /\ sched_lock \in Nat \ {0} /\ slots' \subseteq Slots
        /\ nest' \in [Threads -> Nat] /\ nest'[current] = N
        /\ \A t \in Threads \ {current} : nest'[t] = nest[t]
    BY <1>1, <1>2, <1>4, StepRefl
  <2> QED BY <1>1, <1>2, <1>4, <2>1, <2>2, UnlockStep
<1> QED BY <1>3, <1>4 DEF Unwind

-----------------------------------------------------------------------------
(* The thread switch.                                                      *)

\* A switch makes a best runnable thread current, and no request is left.
LEMMA SwitchKernel ==
    ASSUME IInv, NEW next \in Threads, SwitchTo(next)
    PROVE  /\ Good(k') /\ k'.current_thread = next /\ Stays(k, k')
           /\ Runs(k', next) /\ ~k'.need_reschedule
<1> DEFINE sv    == timeslice_save(k, current)
           saved == [sv EXCEPT !.current_thread = next, !.need_reschedule = FALSE]
           fresh == Head(frames[next]).pc = "entry"
           r     == IF fresh THEN timeslice_reset(saved, next) ELSE saved
<1>1. /\ next = schedule(k) /\ k' = timeslice_restore(r, next)
  BY DEF SwitchTo
<1>2. Good(k) /\ k \in KernelState /\ current \in Threads
  BY Types
<1>3. Quietly(k, sv)
  BY <1>2, SaveRestore
<1> HIDE DEF sv
<1>4. Good(sv) /\ sv \in KernelState /\ Stays(k, sv)
  BY <1>2, <1>3, QuietAfter
<1>5. schedule(sv) = next
  BY <1>1, <1>3 DEF schedule, Quietly, SameQueues
<1>6. saved = switched_to(sv, schedule(sv))
  BY <1>5 DEF switched_to
<1> HIDE DEF saved
<1>7. /\ Good(saved) /\ Runs(saved, next) /\ Stays(sv, saved)
      /\ saved.current_thread = next /\ ~saved.need_reschedule
  BY <1>4, <1>5, <1>6, SwitchedTo DEF Good
<1>8. saved \in KernelState
  BY <1>7, GoodType
<1>9. Quietly(saved, saved)
  BY <1>8 DEF Quietly, SameQueues
<1>10. Quietly(saved, r)
  BY <1>8, <1>9, TimesliceReset
<1> HIDE DEF r
<1>11. /\ Good(r) /\ r \in KernelState /\ Stays(saved, r) /\ Runs(r, next)
       /\ r.current_thread = next /\ ~r.need_reschedule
  BY <1>7, <1>10, QuietAfter
<1>12. Quietly(r, k')
  BY <1>1, <1>11, SaveRestore
<1>13. /\ Good(k') /\ Stays(r, k') /\ Runs(k', next)
       /\ k'.current_thread = next /\ ~k'.need_reschedule
  BY <1>11, <1>12, QuietAfter
<1>14. Stays(k, k')
  BY <1>4, <1>7, <1>11, <1>13 DEF Stays
<1> QED BY <1>13, <1>14

\* Changing a frame's place keeps its lock value.
LEMMA NewPlace ==
    ASSUME NEW f \in Frame, NEW pc
    PROVE  [f EXCEPT !.pc = pc] = [pc |-> pc, new_lock |-> f.new_lock]
BY DEF Frame

\* A switch leaves the old thread switched out and the new one with a lock
\* that fits its own stack.
LEMMA SwitchStep ==
    ASSUME IInv, NEW next \in Threads, SwitchTo(next)
    PROVE  Preserved
<1> DEFINE old == frames[next]
           f   == [pc |-> "switched", new_lock |-> Head(stack).new_lock]
           out == <<f>> \o Tail(stack)
           goes_on == [Head(old) EXCEPT
                         !.pc = IF Head(old).pc = "entry" THEN "unwind" ELSE "finish"]
           in  == <<goes_on>> \o Tail(old)
<1>1. /\ At("resched") /\ next # current
      /\ UNCHANGED <<sched_lock, dsr_list, dsrs, nest, slots>>
  BY DEF SwitchTo
<1>2. /\ current \in Threads /\ frames \in [Threads -> Seq(Frame)]
      /\ nest \in [Threads -> Nat] /\ sched_lock \in Nat
      /\ stack \in Seq(Frame) /\ stack # <<>> /\ Head(stack).pc = "resched"
      /\ StackOK(stack, nest[current], current)
      /\ Head(stack) \in Frame /\ dsrs = <<>>
      /\ stack = frames[current] /\ StacksOK /\ SwitchedOut
  BY <1>1, Types, AtTop DEF IInv, stack
<1>3. sched_lock >= 1
  BY <1>1, PlaceOfLock DEF PlaceFits
<1>4. out \in Seq(Frame) /\ out # <<>> /\ Head(out).pc = "switched"
      /\ StackOK(out, nest[current], current)
  <2>1. /\ out \in Seq(Frame) /\ out # <<>> /\ Head(out) = f
        /\ StackOK(out, nest[current], current)
    BY <1>2, MoveFrame DEF Exiting
  <2>2. f.pc = "switched"
    OBVIOUS
  <2> HIDE DEF f, out
  <2> QED BY <2>1, <2>2
<1>5. /\ old \in Seq(Frame) /\ old # <<>> /\ StackOK(old, nest[next], next)
      /\ Head(old).pc \in {"switched", "entry"} /\ nest[next] \in Nat
  BY <1>1, <1>2 DEF StacksOK, SwitchedOut
<1>6. /\ Head(old) \in Frame /\ Tail(old) \in Seq(Frame)
      /\ FrameOK(Head(old), nest[next], next)
      /\ Head(old).pc \notin Exiting => Tail(old) = <<>>
  BY <1>5, PopStack
<1>7. frames' = [frames EXCEPT ![current] = out, ![next] = in]
  <2>1. [Head(stack) EXCEPT !.pc = "switched"] = f
    BY <1>2, NewPlace
  <2>2. frames' = [frames EXCEPT
          ![current] = <<[Head(frames[current]) EXCEPT !.pc = "switched"]>> \o Tail(frames[current]),
          ![next] = in]
    BY <1>1, <1>2 DEF SwitchTo
  <2> HIDE DEF in, f
  <2> QED BY <1>2, <2>1, <2>2
<1> HIDE DEF old
<1>8. /\ in \in Seq(Frame) /\ in # <<>> /\ StackOK(in, nest[next], next)
      /\ LockFits(sched_lock, in, nest[next])
      /\ Head(in).pc \in {"finish", "unwind"}
  <2>1. CASE Head(old).pc = "switched"
    <3> DEFINE g == [pc |-> "finish", new_lock |-> Head(old).new_lock]
    <3>1. goes_on = g
      BY <1>6, <2>1 DEF Frame
    <3> HIDE DEF goes_on
    <3>2. /\ <<g>> \o Tail(old) \in Seq(Frame) /\ <<g>> \o Tail(old) # <<>>
          /\ Head(<<g>> \o Tail(old)) = g
          /\ StackOK(<<g>> \o Tail(old), nest[next], next)
      BY <1>5, <2>1, MoveFrame DEF Exiting
    <3>3. in \in Seq(Frame) /\ in # <<>> /\ Head(in) = g /\ StackOK(in, nest[next], next)
      BY <3>1, <3>2
    <3>4. g.pc = "finish"
      OBVIOUS
    <3> HIDE DEF g, in
    <3> QED BY <1>3, <3>3, <3>4 DEF LockFits
  <2>2. CASE Head(old).pc = "entry"
    <3>1. goes_on = [pc |-> "unwind", new_lock |-> Head(old).new_lock]
      BY <1>6, <2>2 DEF Frame
    <3>2. goes_on \in Frame /\ goes_on.pc = "unwind" /\ goes_on.pc \notin Exiting
          /\ FrameOK(goes_on, nest[next], next)
      BY <1>6, <2>2, <3>1 DEF Frame, Places, Exiting, FrameOK
    <3> HIDE DEF goes_on
    <3>3. in = <<goes_on>>
      BY <1>6, <2>2, AloneFrame DEF Exiting
    <3>4. /\ <<goes_on>> \in Seq(Frame) /\ <<goes_on>> # <<>>
          /\ Head(<<goes_on>>) = goes_on /\ StackOK(<<goes_on>>, nest[next], next)
      BY <1>5, <3>2, OneFrame
    <3> HIDE DEF in
    <3>5. in \in Seq(Frame) /\ in # <<>> /\ Head(in) = goes_on /\ StackOK(in, nest[next], next)
      BY <3>3, <3>4
    <3> QED BY <3>2, <3>5 DEF LockFits, Fits
  <2> QED BY <1>5, <2>1, <2>2
<1> HIDE DEF in, out, goes_on, f
<1>9. /\ frames' \in [Threads -> Seq(Frame)] /\ frames'[current] = out
      /\ frames'[next] = in
      /\ \A t \in Threads \ {current, next} : frames'[t] = frames[t]
  BY <1>1, <1>2, <1>4, <1>7, <1>8
<1>10. /\ Good(k') /\ k'.current_thread = next /\ current' = next
       /\ Runs(k', next) /\ ~k'.need_reschedule /\ k' \in KernelState
  BY SwitchKernel, GoodType DEF current
<1>11. stack' = in /\ nest[current]' = nest[next]
  BY <1>1, <1>9, <1>10 DEF stack
<1>12. TypeOK'
  BY <1>1, <1>9, <1>10 DEF IInv, TypeOK
<1>13. StacksOK'
  BY <1>1, <1>2, <1>4, <1>8, <1>9 DEF StacksOK
<1>14. SwitchedOut'
  BY <1>2, <1>4, <1>9, <1>10 DEF SwitchedOut
<1>15. LockFits(sched_lock, stack, nest[current])'
  BY <1>1, <1>8, <1>11
<1>16. Settled' /\ BatchOK' /\ Good(k)'
  BY <1>1, <1>2, <1>10 DEF Settled, BatchOK
<1> QED BY <1>12, <1>13, <1>14, <1>15, <1>16, SwitchKernel DEF IInv, Preserved

-----------------------------------------------------------------------------
(* Interrupts and DSRs.                                                    *)

\* An interrupt keeps the invariant wherever it hits.
LEMMA InterruptStep == ASSUME IInv, NEW i \in Sources, Interrupt(i) PROVE Preserved
<1> DEFINE N == nest[current]
<1>1. /\ UNCHANGED <<k, sched_lock, dsrs, nest, slots>>
      /\ dsr_list' = dsr_list \/ dsr_list' = Append(dsr_list, i)
      /\ IF sched_lock = 0 THEN SetStack(<<At_("isrend")>> \o stack)
                           ELSE UNCHANGED frames
  BY DEF Interrupt
<1>2. /\ Good(k) /\ sched_lock \in Nat /\ N \in Nat /\ nest \in [Threads -> Nat]
      /\ stack \in Seq(Frame) /\ StackOK(stack, N, current)
      /\ LockFits(sched_lock, stack, N)
      /\ frames \in [Threads -> Seq(Frame)] /\ current \in Threads
      /\ slots \subseteq Slots /\ dsrs \in Seq(Sources) /\ dsr_list \in Seq(Sources)
      /\ Settled /\ BatchOK
  BY Types DEF IInv
<1>3. dsr_list' \in Seq(Sources)
  <2>1. Append(dsr_list, i) \in Seq(Sources)
    BY <1>2
  <2>2. dsr_list' = dsr_list \/ dsr_list' = Append(dsr_list, i)
    BY <1>1
  <2> QED BY <1>2, <2>1, <2>2
<1>4. Step(k, k') /\ nest' \in [Threads -> Nat] /\ slots' \subseteq Slots
      /\ nest'[current] = N /\ dsrs' \in Seq(Sources) /\ dsrs' = dsrs
      /\ sched_lock' \in Nat /\ k' = k /\ sched_lock' = sched_lock
      /\ \A t \in Threads \ {current} : nest'[t] = nest[t]
  BY <1>1, <1>2, StepRefl
<1>5. CASE sched_lock = 0
  <2> DEFINE f == At_("isrend")
             s == <<f>> \o stack
  <2>1. f \in Frame /\ f.pc = "isrend" /\ f.new_lock = 0 /\ f.pc \in Exiting
        /\ FrameOK(f, N, current)
    BY DEF At_, Frame, Places, Exiting, FrameOK
  <2>2. SetStack(s)
    BY <1>1, <1>5
  <2> HIDE DEF f
  <2>3. FitsStack(f.new_lock, stack, N)
    <3>1. CASE stack = <<>>
      BY <1>2, <1>5, <2>1, <3>1 DEF FitsStack, LockFits
    <3>2. CASE stack # <<>>
      <4>1. Head(stack) \in Frame
        BY <1>2, <3>2
      <4>2. Head(stack).new_lock \in Nat
        BY <4>1 DEF Frame
      <4> QED BY <1>2, <1>5, <2>1, <3>2, <4>2 DEF FitsStack, LockFits
    <3> QED BY <3>1, <3>2
  <2>4. s \in Seq(Frame) /\ s # <<>> /\ Head(s) = f /\ StackOK(s, N, current)
    BY <1>2, <2>1, <2>3, PushFrame
  <2> HIDE DEF s
  <2>5. LockFits(sched_lock', s, N)
    BY <1>4, <1>5, <2>1, <2>4 DEF LockFits, Fits
  <2>6. Runs(k', current) /\ ~k'.need_reschedule /\ dsrs = <<>>
    BY <1>2, <1>4, <1>5 DEF Settled, Settling, BatchOK, LockFits, Fits
  <2> QED BY <1>3, <1>4, <2>2, <2>4, <2>5, <2>6, Move
<1>6. CASE sched_lock # 0
  <2>1. SetStack(stack)
    BY <1>1, <1>2, <1>6 DEF SetStack, stack
  <2>2. Settling(sched_lock', stack) => Runs(k', current) /\ ~k'.need_reschedule
    BY <1>2, <1>4 DEF Settled
  <2>3. dsrs' # <<>> => stack # <<>> /\ Head(stack).pc = "dsrs"
    BY <1>2, <1>4 DEF BatchOK
  <2> QED BY <1>2, <1>3, <1>4, <2>1, <2>2, <2>3, Move
<1> QED BY <1>5, <1>6

\* interrupt_end() keeps the invariant.
LEMMA InterruptEndStep == ASSUME IInv, InterruptEnd PROVE Preserved
<1> DEFINE N == nest[current]
           held == sched_lock + 1
           rest == Tail(stack)
<1>1. /\ At("isrend") /\ unlock(held, rest)
      /\ UNCHANGED <<k, dsr_list, dsrs, nest, slots>>
  BY DEF InterruptEnd
<1>2. /\ Good(k) /\ nest \in [Threads -> Nat] /\ slots \subseteq Slots
      /\ rest \in Seq(Frame) /\ StackOK(rest, N, current) /\ dsrs = <<>>
      /\ FitsStack(new_lock, rest, N) /\ new_lock = 0
  <2>1. /\ rest \in Seq(Frame) /\ StackOK(rest, N, current) /\ dsrs = <<>>
        /\ FitsStack(new_lock, rest, N) /\ new_lock = Head(stack).new_lock
        /\ FrameOK(Head(stack), N, current) /\ Head(stack).pc = "isrend"
    BY <1>1, AtTop DEF Exiting
  <2>2. new_lock = 0
    BY <2>1 DEF FrameOK
  <2> QED BY <2>1, <2>2, Types
<1>3. sched_lock = 0
  BY <1>1, AtTop, RestingFits DEF Fits
<1>4. held \in Nat \ {0} /\ FitsStack(held - 1, rest, N)
  BY <1>2, <1>3
<1>5. Step(k, k')
  BY <1>1, <1>2, StepRefl
<1> HIDE DEF held, rest
<1> QED BY <1>1, <1>2, <1>4, <1>5, UnlockStep

\* A DSR changes the kernel state only, and takes itself off the batch.
LEMMA DSRStep ==
    ASSUME IInv, At("dsrs"), Step(k, k'), dsrs' \in Seq(Sources),
           UNCHANGED <<sched_lock, dsr_list, frames, nest, slots>>
    PROVE  Preserved
<1> DEFINE N == nest[current]
<1>1. /\ sched_lock \in Nat /\ N \in Nat /\ nest \in [Threads -> Nat]
      /\ stack \in Seq(Frame) /\ StackOK(stack, N, current)
      /\ LockFits(sched_lock, stack, N)
      /\ frames \in [Threads -> Seq(Frame)] /\ current \in Threads
      /\ slots \subseteq Slots /\ dsr_list \in Seq(Sources)
  BY Types
<1>2. SetStack(stack)
  BY <1>1 DEF SetStack, stack
<1>3. stack # <<>> /\ Head(stack).pc = "dsrs" /\ sched_lock = 1
  BY PlaceOfLock, AtTop DEF PlaceFits
<1>4. ~Settling(sched_lock', stack)
  BY <1>3 DEF Settling
<1> QED BY <1>1, <1>2, <1>3, <1>4, Move

\* The DSRs of the devices and of the clock keep the invariant.
LEMMA DSRsStep == ASSUME IInv, DSRs PROVE Preserved
<1>1. Good(k) /\ dsrs \in Seq(Sources) /\ Step(k, k)
  BY Types, StepRefl
<1>2. ASSUME At("dsrs"), dsrs # <<>> PROVE Tail(dsrs) \in Seq(Sources)
  BY <1>1, <1>2
<1>3. ASSUME NEW i \in Devices, DeviceDSR(i) PROVE Preserved
  <2>1. At("dsrs") /\ dsrs # <<>> /\ dsrs' = Tail(dsrs)
        /\ UNCHANGED <<sched_lock, dsr_list, frames, nest, slots>>
    BY <1>3 DEF DeviceDSR, RunningDSR
  <2>2. CASE k' = k
    BY <1>1, <1>2, <2>1, <2>2, DSRStep
  <2>3. ASSUME NEW c \in DsrCalls, NEW t \in Users, k' = DsrBody(c, t) PROVE Preserved
    <3>1. t \in Threads \ {Idle}
      BY DEF Users
    <3>2. /\ Step(k, counted_wake(k, t)) /\ Step(k, suspend(k, t))
          /\ Step(k, resume(k, t)) /\ Step(k, release(k, t))
      BY <1>1, <3>1, CountedWake, Suspend, Resume, Release
    <3>3. k' \in {counted_wake(k, t), suspend(k, t), resume(k, t), release(k, t)}
      BY <2>3, DsrCallsAssumption DEF DsrBody
    <3>4. Step(k, k')
      BY <3>2, <3>3
    <3> QED BY <1>2, <2>1, <3>4, DSRStep
  <2> QED BY <1>3, <2>2, <2>3 DEF DeviceDSR
<1>4. ASSUME NEW t \in Users, ClockAlarm(t) PROVE Preserved
  <2>1. At("dsrs") /\ dsrs' = dsrs /\ k' = alarm(k, t)
        /\ UNCHANGED <<sched_lock, dsr_list, frames, nest, slots>>
    BY <1>4 DEF ClockAlarm, RunningDSR
  <2>2. Step(k, k')
    BY <1>1, <2>1, Alarm DEF Users
  <2> QED BY <1>1, <2>1, <2>2, DSRStep
<1>5. ASSUME ClockTimeslice PROVE Preserved
  <2>1. At("dsrs") /\ dsrs # <<>> /\ dsrs' = Tail(dsrs) /\ k' = timeslice(k)
        /\ UNCHANGED <<sched_lock, dsr_list, frames, nest, slots>>
    BY <1>5 DEF ClockTimeslice, RunningDSR
  <2>2. Step(k, k')
    BY <1>1, <2>1, Timeslice
  <2> QED BY <1>2, <2>1, <2>2, DSRStep
<1> QED BY <1>3, <1>4, <1>5 DEF DSRs

-----------------------------------------------------------------------------
(* The theorems.                                                           *)

\* The invariant holds when start() loads the first thread.
LEMMA InitIInv == Init => IInv
<1> SUFFICES ASSUME Init PROVE IInv
  OBVIOUS
<1> DEFINE built == initialized(InitPriority)
           ready == resume(built, Main)
           first == schedule(ready)
           sw    == switched_to(ready, first)
           re    == timeslice_reset(sw, first)
<1>1. /\ k = timeslice_restore(re, first)
      /\ sched_lock = 1 /\ dsr_list = <<>> /\ dsrs = <<>>
      /\ frames = [t \in Threads |-> <<At_(IF t = first THEN "unwind" ELSE "entry")>>]
      /\ nest = [t \in Threads |-> 0] /\ slots = Slots
  BY DEF Init, switched_to
<1>2. Good(built)
  BY Initialized, InitPriorityAssumption
<1> HIDE DEF built
<1>3. Good(ready)
  BY <1>2, Resume, MainAssumption DEF Users, Step
<1> HIDE DEF ready
<1>4. /\ Good(sw) /\ Runs(sw, first) /\ sw.current_thread = first
      /\ ~sw.need_reschedule /\ first \in Threads
  BY <1>3, SwitchedTo, Schedule DEF Good
<1> HIDE DEF sw, first
<1>5. Good(re) /\ re \in KernelState /\ re.current_thread = first
      /\ ~re.need_reschedule /\ Runs(re, first)
  BY <1>4, GoodType, TimesliceReset, QuietAfter
<1> HIDE DEF re
<1>6. Quietly(re, k)
  BY <1>1, <1>4, <1>5, SaveRestore
<1>7. Good(k) /\ k \in KernelState /\ current = first /\ ~k.need_reschedule
      /\ Runs(k, first)
  BY <1>5, <1>6, QuietAfter DEF current
<1>8. ASSUME NEW t \in Threads
      PROVE  /\ frames[t] \in Seq(Frame) /\ frames[t] # <<>>
             /\ Head(frames[t]).pc = IF t = first THEN "unwind" ELSE "entry"
             /\ StackOK(frames[t], nest[t], t)
  <2> DEFINE f == At_(IF t = first THEN "unwind" ELSE "entry")
  <2>1. f \in Frame /\ f.pc \notin Exiting /\ FrameOK(f, 0, t)
    BY DEF At_, Frame, Places, Exiting, FrameOK
  <2>2. frames[t] = <<f>> /\ nest[t] = 0
    BY <1>1
  <2> HIDE DEF f
  <2>3. 0 \in Nat
    OBVIOUS
  <2>4. /\ <<f>> \in Seq(Frame) /\ <<f>> # <<>> /\ Head(<<f>>) = f
        /\ StackOK(<<f>>, 0, t)
    BY <2>1, <2>3, OneFrame
  <2>5. /\ frames[t] \in Seq(Frame) /\ frames[t] # <<>>
        /\ Head(frames[t]) = f /\ StackOK(frames[t], nest[t], t)
    BY <2>2, <2>4
  <2>6. f.pc = IF t = first THEN "unwind" ELSE "entry"
    BY DEF f, At_
  <2> QED BY <2>5, <2>6
<1>9. TypeOK
  <2>1. frames = [t \in Threads |-> frames[t]]
    BY <1>1
  <2>2. frames \in [Threads -> Seq(Frame)]
    BY <1>8, <2>1
  <2> QED BY <1>1, <1>7, <2>2 DEF TypeOK
<1>10. StacksOK
  BY <1>8 DEF StacksOK
<1>11. SwitchedOut
  BY <1>7, <1>8 DEF SwitchedOut
<1>12. stack # <<>> /\ Head(stack).pc = "unwind"
  BY <1>4, <1>7, <1>8 DEF stack
<1>13. LockFits(sched_lock, stack, nest[current])
  BY <1>12 DEF LockFits, Fits
<1>14. Settled /\ BatchOK
  BY <1>1, <1>7, <1>12 DEF Settled, Settling, BatchOK
<1> QED BY <1>7, <1>9, <1>10, <1>11, <1>13, <1>14 DEF IInv

\* Every step keeps the invariant and leaves the dead dead.
LEMMA NextIInv == IInv /\ [Next]_vars => Preserved
<1> SUFFICES ASSUME IInv, [Next]_vars PROVE Preserved
  OBVIOUS
<1>1. CASE ThreadCall
  BY <1>1, ThreadCallStep
<1>2. CASE Unlocking
  BY <1>2, LoopSteps, KeepRunningStep, SwitchStep, FinishSteps, RecheckStep,
     UnwindStep, TimedSleepDoneStep, DelayDoneStep, WakeCheckStep DEF Unlocking
<1>3. CASE \E i \in Sources : Interrupt(i)
  BY <1>3, InterruptStep
<1>4. CASE InterruptEnd
  BY <1>4, InterruptEndStep
<1>5. CASE DSRs
  BY <1>5, DSRsStep
<1>6. CASE UNCHANGED vars
  <2>1. UNCHANGED <<k, sched_lock, dsr_list, dsrs, frames, nest, slots>>
    BY <1>6 DEF vars
  <2>2. IInv'
    BY <2>1 DEF IInv, TypeOK, StacksOK, SwitchedOut, Settled, BatchOK, stack, current
  <2> QED BY <2>1, <2>2 DEF Preserved, Stays
<1> QED BY <1>1, <1>2, <1>3, <1>4, <1>5, <1>6 DEF Next

\* The inductive invariant holds in every behaviour of the scheduler.
THEOREM Invariance == Spec => []IInv
<1>1. Init => IInv
  BY InitIInv
<1>2. IInv /\ [Next]_vars => IInv'
  BY NextIInv DEF Preserved
<1> QED BY <1>1, <1>2, PTL DEF Spec

\* Every variable keeps its type: in particular sched_lock and the suspend
\* and wakeup counts never go below zero.
THEOREM TypeCorrect == Spec => []TypeOK
<1>1. IInv => TypeOK
  BY DEF IInv
<1> QED BY <1>1, Invariance, PTL

\* The run queues, the bitmap and the thread states always agree.
THEOREM RunQueuesCorrect == Spec => []RunQueuesAgree
<1>1. IInv => RunQueuesAgree
  <2> SUFFICES ASSUME IInv PROVE RunQueuesAgree
    OBVIOUS
  <2>1. Sound(k) /\ \A u \in Threads : Placed(k, u)
    BY DEF IInv, Good, Agree
  <2> QED BY <2>1 DEF RunQueuesAgree, Sound, Placed, Runs, Runnable, Distinct
<1> QED BY <1>1, Invariance, PTL

\* With the scheduler unlocked the thread on the CPU is a best runnable one.
THEOREM DispatchCorrect == Spec => []PriorityDispatch
<1>1. IInv => PriorityDispatch
  <2> SUFFICES ASSUME IInv, sched_lock = 0 PROVE
         /\ Runnable(current) /\ ~k.need_reschedule
         /\ \A t \in Threads : Runnable(t) => k.priority[current] <= k.priority[t]
    BY DEF PriorityDispatch
  <2>1. Runs(k, current) /\ ~k.need_reschedule /\ Ordered(k, Threads)
    BY DEF IInv, Settled, Settling, Good
  <2> QED BY <2>1 DEF Ordered, NotWorse, Runs, Runnable, current
<1> QED BY <1>1, Invariance, PTL

\* unlock_inner() is always at an iteration its precondition allows, and DSRs
\* are only called with the scheduler lock at one.
THEOREM UnlockInnerCorrect == Spec => []UnlockInnerPrecondition
<1>1. IInv => UnlockInnerPrecondition
  <2> SUFFICES ASSUME IInv PROVE UnlockInnerPrecondition
    OBVIOUS
  <2>1. At("loop") => PlaceFits(sched_lock, "loop", new_lock)
    BY PlaceOfLock
  <2>2. dsrs # <<>> => At("dsrs")
    BY DEF IInv, BatchOK, At
  <2>3. At("dsrs") => PlaceFits(sched_lock, "dsrs", new_lock)
    BY PlaceOfLock
  <2> QED BY <2>1, <2>2, <2>3 DEF UnlockInnerPrecondition, PlaceFits
<1> QED BY <1>1, Invariance, PTL

\* Without the leak of new_data_index(), the scheduler lock is a variable of
\* each thread: in its own code a thread finds the locks it took itself.
THEOREM LockCorrect == ASSUME ~Leaky PROVE Spec => []LockIsPerThread
<1>1. IInv => LockIsPerThread
  BY DEF IInv, LockIsPerThread, LockFits, Level
<1> QED BY <1>1, Invariance, PTL

\* A thread that exited or was killed is never made runnable again.
THEOREM ExitIsForever == Spec => ExitIsFinal
<1>1. IInv /\ [Next]_vars =>
        [\A t \in Threads : "EXITED" \in k.state[t] => "EXITED" \in k'.state[t]]_vars
  BY NextIInv DEF Preserved, Stays
<1> QED BY <1>1, Invariance, PTL DEF Spec, ExitIsFinal

-----------------------------------------------------------------------------
(* Suspend counts and timers: what each operation does to the four fields  *)
(* they are about.                                                         *)

SameSleep(kk, k2) == /\ k2.state = kk.state
                     /\ k2.suspend_count = kk.suspend_count
                     /\ k2.sleep_reason = kk.sleep_reason
                     /\ k2.timer = kk.timer

\* A suspended thread has a suspend count; a sleeper with a delay its alarm.
SaneAt(kk, t) ==
    /\ "SUSPENDED" \in kk.state[t] <=> kk.suspend_count[t] > 0
    /\ "SLEEPING" \in kk.state[t] /\ kk.sleep_reason[t] \in {"DELAY", "TIMEOUT"}
           => kk.timer[t]
Sane(kk) == \A t \in Threads : SaneAt(kk, t)

\* Nothing of this concerns the other threads.
OthersSleep(kk, k2, t) ==
    \A u \in Threads \ {t} : /\ k2.state[u] = kk.state[u]
                             /\ k2.suspend_count[u] = kk.suspend_count[u]
                             /\ k2.sleep_reason[u] = kk.sleep_reason[u]
                             /\ k2.timer[u] = kk.timer[u]

\* Sane depends on the four fields only.
LEMMA SaneSame ==
    ASSUME NEW kk, NEW k2, Sane(kk), SameSleep(kk, k2)
    PROVE  Sane(k2)
BY DEF Sane, SaneAt, SameSleep

\* ... and where one thread changes, on that thread.
LEMMA SaneOthers ==
    ASSUME NEW kk, NEW k2, NEW t, Sane(kk), OthersSleep(kk, k2, t),
           t \in Threads => SaneAt(k2, t)
    PROVE  Sane(k2)
BY DEF Sane, SaneAt, OthersSleep

\* The types of the four fields.
LEMMA SleepTypes ==
    ASSUME NEW kk \in KernelState
    PROVE  /\ kk.state \in [Threads -> SUBSET StateBits]
           /\ kk.suspend_count \in [Threads -> Nat]
           /\ kk.sleep_reason \in [Threads -> Reasons]
           /\ kk.timer \in [Threads -> BOOLEAN]
           /\ kk.current_thread \in Threads
BY DEF KernelState

\* The run queues, wait queues and slices are no part of it.
LEMMA QueuesSleep ==
    ASSUME NEW kk \in KernelState, NEW t \in Threads
    PROVE  /\ SameSleep(kk, rem_thread(kk, t)) /\ SameSleep(kk, link(kk, t))
           /\ SameSleep(kk, leave_queue(kk, t))
           /\ SameSleep(kk, timeslice_reset(kk, t))
           /\ SameSleep(kk, timeslice_save(kk, t))
           /\ SameSleep(kk, timeslice_restore(kk, t))
           /\ SameSleep(kk, set_need_reschedule(kk))
           /\ SameSleep(kk, set_need_reschedule_for(kk, t))
<1>1. SameSleep(kk, rem_thread(kk, t))
  BY DEF KernelState, SameSleep, rem_thread
<1>2. SameSleep(kk, link(kk, t))
  BY DEF KernelState, SameSleep, link
<1>3. SameSleep(kk, leave_queue(kk, t))
  BY DEF KernelState, SameSleep, leave_queue
<1>4. SameSleep(kk, timeslice_reset(kk, t)) /\ SameSleep(kk, timeslice_save(kk, t))
  BY DEF KernelState, SameSleep, timeslice_reset, timeslice_save
<1>5. SameSleep(kk, timeslice_restore(kk, t))
  BY DEF KernelState, SameSleep, timeslice_restore
<1>6. SameSleep(kk, set_need_reschedule(kk))
  BY DEF KernelState, SameSleep, set_need_reschedule
<1>7. SameSleep(kk, set_need_reschedule_for(kk, t))
  BY <1>6 DEF SameSleep, set_need_reschedule_for
<1> QED BY <1>1, <1>2, <1>3, <1>4, <1>5, <1>6, <1>7

\* A thread goes back on its run queue.
LEMMA RunnableSleep ==
    ASSUME NEW kk \in KernelState, NEW t \in Threads
    PROVE  /\ SameSleep(kk, runnable_again(kk, t)) /\ SameSleep(kk, add_thread(kk, t))
           /\ add_thread(kk, t) \in KernelState
<1> DEFINE l == leave_queue(kk, t)
           n == link(l, t)
           s == set_need_reschedule_for(n, t)
<1>1. l \in KernelState /\ SameSleep(kk, l)
  BY LeaveQueue, QueuesSleep DEF Quietly
<1> HIDE DEF l
<1>2. n \in KernelState /\ SameSleep(l, n)
  BY <1>1, Link, QueuesSleep
<1> HIDE DEF n
<1>3. s \in KernelState /\ SameSleep(n, s)
  BY <1>2, SetNeed, QueuesSleep DEF set_need_reschedule_for
<1> HIDE DEF s
<1>4. SameSleep(s, timeslice_reset(s, t)) /\ timeslice_reset(s, t) \in KernelState
  BY <1>3, QueuesSleep, TimesliceReset DEF Quietly
<1>5. add_thread(kk, t) = timeslice_reset(s, t)
  BY DEF add_thread, s, n, l
<1>6. SameSleep(kk, add_thread(kk, t))
  BY <1>1, <1>2, <1>3, <1>4, <1>5 DEF SameSleep
<1> QED BY <1>4, <1>5, <1>6 DEF runnable_again, SameSleep

\* wake() takes the sleep bits away and leaves reason, count and timer alone.
LEMMA WakeSleep ==
    ASSUME NEW kk \in KernelState, NEW t \in Threads
    PROVE  LET k2 == wake(kk, t)
           IN  /\ k2.state = [kk.state EXCEPT ![t] = @ \ SLEEPSET]
               /\ k2.suspend_count = kk.suspend_count
               /\ k2.sleep_reason = kk.sleep_reason
               /\ k2.timer = kk.timer
<1> DEFINE v == kk.state[t] \ SLEEPSET
           m == [kk EXCEPT !.state[t] = v]
           l == leave_queue(m, t)
           k2 == wake(kk, t)
<1>1. v \in SUBSET StateBits /\ kk.state \in [Threads -> SUBSET StateBits]
  BY SleepTypes
<1>2. CASE kk.state[t] \cap SLEEPSET = {}
  <2>1. v = kk.state[t] /\ k2 = kk
    BY <1>2 DEF wake
  <2>2. kk.state = [kk.state EXCEPT ![t] = v]
    BY <1>1, <2>1
  <2> QED BY <2>1, <2>2
<1>3. CASE kk.state[t] \cap SLEEPSET # {}
  <2>1. m \in KernelState /\ m.state = [kk.state EXCEPT ![t] = v]
    BY <1>1, SetState
  <2>2. m.suspend_count = kk.suspend_count /\ m.sleep_reason = kk.sleep_reason
        /\ m.timer = kk.timer
    BY DEF KernelState
  <2>3. k2 = runnable_again(l, t)
    BY <1>3 DEF wake
  <2> HIDE DEF m, k2
  <2>4. l \in KernelState /\ SameSleep(m, l)
    BY <2>1, LeaveQueue, QueuesSleep DEF Quietly
  <2> HIDE DEF l
  <2>5. SameSleep(l, runnable_again(l, t))
    BY <2>4, RunnableSleep
  <2>6. /\ k2.state = [kk.state EXCEPT ![t] = v]
        /\ k2.suspend_count = kk.suspend_count
        /\ k2.sleep_reason = kk.sleep_reason
        /\ k2.timer = kk.timer
    BY <2>1, <2>2, <2>3, <2>4, <2>5 DEF SameSleep
  <2> QED BY <2>6 DEF k2, v
<1> QED BY <1>2, <1>3

\* A wake with a reason ends every sleep, whatever the timer does then.
LEMMA SaneWakeFor ==
    ASSUME NEW kk \in KernelState, NEW t \in Threads, NEW r \in Reasons, Sane(kk)
    PROVE  Sane(wake(set_wake_reason(kk, t, r), t))
<1> DEFINE s == set_wake_reason(kk, t, r)
           k2 == wake(s, t)
<1>1. s \in KernelState
  BY SetWakeReason DEF Quietly
<1>2. /\ s.state = kk.state /\ s.suspend_count = kk.suspend_count
      /\ s.sleep_reason = [kk.sleep_reason EXCEPT ![t] = "NONE"]
      /\ s.timer = kk.timer
  BY DEF KernelState, set_wake_reason
<1> HIDE DEF s
<1>3. /\ k2.state = [s.state EXCEPT ![t] = @ \ SLEEPSET]
      /\ k2.suspend_count = s.suspend_count
      /\ k2.sleep_reason = s.sleep_reason /\ k2.timer = s.timer
  BY <1>1, WakeSleep
<1> HIDE DEF k2
<1>4. OthersSleep(kk, k2, t)
  BY <1>2, <1>3, SleepTypes DEF OthersSleep
<1>5. SaneAt(k2, t)
  BY <1>2, <1>3, SleepTypes DEF SaneAt, Sane, SLEEPSET
<1> QED BY <1>4, <1>5, SaneOthers DEF k2, s

\* release() keeps counts and timers right.
LEMMA SaneRelease ==
    ASSUME NEW kk \in KernelState, NEW t \in Threads, Sane(kk)
    PROVE  Sane(release(kk, t))
BY SaneWakeFor, ReasonNames DEF release

\* The timer that goes off ends the sleep it was set for.
LEMMA SaneAlarm ==
    ASSUME NEW kk \in KernelState, NEW t \in Threads,
           \A u \in Threads \ {t} : SaneAt(kk, u),
           "SUSPENDED" \in kk.state[t] <=> kk.suspend_count[t] > 0
    PROVE  /\ Sane(alarm(kk, t))
           /\ alarm(kk, t).suspend_count = kk.suspend_count
<1> DEFINE off == clear_timer(kk, t)
<1>1. off \in KernelState
  BY SetTimerField DEF Quietly, clear_timer
<1>2. /\ off.state = kk.state /\ off.suspend_count = kk.suspend_count
      /\ off.sleep_reason = kk.sleep_reason
      /\ off.timer = [kk.timer EXCEPT ![t] = FALSE]
  BY DEF KernelState, clear_timer
<1>3. ASSUME NEW r \in {"DONE", "TIMEOUT"}
      PROVE  LET w == wake(set_wake_reason(off, t, r), t)
             IN  Sane(w) /\ w.suspend_count = kk.suspend_count
  <2> DEFINE s == set_wake_reason(off, t, r)
             w == wake(s, t)
  <2>1. s \in KernelState
    BY <1>1, SetWakeReason, ReasonNames DEF Quietly
  <2>2. /\ s.state = kk.state /\ s.suspend_count = kk.suspend_count
        /\ s.sleep_reason = [kk.sleep_reason EXCEPT ![t] = "NONE"]
        /\ s.timer = off.timer
    <3>1. /\ s.state = off.state /\ s.suspend_count = off.suspend_count
          /\ s.sleep_reason = [off.sleep_reason EXCEPT ![t] = "NONE"]
          /\ s.timer = off.timer
      <4> HIDE DEF off
      <4> QED BY <1>1 DEF KernelState, set_wake_reason
    <3> QED BY <1>2, <3>1
  <2> HIDE DEF s, off
  <2>3. /\ w.state = [s.state EXCEPT ![t] = @ \ SLEEPSET]
        /\ w.suspend_count = s.suspend_count
        /\ w.sleep_reason = s.sleep_reason /\ w.timer = s.timer
    BY <2>1, WakeSleep
  <2> HIDE DEF w
  <2>4. \A u \in Threads \ {t} : SaneAt(w, u)
    <3>1. /\ w.state = [kk.state EXCEPT ![t] = @ \ SLEEPSET]
          /\ w.suspend_count = kk.suspend_count
          /\ w.sleep_reason = [kk.sleep_reason EXCEPT ![t] = "NONE"]
          /\ w.timer = [kk.timer EXCEPT ![t] = FALSE]
      BY <1>2, <2>2, <2>3
    <3>2. OthersSleep(kk, w, t)
      BY <3>1, SleepTypes DEF OthersSleep
    <3> QED BY <3>2 DEF SaneAt, OthersSleep
  <2>5. SaneAt(w, t)
    BY <2>2, <2>3, SleepTypes DEF SaneAt, SLEEPSET
  <2> QED BY <2>2, <2>3, <2>4, <2>5 DEF Sane, w, s, off
<1>4. CASE kk.sleep_reason[t] \notin {"DELAY", "TIMEOUT"}
  <2>1. alarm(kk, t) = off
    BY <1>4 DEF alarm
  <2> HIDE DEF off
  <2>2. Sane(off)
    BY <1>2, <1>4, SleepTypes DEF Sane, SaneAt
  <2> QED BY <1>2, <2>1, <2>2
<1>5. CASE kk.sleep_reason[t] = "DELAY"
  <2>1. alarm(kk, t) = wake(set_wake_reason(off, t, "DONE"), t)
    BY <1>5 DEF alarm
  <2> QED BY <1>3, <2>1
<1>6. CASE kk.sleep_reason[t] = "TIMEOUT"
  <2>1. alarm(kk, t) = wake(set_wake_reason(off, t, "TIMEOUT"), t)
    BY <1>6 DEF alarm
  <2> QED BY <1>3, <2>1
<1> QED BY <1>4, <1>5, <1>6


\* Queued wakeups are no part of it, and a wakeup ends the sleep.
LEMMA SaneCounts ==
    ASSUME NEW kk \in KernelState, NEW t \in Threads, Sane(kk)
    PROVE  /\ Sane(counted_wake(kk, t)) /\ Sane(cancel_counted_wake(kk, t))
           /\ Sane(consume_wakeup(kk))
           /\ consume_wakeup(kk).suspend_count = kk.suspend_count
<1>1. SameSleep(kk, [kk EXCEPT !.wakeup_count[t] = @ + 1])
  BY DEF SameSleep, KernelState
<1>2. SameSleep(kk, cancel_counted_wake(kk, t)) /\ SameSleep(kk, consume_wakeup(kk))
  BY DEF SameSleep, KernelState, cancel_counted_wake, consume_wakeup
<1>3. Sane(wake(set_wake_reason(kk, t, "DONE"), t))
  BY SaneWakeFor, ReasonNames
<1>4. Sane(counted_wake(kk, t))
  BY <1>1, <1>3, SaneSame DEF counted_wake
<1>5. Sane(cancel_counted_wake(kk, t)) /\ Sane(consume_wakeup(kk))
  BY <1>2, SaneSame
<1> QED BY <1>2, <1>4, <1>5 DEF SameSleep

\* suspend() counts up and sets the bit.
LEMMA SaneSuspend ==
    ASSUME NEW kk \in KernelState, NEW t \in Threads, Sane(kk)
    PROVE  Sane(suspend(kk, t))
<1> DEFINE off == IF kk.state[t] = RUNNING THEN rem_thread(kk, t) ELSE kk
           k2  == suspend(kk, t)
<1>1. off \in KernelState /\ SameSleep(kk, off)
  BY RemThread, QueuesSleep DEF SameSleep
<1>2. k2 = [off EXCEPT !.suspend_count[t] = @ + 1, !.state[t] = @ \cup {"SUSPENDED"}]
  BY DEF suspend
<1> HIDE DEF off, k2
<1>3. /\ k2.state = [off.state EXCEPT ![t] = @ \cup {"SUSPENDED"}]
      /\ k2.suspend_count = [off.suspend_count EXCEPT ![t] = @ + 1]
      /\ k2.sleep_reason = off.sleep_reason /\ k2.timer = off.timer
  BY <1>1, <1>2 DEF KernelState
<1>4. OthersSleep(kk, k2, t)
  BY <1>1, <1>3, SleepTypes DEF OthersSleep, SameSleep
<1>5. SaneAt(k2, t)
  <2>1. kk.suspend_count[t] \in Nat
    BY SleepTypes
  <2>2. /\ k2.state[t] = kk.state[t] \cup {"SUSPENDED"}
        /\ k2.suspend_count[t] = kk.suspend_count[t] + 1
        /\ k2.sleep_reason[t] = kk.sleep_reason[t] /\ k2.timer[t] = kk.timer[t]
    BY <1>1, <1>3, SleepTypes DEF SameSleep
  <2>3. k2.suspend_count[t] > 0
    BY <2>1, <2>2
  <2> QED BY <2>2, <2>3 DEF SaneAt, Sane
<1> QED BY <1>4, <1>5, SaneOthers DEF k2

\* Resuming clears the bit when the count goes to zero.
LEMMA SaneResume ==
    ASSUME NEW kk \in KernelState, NEW t \in Threads, Sane(kk)
    PROVE  /\ Sane(resume(kk, t)) /\ Sane(force_resume(kk, t))
           /\ force_resume(kk, t).suspend_count[t] = 0
<1> DEFINE v == kk.state[t] \ {"SUSPENDED"}
           m == set_suspend(kk, t, v, 0)
           k2 == unsuspend(kk, t)
           n == kk.suspend_count[t] - 1
           d == [kk EXCEPT !.suspend_count[t] = n]
<1>0. kk.suspend_count[t] \in Nat /\ v \in SUBSET StateBits
  BY SleepTypes
<1>1. Sane(k2) /\ k2.suspend_count[t] = 0
  <2>1. /\ m \in KernelState
        /\ m.state = [kk.state EXCEPT ![t] = v]
        /\ m.suspend_count = [kk.suspend_count EXCEPT ![t] = 0]
    <3>1. 0 \in Nat
      OBVIOUS
    <3> HIDE DEF v
    <3> QED BY <1>0, <3>1, SetSuspend
  <2>2. m.sleep_reason = kk.sleep_reason /\ m.timer = kk.timer
    BY DEF KernelState, set_suspend
  <2>3. k2 = runnable_again(m, t)
    BY DEF unsuspend, set_suspend
  <2> HIDE DEF m, k2
  <2>4. SameSleep(m, k2)
    BY <2>1, <2>3, RunnableSleep
  <2>5. OthersSleep(kk, k2, t)
    BY <2>1, <2>2, <2>4, SleepTypes DEF OthersSleep, SameSleep
  <2>6. /\ k2.state[t] = v /\ k2.suspend_count[t] = 0
        /\ k2.sleep_reason[t] = kk.sleep_reason[t] /\ k2.timer[t] = kk.timer[t]
    BY <2>1, <2>2, <2>4, SleepTypes DEF SameSleep
  <2>7. SaneAt(k2, t)
    BY <2>6 DEF SaneAt, Sane
  <2> QED BY <2>5, <2>6, <2>7, SaneOthers
<1>2. ASSUME kk.suspend_count[t] > 1 PROVE Sane(d)
  <2>1. /\ d.state = kk.state /\ d.suspend_count = [kk.suspend_count EXCEPT ![t] = n]
        /\ d.sleep_reason = kk.sleep_reason /\ d.timer = kk.timer
    BY DEF KernelState
  <2> HIDE DEF d
  <2>2. OthersSleep(kk, d, t)
    BY <2>1, SleepTypes DEF OthersSleep
  <2>3. d.suspend_count[t] = n /\ n > 0
    BY <1>0, <1>2, <2>1, SleepTypes
  <2>4. SaneAt(d, t)
    <3>1. kk.suspend_count[t] > 0
      BY <1>0, <1>2
    <3> QED BY <2>1, <2>3, <3>1 DEF SaneAt, Sane
  <2> QED BY <2>2, <2>4, SaneOthers
<1>3. resume(kk, t) \in {kk, k2, d} /\ (resume(kk, t) = d => kk.suspend_count[t] > 1 \/ d = kk \/ d = k2)
  BY <1>0 DEF resume
<1>4. Sane(resume(kk, t))
  BY <1>1, <1>2, <1>3
<1>5. Sane(force_resume(kk, t)) /\ force_resume(kk, t).suspend_count[t] = 0
  BY <1>0, <1>1 DEF force_resume
<1> QED BY <1>4, <1>5

\* clear_timer() is for a thread that does not sleep any more.
LEMMA SaneClear ==
    ASSUME NEW kk \in KernelState, NEW t \in Threads, Sane(kk),
           "SLEEPING" \notin kk.state[t]
    PROVE  Sane(clear_timer(kk, t)) /\ clear_timer(kk, t).suspend_count = kk.suspend_count
<1> DEFINE off == clear_timer(kk, t)
<1>1. /\ off.state = kk.state /\ off.suspend_count = kk.suspend_count
      /\ off.sleep_reason = kk.sleep_reason
      /\ off.timer = [kk.timer EXCEPT ![t] = FALSE]
  BY DEF KernelState, clear_timer
<1> HIDE DEF off
<1>2. OthersSleep(kk, off, t) /\ SaneAt(off, t)
  BY <1>1, SleepTypes DEF OthersSleep, SaneAt, Sane
<1> QED BY <1>1, <1>2, SaneOthers DEF off

\* sleep() and the COUNTSLEEP bit change the current thread's state only.
LEMMA SleepSleep ==
    ASSUME NEW kk, Good(kk), kk.current_thread # Idle
    PROVE  LET c == kk.current_thread
           IN  /\ sleep(kk) \in KernelState /\ counted(kk) \in KernelState
               /\ sleep(kk).current_thread = c
               /\ sleep(kk).state = [kk.state EXCEPT ![c] = @ \cup {"SLEEPING"}]
               /\ counted(kk).state = [kk.state EXCEPT ![c] = @ \cup SLEEPSET]
               /\ sleep(kk).suspend_count = kk.suspend_count
               /\ counted(kk).suspend_count = kk.suspend_count
               /\ sleep(kk).sleep_reason = kk.sleep_reason
               /\ counted(kk).sleep_reason = kk.sleep_reason
               /\ sleep(kk).timer = kk.timer /\ counted(kk).timer = kk.timer
<1> DEFINE c == kk.current_thread
           off == IF kk.state[c] = RUNNING THEN rem_thread(kk, c) ELSE kk
           s == sleep(kk)
           n == counted(kk)
<1>1. kk \in KernelState /\ c \in Threads
  BY GoodType
<1>2. off \in KernelState /\ SameSleep(kk, off) /\ off.current_thread = c
  BY <1>1, RemThread, QueuesSleep DEF SameSleep
<1>3. s = [off EXCEPT !.state[c] = @ \cup {"SLEEPING"}]
      /\ n = [s EXCEPT !.state[c] = @ \cup {"COUNTSLEEP"}]
  BY DEF sleep, counted
<1>4. s \in KernelState /\ n \in KernelState /\ s.current_thread = c
  BY Sleep, Counted, GoodType DEF Step
<1> HIDE DEF off, s, n
<1>5. /\ s.state = [kk.state EXCEPT ![c] = @ \cup {"SLEEPING"}]
      /\ s.suspend_count = kk.suspend_count
      /\ s.sleep_reason = kk.sleep_reason /\ s.timer = kk.timer
  BY <1>2, <1>3 DEF KernelState, SameSleep
<1>6. /\ n.state = [s.state EXCEPT ![c] = @ \cup {"COUNTSLEEP"}]
      /\ n.suspend_count = s.suspend_count
      /\ n.sleep_reason = s.sleep_reason /\ n.timer = s.timer
  BY <1>3, <1>4 DEF KernelState
<1>7. n.state = [kk.state EXCEPT ![c] = @ \cup SLEEPSET]
  <2>1. kk.state \in [Threads -> SUBSET StateBits]
    BY <1>1, SleepTypes
  <2> QED BY ONLY <1>1, <1>5, <1>6, <2>1 DEF SLEEPSET
<1> QED BY <1>4, <1>5, <1>6, <1>7 DEF s, n

\* Every way to sleep keeps the counts, and one with a delay sets the timer.
LEMMA SaneSleeps ==
    ASSUME NEW kk, Good(kk), Sane(kk), kk.current_thread # Idle
    PROVE  /\ \A k2 \in {delay(kk), counted_sleep(kk),
                         timed_counted_sleep(set_timer(kk, "TIMEOUT"))} :
                Sane(k2) /\ k2.suspend_count = kk.suspend_count
           /\ \A k2 \in {delay(kk), set_timer(kk, "TIMEOUT")} :
                /\ Sane(alarm(k2, kk.current_thread))
                /\ alarm(k2, kk.current_thread).suspend_count = kk.suspend_count
<1> DEFINE c == kk.current_thread
           SC(k2) == Sane(k2) /\ k2.suspend_count = kk.suspend_count
           s  == sleep(kk)
           dl == delay(kk)
           w  == set_sleep_reason(kk, "WAIT")
           cs == counted(w)
           st == set_timer(kk, "TIMEOUT")
           x  == set_sleep_reason(st, "TIMEOUT")
           ts == counted(x)
<1>1. kk \in KernelState /\ c \in Threads \ {Idle} /\ c \in Threads
  BY GoodType
<1>2. dl \in KernelState /\ dl.current_thread = c /\ SC(dl)
  <2>1. /\ s \in KernelState /\ s.current_thread = c
        /\ s.state = [kk.state EXCEPT ![c] = @ \cup {"SLEEPING"}]
        /\ s.suspend_count = kk.suspend_count
        /\ s.sleep_reason = kk.sleep_reason /\ s.timer = kk.timer
    BY SleepSleep
  <2>2. dl \in KernelState /\ dl.current_thread = c
    BY Sleeps, GoodType DEF Step
  <2>3. dl = set_timer(s, "DELAY")
    BY DEF delay
  <2> HIDE DEF s, dl
  <2>4. /\ dl.state = s.state /\ dl.suspend_count = s.suspend_count
        /\ dl.sleep_reason = [s.sleep_reason EXCEPT ![c] = "DELAY"]
        /\ dl.timer = [s.timer EXCEPT ![c] = TRUE]
    BY <2>1, <2>3 DEF KernelState, set_timer, set_sleep_reason
  <2>5. OthersSleep(kk, dl, c)
    <3>1. /\ dl.state = [kk.state EXCEPT ![c] = @ \cup {"SLEEPING"}]
          /\ dl.suspend_count = kk.suspend_count
          /\ dl.sleep_reason = [kk.sleep_reason EXCEPT ![c] = "DELAY"]
          /\ dl.timer = [kk.timer EXCEPT ![c] = TRUE]
      BY <2>1, <2>4
    <3>2. /\ kk.state \in [Threads -> SUBSET StateBits]
          /\ kk.sleep_reason \in [Threads -> Reasons]
          /\ kk.timer \in [Threads -> BOOLEAN]
      BY <1>1, SleepTypes
    <3> QED BY ONLY <3>1, <3>2 DEF OthersSleep
  <2>6. SaneAt(dl, c)
    BY <1>1, <2>1, <2>4, SleepTypes DEF SaneAt, Sane
  <2> QED BY <2>1, <2>2, <2>4, <2>5, <2>6, SaneOthers
<1>3. SC(cs)
  <2>1. Good(w) /\ w \in KernelState /\ w.current_thread = c
    BY ReasonSteps, ReasonNames, GoodType, <1>1 DEF Step
  <2>2. /\ w.state = kk.state /\ w.suspend_count = kk.suspend_count
        /\ w.sleep_reason = [kk.sleep_reason EXCEPT ![c] = "WAIT"]
        /\ w.timer = kk.timer
    BY <1>1 DEF KernelState, set_sleep_reason
  <2> HIDE DEF w
  <2>3. /\ cs.state = [w.state EXCEPT ![c] = @ \cup SLEEPSET]
        /\ cs.suspend_count = w.suspend_count
        /\ cs.sleep_reason = w.sleep_reason /\ cs.timer = w.timer
    BY <2>1, SleepSleep
  <2> HIDE DEF cs
  <2>4. OthersSleep(kk, cs, c)
    BY <1>1, <2>2, <2>3, SleepTypes DEF OthersSleep
  <2>5. SaneAt(cs, c)
    BY <1>1, <2>2, <2>3, SleepTypes DEF SaneAt, Sane, SLEEPSET
  <2> QED BY <2>2, <2>3, <2>4, <2>5, SaneOthers
<1>4. /\ Good(st) /\ st \in KernelState /\ st.current_thread = c
      /\ st.state = kk.state /\ st.suspend_count = kk.suspend_count
      /\ st.sleep_reason = [kk.sleep_reason EXCEPT ![c] = "TIMEOUT"]
      /\ st.timer = [kk.timer EXCEPT ![c] = TRUE]
  <2>1. Good(st) /\ st \in KernelState /\ st.current_thread = c
    BY ReasonSteps, ReasonNames, GoodType, <1>1 DEF Step
  <2>2. /\ st.state = kk.state /\ st.suspend_count = kk.suspend_count
        /\ st.sleep_reason = [kk.sleep_reason EXCEPT ![c] = "TIMEOUT"]
        /\ st.timer = [kk.timer EXCEPT ![c] = TRUE]
    BY <1>1 DEF KernelState, set_timer, set_sleep_reason
  <2> QED BY <2>1, <2>2
<1>5. SC(ts)
  <2> HIDE DEF st
  <2>1. Good(x) /\ x \in KernelState /\ x.current_thread = c
    BY <1>4, ReasonSteps, ReasonNames, GoodType, <1>1 DEF Step
  <2>2. /\ x.state = st.state /\ x.suspend_count = st.suspend_count
        /\ x.sleep_reason = [st.sleep_reason EXCEPT ![c] = "TIMEOUT"]
        /\ x.timer = st.timer
    BY <1>4 DEF KernelState, set_sleep_reason
  <2> HIDE DEF x
  <2>3. /\ ts.state = [x.state EXCEPT ![c] = @ \cup SLEEPSET]
        /\ ts.suspend_count = x.suspend_count
        /\ ts.sleep_reason = x.sleep_reason /\ ts.timer = x.timer
    BY <1>1, <2>1, SleepSleep
  <2> HIDE DEF ts
  <2>4. OthersSleep(kk, ts, c)
    <3>1. /\ ts.state = [kk.state EXCEPT ![c] = @ \cup SLEEPSET]
          /\ ts.suspend_count = kk.suspend_count
          /\ ts.timer = [kk.timer EXCEPT ![c] = TRUE]
      BY <1>4, <2>2, <2>3
    <3>2. \A u \in Threads \ {c} : ts.sleep_reason[u] = kk.sleep_reason[u]
      BY <1>1, <1>4, <2>2, <2>3, SleepTypes
    <3> QED BY <1>1, <3>1, <3>2, SleepTypes DEF OthersSleep
  <2>5. SaneAt(ts, c)
    BY <1>1, <1>4, <2>2, <2>3, SleepTypes DEF SaneAt, Sane, SLEEPSET
  <2> QED BY <1>4, <2>2, <2>3, <2>4, <2>5, SaneOthers
<1>6. Sane(alarm(dl, c)) /\ alarm(dl, c).suspend_count = kk.suspend_count
  <2> HIDE DEF dl
  <2> QED BY <1>1, <1>2, SaneAlarm DEF Sane, SaneAt
<1>7. Sane(alarm(st, c)) /\ alarm(st, c).suspend_count = kk.suspend_count
  <2> HIDE DEF st
  <2>1. OthersSleep(kk, st, c) /\ st.state[c] = kk.state[c]
        /\ st.suspend_count[c] = kk.suspend_count[c]
    BY <1>1, <1>4, SleepTypes DEF OthersSleep
  <2>2. /\ \A u \in Threads \ {c} : SaneAt(st, u)
        /\ "SUSPENDED" \in st.state[c] <=> st.suspend_count[c] > 0
    BY <1>1, <2>1 DEF OthersSleep, Sane, SaneAt
  <2> QED BY <1>1, <1>4, <2>2, SaneAlarm
<1> QED BY <1>2, <1>3, <1>5, <1>6, <1>7 DEF counted_sleep, timed_counted_sleep


\* exit() of a thread that is not suspended keeps the counts right.
LEMMA SaneExit ==
    ASSUME NEW kk, Good(kk), Sane(kk), kk.suspend_count[kk.current_thread] = 0
    PROVE  Sane(exit(kk))
<1> DEFINE c == kk.current_thread
           off == clear_timer(kk, c)
           v == {"EXITED"}
           m == [off EXCEPT !.state[c] = v]
           k2 == rem_thread(m, c)
<1>1. kk \in KernelState /\ c \in Threads
  BY GoodType
<1>2. off \in KernelState
  BY <1>1, SetTimerField DEF Quietly, clear_timer
<1>3. /\ off.state = kk.state /\ off.suspend_count = kk.suspend_count
      /\ off.sleep_reason = kk.sleep_reason
      /\ off.timer = [kk.timer EXCEPT ![c] = FALSE]
  BY <1>1 DEF KernelState, clear_timer
<1>4. exit(kk) = IF kk.state[c] = {"EXITED"} THEN off ELSE k2
  BY DEF exit
<1> HIDE DEF off
<1>5. m \in KernelState /\ m.state = [off.state EXCEPT ![c] = v]
  <2>1. v \in SUBSET StateBits
    BY DEF StateBits
  <2> HIDE DEF v
  <2> QED BY <1>1, <1>2, <2>1, SetState
<1>6. /\ m.suspend_count = off.suspend_count
      /\ m.sleep_reason = off.sleep_reason /\ m.timer = off.timer
  BY <1>2 DEF KernelState
<1> HIDE DEF m
<1>7. SameSleep(m, k2)
  BY <1>1, <1>5, QueuesSleep
<1> HIDE DEF k2
<1>8. CASE kk.state[c] = {"EXITED"}
  <2>1. OthersSleep(kk, off, c) /\ SaneAt(off, c)
    <3>1. OthersSleep(kk, off, c)
      BY <1>1, <1>3, SleepTypes DEF OthersSleep
    <3>2. off.state[c] = {"EXITED"} /\ off.suspend_count[c] = 0
      BY <1>3, <1>8
    <3> QED BY <3>1, <3>2 DEF SaneAt
  <2> QED BY <1>4, <1>8, <2>1, SaneOthers
<1>9. CASE kk.state[c] # {"EXITED"}
  <2>1. /\ k2.state = [kk.state EXCEPT ![c] = v]
        /\ k2.suspend_count = kk.suspend_count
        /\ k2.sleep_reason = kk.sleep_reason
        /\ k2.timer = [kk.timer EXCEPT ![c] = FALSE]
    BY <1>3, <1>5, <1>6, <1>7 DEF SameSleep
  <2>2. OthersSleep(kk, k2, c)
    BY <1>1, <2>1, SleepTypes DEF OthersSleep
  <2>3. k2.state[c] = {"EXITED"} /\ k2.suspend_count[c] = 0
    BY <1>1, <2>1, SleepTypes
  <2>4. SaneAt(k2, c)
    BY <2>3 DEF SaneAt
  <2> QED BY <1>4, <1>9, <2>2, <2>4, SaneOthers
<1> QED BY <1>8, <1>9

\* Descheduling a thread that is not suspended keeps the counts right.
LEMMA SaneDeschedule ==
    ASSUME NEW kk \in KernelState, NEW t \in Threads,
           \A u \in Threads \ {t} : SaneAt(kk, u), kk.suspend_count[t] = 0
    PROVE  Sane(deschedule(kk, t))
<1> DEFINE off == IF kk.state[t] = RUNNING THEN rem_thread(kk, t) ELSE kk
           d == deschedule(kk, t)
<1>1. off \in KernelState /\ SameSleep(kk, off)
  BY RemThread, QueuesSleep DEF SameSleep
<1>2. d = [off EXCEPT !.state[t] = {"EXITED"}]
  BY DEF deschedule
<1> HIDE DEF off, d
<1>3. /\ d.state = [kk.state EXCEPT ![t] = {"EXITED"}]
      /\ d.suspend_count = kk.suspend_count
      /\ d.sleep_reason = kk.sleep_reason /\ d.timer = kk.timer
  BY <1>1, <1>2 DEF KernelState, SameSleep
<1>4. OthersSleep(kk, d, t)
  BY <1>3, SleepTypes DEF OthersSleep
<1>5. d.state[t] = {"EXITED"} /\ d.suspend_count[t] = 0
  BY <1>3, SleepTypes
<1>6. SaneAt(d, t)
  BY <1>5 DEF SaneAt
<1>7. \A u \in Threads \ {t} : SaneAt(d, u)
  BY <1>4 DEF SaneAt, OthersSleep
<1> QED BY <1>6, <1>7 DEF Sane, d

\* A wake leaves no sleeper without its timer, if the others have theirs.
LEMMA SaneWake ==
    ASSUME NEW kk \in KernelState, NEW t \in Threads,
           \A u \in Threads \ {t} : SaneAt(kk, u),
           "SUSPENDED" \in kk.state[t] <=> kk.suspend_count[t] > 0
    PROVE  Sane(wake(kk, t))
<1> DEFINE w == wake(kk, t)
<1>1. /\ w.state = [kk.state EXCEPT ![t] = @ \ SLEEPSET]
      /\ w.suspend_count = kk.suspend_count
      /\ w.sleep_reason = kk.sleep_reason /\ w.timer = kk.timer
  BY WakeSleep
<1> HIDE DEF w
<1>2. OthersSleep(kk, w, t)
  BY <1>1, SleepTypes DEF OthersSleep
<1>3. SaneAt(w, t)
  BY <1>1, SleepTypes DEF SaneAt, SLEEPSET
<1>4. \A u \in Threads \ {t} : SaneAt(w, u)
  BY <1>2 DEF SaneAt, OthersSleep
<1> QED BY <1>3, <1>4 DEF Sane, w

\* kill() resumes the thread first, and leaves no sleeper whose timer it took.
LEMMA SaneKill ==
    ASSUME NEW kk, Good(kk), NEW t \in Threads \ {Idle}, Sane(kk)
    PROVE  Sane(kill(kk, t))
<1> DEFINE f == force_resume(kk, t)
           up == clear_timer(f, t)
           d == deschedule(up, t)
           s == set_wake_reason(up, t, "EXIT")
<1>1. Good(f) /\ f \in KernelState /\ Sane(f) /\ f.suspend_count[t] = 0
  BY GoodType, Resume, SaneResume DEF Step
<1>2. kill(kk, t) = CASE up.wake_reason[t] = "EXIT" -> wake(up, t)
                      [] up.wake_reason[t] # "EXIT" /\ up.sleep_reason[t] = "NONE"
                           -> wake(d, t)
                      [] up.wake_reason[t] # "EXIT" /\ up.sleep_reason[t] \in Breakable
                           -> wake(s, t)
                      [] OTHER -> up
  BY DEF kill
<1> HIDE DEF f
<1>3. Good(up) /\ up \in KernelState
  BY <1>1, ReasonSteps, ReasonNames, GoodType DEF Step
<1>4. /\ up.state = f.state /\ up.suspend_count = f.suspend_count
      /\ up.sleep_reason = f.sleep_reason
      /\ up.timer = [f.timer EXCEPT ![t] = FALSE]
  BY <1>1 DEF KernelState, clear_timer
<1> HIDE DEF up
<1>5. /\ \A u \in Threads \ {t} : SaneAt(up, u)
      /\ "SUSPENDED" \notin up.state[t] /\ up.suspend_count[t] = 0
  <2>1. OthersSleep(f, up, t)
    BY <1>1, <1>4, SleepTypes DEF OthersSleep
  <2>2. "SUSPENDED" \notin f.state[t]
    BY <1>1 DEF Sane, SaneAt
  <2> QED BY <1>1, <1>4, <2>1, <2>2 DEF Sane, SaneAt, OthersSleep
<1>6. Sane(wake(up, t))
  BY <1>3, <1>5, SaneWake
<1>7. Sane(wake(d, t))
  <2>1. Good(d) /\ d \in KernelState
    BY <1>3, Deschedule, GoodType DEF Step
  <2>2. Sane(d)
    BY <1>3, <1>5, SaneDeschedule
  <2> HIDE DEF d
  <2> QED BY <2>1, <2>2, SaneWake DEF Sane, SaneAt
<1>8. Sane(wake(s, t))
  <2>1. s \in KernelState
    BY <1>3, SetWakeReason, ReasonNames DEF Quietly
  <2>2. /\ s.state = up.state /\ s.suspend_count = up.suspend_count
        /\ s.sleep_reason = [up.sleep_reason EXCEPT ![t] = "NONE"]
        /\ s.timer = up.timer
    BY <1>3 DEF KernelState, set_wake_reason
  <2> HIDE DEF s
  <2>3. OthersSleep(up, s, t)
    BY <1>3, <2>2, SleepTypes DEF OthersSleep
  <2>4. \A u \in Threads \ {t} : SaneAt(s, u)
    BY <1>5, <2>3 DEF OthersSleep, SaneAt
  <2> QED BY <1>5, <2>1, <2>2, <2>4, SaneWake
<1>9. ASSUME up.sleep_reason[t] \notin {"DELAY", "TIMEOUT"} PROVE Sane(up)
  <2>1. SaneAt(up, t)
    BY <1>5, <1>9 DEF SaneAt
  <2> QED BY <1>5, <2>1 DEF Sane
<1>10. CASE up.wake_reason[t] = "EXIT"
  BY <1>2, <1>6, <1>10
<1>11. CASE up.wake_reason[t] # "EXIT" /\ up.sleep_reason[t] = "NONE"
  <2>1. kill(kk, t) = wake(d, t)
    BY <1>2, <1>11 DEF Breakable
  <2> QED BY <1>7, <2>1
<1>12. CASE up.wake_reason[t] # "EXIT" /\ up.sleep_reason[t] \in Breakable
  <2>1. kill(kk, t) = wake(s, t)
    BY <1>2, <1>12 DEF Breakable
  <2> QED BY <1>8, <2>1
<1>13. CASE up.wake_reason[t] # "EXIT" /\ up.sleep_reason[t] \notin Breakable \cup {"NONE"}
  <2>1. kill(kk, t) = up
    BY <1>2, <1>13
  <2> QED BY <1>9, <1>13, <2>1 DEF Breakable
<1> QED BY <1>10, <1>11, <1>12, <1>13

\* A priority change touches none of the four fields.
LEMMA SanePriority ==
    ASSUME NEW kk, Good(kk), NEW t \in Threads \ {Idle}, NEW new \in Priorities,
           Sane(kk)
    PROVE  Sane(set_priority(kk, t, new))
<1> DEFINE q == kk.queue[t]
           r == rem_thread(kk, t)
           a == assign_priority(r, t, new)
           m1 == add_thread(a, t)
           l == leave_queue(kk, t)
           b == assign_priority(l, t, new)
           m2 == enqueue(b, q, t)
           m3 == assign_priority(kk, t, new)
<1>1. kk \in KernelState /\ t \in Threads
  BY GoodType
<1>2. ASSUME NEW k1 \in KernelState
      PROVE  /\ assign_priority(k1, t, new) \in KernelState
             /\ SameSleep(k1, assign_priority(k1, t, new))
  <2>1. SameSleep(k1, assign_priority(k1, t, new))
    BY <1>2 DEF KernelState, SameSleep, assign_priority
  <2> QED BY <1>1, <2>1, AssignPriority
<1>3. m1 \in KernelState /\ SameSleep(kk, m1)
  <2>1. r \in KernelState /\ SameSleep(kk, r)
    BY <1>1, RemThread, QueuesSleep
  <2> HIDE DEF r
  <2>2. a \in KernelState /\ SameSleep(r, a)
    BY <1>2, <2>1
  <2> HIDE DEF a
  <2>3. SameSleep(a, m1) /\ m1 \in KernelState
    BY <1>1, <2>2, RunnableSleep
  <2> QED BY <2>1, <2>2, <2>3 DEF SameSleep
<1>4. ASSUME q # NoQueue PROVE m2 \in KernelState /\ SameSleep(kk, m2)
  <2>1. l \in KernelState /\ SameSleep(kk, l)
    BY <1>1, LeaveQueue, QueuesSleep DEF Quietly
  <2>2. q \in WaitQueues
    BY <1>1, <1>4 DEF KernelState
  <2> HIDE DEF l, q
  <2>3. b \in KernelState /\ SameSleep(l, b)
    BY <1>2, <2>1
  <2> HIDE DEF b
  <2>4. m2 \in KernelState
    BY <1>1, <2>2, <2>3, Enqueue DEF Quietly
  <2>5. SameSleep(b, m2)
    BY <2>3 DEF KernelState, SameSleep, enqueue
  <2> QED BY <2>1, <2>3, <2>4, <2>5 DEF SameSleep
<1>5. m3 \in KernelState /\ SameSleep(kk, m3)
  BY <1>1, <1>2
<1>6. \E m : m \in KernelState /\ SameSleep(kk, m) /\ set_priority(kk, t, new) = notify_priority(m, t)
  <2>1. CASE kk.state[t] = RUNNING
    <3>1. set_priority(kk, t, new) = notify_priority(m1, t)
      BY <2>1 DEF set_priority, RUNNING
    <3> HIDE DEF m1
    <3> QED BY <1>3, <3>1
  <2>2. CASE kk.state[t] # RUNNING /\ "SLEEPING" \in kk.state[t] /\ q # NoQueue
    <3>1. set_priority(kk, t, new) = notify_priority(m2, t)
      BY <2>2 DEF set_priority
    <3> HIDE DEF m2
    <3> QED BY <1>4, <2>2, <3>1
  <2>3. CASE kk.state[t] # RUNNING /\ ~("SLEEPING" \in kk.state[t] /\ q # NoQueue)
    <3>1. set_priority(kk, t, new) = notify_priority(m3, t)
      BY <2>3 DEF set_priority
    <3> HIDE DEF m3
    <3> QED BY <1>5, <3>1
  <2> QED BY <2>1, <2>2, <2>3
<1>7. PICK m : m \in KernelState /\ SameSleep(kk, m) /\ set_priority(kk, t, new) = notify_priority(m, t)
  BY <1>6
<1>8. SameSleep(m, notify_priority(m, t))
  BY <1>1, <1>7, QueuesSleep DEF notify_priority
<1> QED BY <1>7, <1>8, SaneSame DEF SameSleep

\* Nor do the rotations of yield(), rotate_queue() and timeslice().
LEMMA SaneRotations ==
    ASSUME NEW kk, Good(kk), Sane(kk), NEW p \in Priorities
    PROVE  /\ Sane(rotate_queue(kk, p)) /\ Sane(yield(kk)) /\ Sane(timeslice(kk))
<1>1. kk \in KernelState /\ kk.current_thread \in Threads
  BY GoodType
<1>2. ASSUME NEW k1 \in KernelState
      PROVE  SameSleep(k1, rotate_current(k1)) /\ SameSleep(k1, rotated(k1, p))
  BY <1>2 DEF KernelState, SameSleep, rotate_current, rotated
<1>3. Sane(rotate_queue(kk, p))
  <2>1. rotated(kk, p) \in KernelState /\ SameSleep(kk, rotated(kk, p))
    BY <1>1, <1>2, Rotate
  <2>2. SameSleep(rotated(kk, p), set_need_reschedule(rotated(kk, p)))
    BY <1>1, <2>1, QueuesSleep
  <2>3. rotate_queue(kk, p) \in {kk, set_need_reschedule(rotated(kk, p))}
    BY DEF rotate_queue, rotated
  <2>4. SameSleep(kk, set_need_reschedule(rotated(kk, p)))
    BY <2>1, <2>2 DEF SameSleep
  <2> QED BY <2>3, <2>4, SaneSame
<1>4. Sane(yield(kk))
  <2> DEFINE r == rotate_current(kk)
             c == kk.current_thread
  <2>1. r \in KernelState /\ SameSleep(kk, r)
    BY <1>1, <1>2, CurrentQueue, GoodType DEF Step
  <2>2. yield(kk) \in {kk, timeslice_reset(r, c), set_need_reschedule(r)}
    BY DEF yield
  <2> HIDE DEF r
  <2>3. SameSleep(r, timeslice_reset(r, c)) /\ SameSleep(r, set_need_reschedule(r))
    BY <1>1, <2>1, QueuesSleep
  <2>4. SameSleep(kk, timeslice_reset(r, c)) /\ SameSleep(kk, set_need_reschedule(r))
    BY <2>1, <2>3 DEF SameSleep
  <2> QED BY <2>2, <2>4, SaneSame
<1>5. Sane(timeslice(kk))
  <2> DEFINE x == timeslice(kk)
             n == (kk.slice + CountMod - 1) % CountMod
             d == [kk EXCEPT !.slice = n]
             r == rotate_current(d)
             z == [r EXCEPT !.slice = Quantum]
  <2>1. n \in 0..CountMod-1
    <3>1. kk.slice \in 0..CountMod-1 /\ CountMod \in Nat \ {0}
      BY <1>1, QuantumAssumption DEF KernelState
    <3> QED BY <3>1
  <2>2. x \in {d, z, set_need_reschedule(z)}
    BY DEF timeslice, timeslice_cpu
  <2> HIDE DEF n, x
  <2>3. d \in KernelState /\ SameSleep(kk, d) /\ Good(d)
    <3>1. Quietly(kk, d)
      BY <1>1, <2>1, SetSlice
    <3>2. SameSleep(kk, d)
      BY <1>1 DEF KernelState, SameSleep
    <3> HIDE DEF d
    <3> QED BY <3>1, <3>2, QuietAfter
  <2> HIDE DEF d
  <2>4. r \in KernelState /\ SameSleep(d, r)
    BY <1>2, <2>3, CurrentQueue, GoodType DEF Step
  <2> HIDE DEF r
  <2>5. SameSleep(r, z) /\ z \in KernelState
    <3>1. Quantum \in 0..CountMod-1
      BY QuantumAssumption
    <3>2. z \in KernelState
      BY <2>4, <3>1, SetSlice DEF Quietly
    <3>3. SameSleep(r, z)
      BY <2>4 DEF SameSleep, KernelState
    <3> QED BY <3>2, <3>3
  <2> HIDE DEF z
  <2>6. SameSleep(z, set_need_reschedule(z))
    BY <1>1, <2>5, QueuesSleep
  <2>7. SameSleep(kk, z) /\ SameSleep(kk, set_need_reschedule(z))
    BY <2>3, <2>4, <2>5, <2>6 DEF SameSleep
  <2>8. Sane(x)
    BY <2>2, <2>3, <2>7, SaneSame
  <2> QED BY <2>8 DEF x
<1> QED BY <1>3, <1>4, <1>5


-----------------------------------------------------------------------------
(* The second invariant, on top of IInv.                                   *)

\* A thread back from its sleep is awake: running where it is about to clear
\* its timer, not suspended where it is about to exit.
RestsAwake(kk, s, t) ==
    s # <<>> =>
        /\ Head(s).pc \in {"timed", "delayed"} => Runs(kk, t)
        /\ Head(s).pc = "woken" => kk.suspend_count[t] = 0

SleepInv == IInv /\ Sane(k) /\ RestsAwake(k, stack, current)

\* What every step is shown to keep, IInv being known.
SleepKept == Sane(k') /\ RestsAwake(k', stack', current')

\* A runnable thread is not suspended, and is awake anywhere.
LEMMA RunsUnsuspended ==
    ASSUME NEW kk \in KernelState, Sane(kk), NEW t \in Threads, Runs(kk, t)
    PROVE  /\ kk.suspend_count[t] = 0 /\ "SLEEPING" \notin kk.state[t]
           /\ \A s : RestsAwake(kk, s, t)
<1>1. kk.suspend_count[t] \in Nat /\ kk.state[t] = {}
  BY SleepTypes DEF Runs, RUNNING
<1>2. kk.suspend_count[t] = 0
  BY <1>1 DEF Sane, SaneAt
<1> QED BY <1>1, <1>2 DEF RestsAwake

\* The parts the steps need.
LEMMA SleepParts ==
    ASSUME SleepInv
    PROVE  /\ IInv /\ Sane(k) /\ RestsAwake(k, stack, current) /\ Good(k)
           /\ k \in KernelState /\ current \in Threads /\ current = k.current_thread
           /\ Runs(k, current) => k.suspend_count[current] = 0
BY Types, RunsUnsuspended DEF SleepInv, current

\* The stack the running thread is given is its stack after the step.
LEMMA StackSet ==
    ASSUME IInv, NEW s, SetStack(s), current' = current
    PROVE  stack' = s
BY Types DEF SetStack, stack

\* unlock() leaves the thread in unlock_inner() or where it goes on.
LEMMA UnlockTop ==
    ASSUME SleepInv, NEW held, NEW rest \in Seq(Frame), unlock(held, rest),
           Sane(k'), current' = current,
           held # 1 => RestsAwake(k', rest, current)
    PROVE  SleepKept
<1>1. CASE held = 1
  <2> DEFINE s == <<unlock_inner(0)>> \o rest
  <2>1. stack' = s
    BY <1>1, SleepParts, StackSet DEF unlock
  <2>2. Head(s) = unlock_inner(0)
    OBVIOUS
  <2> HIDE DEF s
  <2> QED BY <2>1, <2>2 DEF SleepKept, RestsAwake, unlock_inner
<1>2. CASE held # 1
  <2>1. stack' = rest
    BY <1>2, SleepParts, StackSet DEF unlock
  <2> QED BY <1>2, <2>1 DEF SleepKept
<1> QED BY <1>1, <1>2

\* reschedule() and unlock_reschedule() leave it in unlock_inner().
LEMMA InnerTop ==
    ASSUME SleepInv, NEW n, NEW rest \in Seq(Frame),
           SetStack(<<unlock_inner(n)>> \o rest), Sane(k'), current' = current
    PROVE  SleepKept
<1> DEFINE s == <<unlock_inner(n)>> \o rest
<1>1. stack' = s
  BY SleepParts, StackSet
<1>2. Head(s) = unlock_inner(n)
  OBVIOUS
<1> HIDE DEF s
<1> QED BY <1>1, <1>2 DEF SleepKept, RestsAwake, unlock_inner

\* So does going from one place in it to another.
LEMMA GotoTop ==
    ASSUME SleepInv, NEW pc, pc \notin {"timed", "delayed", "woken"}, Goto(pc),
           Sane(k'), current' = current
    PROVE  SleepKept
<1> DEFINE f == [pc |-> pc, new_lock |-> new_lock]
           s == <<f>> \o Tail(stack)
<1>1. stack' = s
  BY SleepParts, StackSet DEF Goto
<1>2. Head(s) = f /\ f.pc = pc
  OBVIOUS
<1> HIDE DEF s, f
<1> QED BY <1>1, <1>2 DEF SleepKept, RestsAwake

\* The calls that put nothing but unlock_inner() on the stack.
LEMMA PlainCallTop ==
    ASSUME SleepInv, NEW body, Call(body, <<>>), Sane(body),
           body.current_thread = k.current_thread
    PROVE  SleepKept
<1>1. unlock(sched_lock + 1, <<>>) /\ Sane(k') /\ current' = current
  BY DEF Call, current
<1>2. RestsAwake(k', <<>>, current) /\ <<>> \in Seq(Frame)
  BY DEF RestsAwake
<1> QED BY <1>1, <1>2, UnlockTop

\* The frames a sleep leaves are stacks.
LEMMA OneRest == ASSUME NEW pc \in Places PROVE <<At_(pc)>> \in Seq(Frame) /\ Head(<<At_(pc)>>).pc = pc
<1>1. At_(pc) \in Frame /\ At_(pc).pc = pc
  BY DEF At_, Frame
<1> HIDE DEF At_
<1> QED BY <1>1

\* The sleeping calls.
LEMMA SleepCallsTop ==
    ASSUME SleepInv, CallCountedSleep \/ CallTimedSleep \/ CallDelay
    PROVE  SleepKept
<1>1. /\ InUserCode /\ Runs(k, current)
  BY DEF CallCountedSleep, CallTimedSleep, CallDelay, MayCall, Runs
<1>2. /\ IInv /\ Good(k) /\ Sane(k) /\ k \in KernelState
      /\ current \in Threads \ {Idle} /\ current = k.current_thread
      /\ k.current_thread # Idle /\ k.suspend_count[current] = 0
  BY <1>1, SleepParts, UserCode
<1>3. /\ <<At_("woken")>> \in Seq(Frame) /\ <<At_("timed")>> \in Seq(Frame)
      /\ <<At_("delayed")>> \in Seq(Frame)
      /\ Head(<<At_("woken")>>).pc = "woken"
  BY OneRest DEF Places
<1>4. ASSUME NEW body, k' = body, Sane(body), body.suspend_count = k.suspend_count,
             body.current_thread = k.current_thread,
             unlock(sched_lock + 1, <<At_("woken")>>)
      PROVE  SleepKept
  <2>1. current' = current /\ Sane(k') /\ k'.suspend_count[current] = 0
    BY <1>2, <1>4 DEF current
  <2>2. RestsAwake(k', <<At_("woken")>>, current)
    BY <1>3, <2>1 DEF RestsAwake
  <2> QED BY <1>3, <1>4, <2>1, <2>2, UnlockTop
<1> DEFINE c == k.current_thread
<1>5. /\ Sane(consume_wakeup(k)) /\ consume_wakeup(k).suspend_count = k.suspend_count
      /\ consume_wakeup(k).current_thread = c
  BY <1>2, SaneCounts DEF consume_wakeup, KernelState
<1>6. /\ \A k2 \in {delay(k), counted_sleep(k),
                    timed_counted_sleep(set_timer(k, "TIMEOUT"))} :
           Sane(k2) /\ k2.suspend_count = k.suspend_count
      /\ \A k2 \in {delay(k), set_timer(k, "TIMEOUT")} :
           Sane(alarm(k2, c)) /\ alarm(k2, c).suspend_count = k.suspend_count
  BY <1>2, SaneSleeps
<1>7. /\ delay(k).current_thread = c /\ alarm(delay(k), c).current_thread = c
      /\ counted_sleep(k).current_thread = c
      /\ alarm(set_timer(k, "TIMEOUT"), c).current_thread = c
      /\ timed_counted_sleep(set_timer(k, "TIMEOUT")).current_thread = c
  BY <1>2, Sleeps DEF Step
<1>8. CASE CallCountedSleep
  <2>1. unlock(sched_lock + 1, <<At_("woken")>>)
        /\ k' \in {consume_wakeup(k), counted_sleep(k)}
    BY <1>8 DEF CallCountedSleep, Call
  <2> QED BY <1>4, <1>5, <1>6, <1>7, <2>1
<1>9. CASE CallTimedSleep
  <2>1. CASE /\ k' \in {consume_wakeup(k), alarm(set_timer(k, "TIMEOUT"), current)}
             /\ unlock(sched_lock + 1, <<At_("woken")>>)
    BY <1>2, <1>4, <1>5, <1>6, <1>7, <2>1
  <2>2. CASE /\ k' = timed_counted_sleep(set_timer(k, "TIMEOUT"))
             /\ reschedule(sched_lock + 1, <<At_("timed")>>)
    <3>1. Sane(k') /\ current' = current
      BY <1>6, <1>7, <2>2 DEF current
    <3> QED BY <1>3, <2>2, <3>1, InnerTop DEF reschedule
  <2> QED BY <1>9, <2>1, <2>2 DEF CallTimedSleep
<1>10. CASE CallDelay
  <2>1. /\ sched_lock = 0 /\ unlock(sched_lock + 1, <<At_("delayed")>>)
        /\ k' \in {delay(k), alarm(delay(k), current)}
    BY <1>10 DEF CallDelay, Call
  <2>2. Sane(k') /\ current' = current /\ sched_lock + 1 = 1
    BY <1>2, <1>6, <1>7, <2>1 DEF current
  <2> QED BY <1>3, <2>1, <2>2, UnlockTop
<1> QED BY <1>8, <1>9, <1>10

\* Exiting keeps it where the thread is not suspended.
LEMMA ExitTop ==
    ASSUME SleepInv, NEW rest \in Seq(Frame), Exit(rest), current # Idle,
           k.suspend_count[current] = 0
    PROVE  SleepKept
<1>1. /\ k' = exit(k) /\ SetStack(<<unlock_inner(sched_lock + 1)>> \o (<<At_("dead")>> \o rest))
  BY DEF Exit, reschedule
<1>2. Good(k) /\ Sane(k) /\ current = k.current_thread
  BY SleepParts
<1>3. Sane(k') /\ current' = current
  BY <1>1, <1>2, SaneExit, Exit_ DEF Step, current
<1>4. <<At_("dead")>> \o rest \in Seq(Frame)
  <2>1. <<At_("dead")>> \in Seq(Frame)
    BY OneRest DEF Places
  <2> QED BY <2>1
<1> QED BY <1>1, <1>3, <1>4, InnerTop

\* Every call from a thread keeps it.
LEMMA ThreadCallTop == ASSUME SleepInv, ThreadCall PROVE SleepKept
<1>1. /\ IInv /\ Good(k) /\ Sane(k) /\ k \in KernelState /\ current \in Threads
      /\ current = k.current_thread
  BY SleepParts
<1>2. <<>> \in Seq(Frame) /\ \A kk, t : RestsAwake(kk, <<>>, t)
  BY DEF RestsAwake
<1>3. CASE scheduler_lock
  <2>1. k' = k /\ frames' = frames /\ stack = <<>>
    BY <1>3 DEF scheduler_lock, MayCall, InUserCode
  <2> QED BY <1>1, <1>2, <2>1 DEF SleepKept, stack, current
<1>4. CASE scheduler_unlock
  <2>1. unlock(sched_lock, <<>>) /\ k' = k
    BY <1>4 DEF scheduler_unlock
  <2> QED BY <1>1, <1>2, <2>1, UnlockTop DEF current
<1>5. CASE CallYield
  <2>1. k' = yield(k) /\ SetStack(<<unlock_inner((sched_lock + 1) - 1)>> \o <<>>)
    BY <1>5 DEF CallYield, unlock_reschedule
  <2>2. MinPriority \in Priorities
    BY PriorityAssumption DEF Priorities
  <2>3. Sane(k') /\ current' = current
    BY <1>1, <2>1, <2>2, SaneRotations, Yield DEF Step, current
  <2> QED BY <1>2, <2>1, <2>3, InnerTop
<1>6. CASE CallExit
  <2>1. Exit(<<>>) /\ current # Idle /\ Runs(k, current)
    BY <1>6 DEF CallExit, MayCall, InUserCode, Runs
  <2> QED BY <1>2, <2>1, SleepParts, ExitTop
<1>7. CASE CallNewDataIndex
  <2>1. k' = k /\ stack = <<>> /\ (frames' = frames \/ unlock(sched_lock + 1, <<>>))
    BY <1>7 DEF CallNewDataIndex, MayCall, InUserCode
  <2>2. CASE frames' = frames
    BY <1>1, <1>2, <2>1, <2>2 DEF SleepKept, stack, current
  <2>3. CASE unlock(sched_lock + 1, <<>>)
    BY <1>1, <1>2, <2>1, <2>3, UnlockTop DEF current
  <2> QED BY <2>1, <2>2, <2>3
<1>8. ASSUME NEW i \in Slots, CallFreeDataIndex(i) PROVE SleepKept
  <2>1. k' = k /\ unlock(sched_lock + 1, <<>>)
    BY <1>8 DEF CallFreeDataIndex
  <2> QED BY <1>1, <1>2, <2>1, UnlockTop DEF current
<1>9. ASSUME NEW p \in UserPriorities, CallRotateQueue(p) PROVE SleepKept
  <2>1. Call(rotate_queue(k, p), <<>>) /\ p \in Priorities
    BY <1>9, PriorityAssumption DEF CallRotateQueue, UserPriorities, Priorities
  <2>2. Sane(rotate_queue(k, p)) /\ rotate_queue(k, p).current_thread = k.current_thread
    BY <1>1, <2>1, SaneRotations, RotateQueue DEF Step
  <2> QED BY <2>1, <2>2, PlainCallTop
<1>10. ASSUME NEW t \in Users, NEW p \in UserPriorities, CallSetPriority(t, p)
       PROVE  SleepKept
  <2>1. Call(set_priority(k, t, p), <<>>) /\ p \in Priorities /\ t \in Threads \ {Idle}
    BY <1>10, PriorityAssumption DEF CallSetPriority, UserPriorities, Priorities, Users
  <2>2. Sane(set_priority(k, t, p)) /\ set_priority(k, t, p).current_thread = k.current_thread
    BY <1>1, <2>1, SanePriority, SetPriority DEF Step
  <2> QED BY <2>1, <2>2, PlainCallTop
<1>11. ASSUME NEW t \in Users,
              \/ CallCountedWake(t) \/ CallCancelWakeups(t) \/ CallSuspend(t)
              \/ CallResume(t) \/ CallForceResume(t) \/ CallRelease(t)
       PROVE  SleepKept
  <2>1. t \in Threads \ {Idle}
    BY DEF Users
  <2>2. \A b \in {counted_wake(k, t), cancel_counted_wake(k, t), suspend(k, t),
                  resume(k, t), force_resume(k, t), release(k, t)} :
          Sane(b) /\ b.current_thread = k.current_thread
    <3>1. /\ Sane(counted_wake(k, t)) /\ Sane(cancel_counted_wake(k, t))
          /\ Sane(suspend(k, t)) /\ Sane(resume(k, t)) /\ Sane(force_resume(k, t))
          /\ Sane(release(k, t))
      BY <1>1, <2>1, SaneCounts, SaneSuspend, SaneResume, SaneRelease
    <3>2. /\ Step(k, counted_wake(k, t)) /\ Step(k, cancel_counted_wake(k, t))
          /\ Step(k, suspend(k, t)) /\ Step(k, resume(k, t))
          /\ Step(k, force_resume(k, t)) /\ Step(k, release(k, t))
      BY <1>1, <2>1, CountedWake, Suspend, Resume, Release
    <3> QED BY <3>1, <3>2 DEF Step
  <2>3. \E b : Call(b, <<>>) /\ Sane(b) /\ b.current_thread = k.current_thread
    BY <1>11, <2>2 DEF CallCountedWake, CallCancelWakeups, CallSuspend, CallResume,
                       CallForceResume, CallRelease
  <2> QED BY <2>3, PlainCallTop
<1>12. ASSUME NEW t \in Users, CallKill(t) PROVE SleepKept
  <2>1. t \in Threads \ {Idle} /\ current # Idle /\ Runs(k, current)
    BY <1>12 DEF CallKill, MayCall, InUserCode, Users, Runs
  <2>2. CASE t = current
    <3>1. Exit(<<>>)
      BY <1>12, <2>2 DEF CallKill
    <3> QED BY <1>2, <2>1, <3>1, SleepParts, ExitTop
  <2>3. CASE t # current
    <3>1. Call(kill(k, t), <<>>)
      BY <1>12, <2>3 DEF CallKill
    <3>2. Sane(kill(k, t)) /\ kill(k, t).current_thread = k.current_thread
      BY <1>1, <2>1, SaneKill, Kill DEF Step
    <3> QED BY <3>1, <3>2, PlainCallTop
  <2> QED BY <2>2, <2>3
<1> QED BY <1>3, <1>4, <1>5, <1>6, <1>7, <1>8, <1>9, <1>10, <1>11, <1>12, SleepCallsTop
        DEF ThreadCall


\* The rest of a call keeps it: the timer is cleared by a thread that is awake.
LEMMA CallRestTop ==
    ASSUME SleepInv, TimedSleepDone \/ DelayDone \/ WakeCheck
    PROVE  SleepKept
<1>1. /\ IInv /\ Good(k) /\ Sane(k) /\ k \in KernelState /\ current \in Threads
      /\ current = k.current_thread /\ RestsAwake(k, stack, current)
      /\ Runs(k, current) => k.suspend_count[current] = 0
  BY SleepParts
<1>2. <<At_("woken")>> \in Seq(Frame) /\ Head(<<At_("woken")>>).pc = "woken"
  BY OneRest DEF Places
<1>3. CASE TimedSleepDone \/ DelayDone
  <2>1. /\ At("timed") \/ At("delayed")
        /\ k' = clear_timer(k, current)
        /\ \E held : unlock(held, <<At_("woken")>> \o Tail(stack))
    BY <1>3 DEF TimedSleepDone, DelayDone, Call
  <2>2. Tail(stack) = <<>> /\ Runs(k, current)
    BY <1>1, <2>1, AtTop DEF Exiting, RestsAwake
  <2>3. <<At_("woken")>> \o Tail(stack) = <<At_("woken")>>
    BY <2>2, AloneFrame
  <2>4. "SLEEPING" \notin k.state[current]
    BY <2>2 DEF Runs, RUNNING
  <2>5. Sane(k') /\ k'.suspend_count = k.suspend_count /\ current' = current
    <3>1. Step(k, clear_timer(k, current))
      BY <1>1, ReasonSteps, ReasonNames
    <3>2. Sane(clear_timer(k, current))
          /\ clear_timer(k, current).suspend_count = k.suspend_count
      BY <1>1, <2>4, SaneClear
    <3> QED BY <2>1, <3>1, <3>2 DEF Step, current
  <2>6. RestsAwake(k', <<At_("woken")>>, current)
    BY <1>1, <1>2, <2>2, <2>5 DEF RestsAwake
  <2>7. PICK held : unlock(held, <<At_("woken")>> \o Tail(stack))
    BY <2>1
  <2>8. unlock(held, <<At_("woken")>>)
    BY <2>3, <2>7
  <2> QED BY <1>2, <2>5, <2>6, <2>8, UnlockTop
<1>4. CASE WakeCheck
  <2>1. At("woken") /\ (Exit(Tail(stack)) \/ (Return /\ k' = k))
    BY <1>4 DEF WakeCheck
  <2>2. /\ Tail(stack) = <<>> /\ <<>> \in Seq(Frame)
        /\ k.suspend_count[current] = 0 /\ FrameOK(Head(stack), nest[current], current)
        /\ Head(stack).pc = "woken"
    BY <1>1, <2>1, AtTop DEF Exiting, RestsAwake
  <2>3. CASE Exit(Tail(stack))
    <3>1. current # Idle /\ Exit(<<>>)
      BY <2>2, <2>3 DEF FrameOK
    <3> QED BY <2>2, <3>1, ExitTop
  <2>4. CASE Return /\ k' = k
    <3>1. SetStack(<<>>) /\ current' = current
      BY <2>2, <2>4 DEF Return, current
    <3>2. stack' = <<>>
      BY <1>1, <3>1, StackSet
    <3> QED BY <1>1, <2>4, <3>2 DEF SleepKept, RestsAwake
  <2> QED BY <2>1, <2>3, <2>4
<1> QED BY <1>3, <1>4

\* A thread goes back to the frame below unlock_inner() only if it runs.
LEMMA ReturnTop ==
    ASSUME SleepInv, Return, k' = k, Runs(k, current)
    PROVE  SleepKept
<1>1. IInv /\ Sane(k) /\ k \in KernelState /\ current \in Threads
  BY SleepParts
<1>2. current' = current /\ stack' = Tail(stack)
  BY <1>1, StackSet DEF Return, current
<1>3. RestsAwake(k, Tail(stack), current)
  BY <1>1, RunsUnsuspended
<1> QED BY <1>1, <1>2, <1>3 DEF SleepKept

\* The steps of unlock_inner() keep it.
LEMMA InnerSteps ==
    ASSUME SleepInv,
           \/ CallPendingDSRs \/ NoPendingDSRs \/ DSRsDone \/ KeepRunning
           \/ LeaveLocked \/ ZeroLock \/ Recheck \/ Unwind
    PROVE  SleepKept
<1>1. /\ IInv /\ Sane(k) /\ k \in KernelState /\ current \in Threads
      /\ RestsAwake(k, stack, current) /\ stack \in Seq(Frame)
  BY SleepParts, Types
<1>2. ASSUME NEW pc, pc \in {"dsrs", "resched", "recheck", "loop", "finish"},
             Goto(pc), k' = k
      PROVE  SleepKept
  BY <1>1, <1>2, GotoTop DEF current
<1>3. CASE CallPendingDSRs \/ NoPendingDSRs \/ DSRsDone \/ ZeroLock
  <2>1. k' = k /\ \E pc \in {"dsrs", "resched", "recheck"} : Goto(pc)
    BY <1>3 DEF CallPendingDSRs, NoPendingDSRs, DSRsDone, ZeroLock
  <2> QED BY <1>2, <2>1
<1>4. CASE KeepRunning
  <2>1. Goto("finish") /\ k' = [k EXCEPT !.need_reschedule = ~NeedSwitch /\ @]
    BY <1>4 DEF KeepRunning
  <2>2. SameSleep(k, k') /\ k'.current_thread = k.current_thread
    BY <1>1, <2>1 DEF SameSleep, KernelState
  <2>3. Sane(k') /\ current' = current
    BY <1>1, <2>2, SaneSame DEF current
  <2> QED BY <2>1, <2>3, GotoTop
<1>5. CASE LeaveLocked
  <2>1. At("finish") /\ Return /\ k' = k
    BY <1>5 DEF LeaveLocked
  <2>2. Runs(k, current)
    BY <1>1, <2>1 DEF IInv, Settled, Settling, At
  <2> QED BY <2>1, <2>2, ReturnTop
<1>6. CASE Recheck
  <2>1. At("recheck") /\ k' = k /\ (Goto("loop") \/ Return)
    BY <1>6 DEF Recheck
  <2>2. Runs(k, current)
    BY <1>1, <2>1 DEF IInv, Settled, Settling, At
  <2> QED BY <1>2, <2>1, <2>2, ReturnTop
<1>7. CASE Unwind
  <2>1. k' = k /\ ((sched_lock = 0 /\ Return) \/ unlock(sched_lock, stack))
    BY <1>7 DEF Unwind
  <2>2. CASE sched_lock = 0 /\ Return
    <3>1. Runs(k, current)
      BY <1>1, <2>2 DEF IInv, Settled, Settling
    <3> QED BY <2>1, <2>2, <3>1, ReturnTop
  <2>3. CASE unlock(sched_lock, stack)
    BY <1>1, <2>1, <2>3, UnlockTop DEF current
  <2> QED BY <2>1, <2>2, <2>3
<1> QED BY <1>3, <1>4, <1>5, <1>6, <1>7

\* A switch keeps it: the next thread finishes an iteration, or starts.
LEMMA SwitchTop ==
    ASSUME SleepInv, NEW next \in Threads, SwitchTo(next) PROVE SleepKept
<1> DEFINE sv    == timeslice_save(k, current)
           saved == [sv EXCEPT !.current_thread = next, !.need_reschedule = FALSE]
           fresh == Head(frames[next]).pc = "entry"
           r     == IF fresh THEN timeslice_reset(saved, next) ELSE saved
           old == frames[next]
           goes_on == [Head(old) EXCEPT
                         !.pc = IF Head(old).pc = "entry" THEN "unwind" ELSE "finish"]
           in  == <<goes_on>> \o Tail(old)
<1>1. /\ IInv /\ Sane(k) /\ k \in KernelState /\ current \in Threads
      /\ frames \in [Threads -> Seq(Frame)]
  BY SleepParts, Types
<1>2. k' = timeslice_restore(r, next) /\ next # current
  BY DEF SwitchTo
<1>3. Sane(k')
  <2>1. sv \in KernelState /\ SameSleep(k, sv)
    BY <1>1, SaveRestore, QueuesSleep DEF Quietly
  <2> HIDE DEF sv
  <2>2. saved \in KernelState /\ SameSleep(sv, saved)
    BY <2>1 DEF KernelState, SameSleep
  <2> HIDE DEF saved
  <2>3. r \in KernelState /\ SameSleep(saved, r)
    BY <2>2, TimesliceReset, QueuesSleep DEF Quietly, SameSleep
  <2> HIDE DEF r
  <2>4. SameSleep(r, k')
    BY <1>2, <2>3, QueuesSleep
  <2>5. SameSleep(k, k')
    BY <2>1, <2>2, <2>3, <2>4 DEF SameSleep
  <2> QED BY <1>1, <2>5, SaneSame
<1>4. current' = next
  BY <1>1, SwitchKernel DEF current
<1>5. frames' = [frames EXCEPT
          ![current] = <<[Head(frames[current]) EXCEPT !.pc = "switched"]>> \o Tail(frames[current]),
          ![next] = in]
  BY DEF SwitchTo
<1>6. old # <<>> /\ old \in Seq(Frame)
  BY <1>1, <1>2 DEF IInv, SwitchedOut
<1>7. Head(old) \in Frame
  BY <1>6
<1>8. goes_on.pc \in {"unwind", "finish"}
  BY <1>7 DEF Frame
<1>9. Head(in) = goes_on
  OBVIOUS
<1> HIDE DEF in, goes_on, old
<1>10. stack' = in
  BY <1>1, <1>2, <1>4, <1>5 DEF stack
<1>11. RestsAwake(k', stack', current')
  BY <1>8, <1>9, <1>10 DEF RestsAwake
<1> QED BY <1>3, <1>11 DEF SleepKept

\* Interrupts keep it wherever they hit.
LEMMA InterruptTop ==
    ASSUME SleepInv, InterruptEnd \/ \E i \in Sources : Interrupt(i)
    PROVE  SleepKept
<1>1. /\ IInv /\ Sane(k) /\ current \in Threads /\ stack \in Seq(Frame)
      /\ RestsAwake(k, stack, current)
  BY SleepParts, Types
<1>2. CASE InterruptEnd
  <2>1. At("isrend") /\ unlock(sched_lock + 1, Tail(stack)) /\ k' = k
    BY <1>2 DEF InterruptEnd
  <2>2. sched_lock = 0
    BY <1>1, <2>1, AtTop, RestingFits DEF Fits
  <2>3. sched_lock + 1 = 1 /\ Tail(stack) \in Seq(Frame)
    BY <1>1, <2>1, <2>2, AtTop
  <2> QED BY <1>1, <2>1, <2>3, UnlockTop DEF current
<1>3. ASSUME NEW i \in Sources, Interrupt(i) PROVE SleepKept
  <2>1. k' = k /\ (SetStack(<<At_("isrend")>> \o stack) \/ frames' = frames)
    BY <1>3 DEF Interrupt
  <2>2. CASE frames' = frames
    BY <1>1, <2>1, <2>2 DEF SleepKept, stack, current
  <2>3. CASE SetStack(<<At_("isrend")>> \o stack)
    <3> DEFINE s == <<At_("isrend")>> \o stack
    <3>1. stack' = s
      BY <1>1, <2>1, <2>3, StackSet DEF current
    <3>2. Head(s) = At_("isrend")
      BY <1>1
    <3> HIDE DEF s
    <3>3. RestsAwake(k', stack', current')
      BY <3>1, <3>2 DEF RestsAwake, At_
    <3> QED BY <1>1, <2>1, <3>3 DEF SleepKept
  <2> QED BY <2>1, <2>2, <2>3
<1> QED BY <1>2, <1>3

\* DSRs keep it: they only run inside unlock_inner().
LEMMA DSRsTop == ASSUME SleepInv, DSRs PROVE SleepKept
<1>1. /\ IInv /\ Good(k) /\ Sane(k) /\ k \in KernelState
  BY SleepParts
<1>2. ASSUME At("dsrs"), frames' = frames, Sane(k'),
             k'.current_thread = k.current_thread
      PROVE  SleepKept
  <2>1. stack' = stack /\ Head(stack).pc = "dsrs"
    BY <1>2 DEF stack, current, At
  <2> QED BY <1>2, <2>1 DEF SleepKept, RestsAwake
<1>3. ASSUME NEW i \in Devices, DeviceDSR(i) PROVE SleepKept
  <2>1. At("dsrs") /\ frames' = frames
        /\ (k' = k \/ \E c \in DsrCalls, t \in Users : k' = DsrBody(c, t))
    BY <1>3 DEF DeviceDSR, RunningDSR
  <2>2. CASE k' = k
    BY <1>1, <1>2, <2>1, <2>2
  <2>3. ASSUME NEW c \in DsrCalls, NEW t \in Users, k' = DsrBody(c, t) PROVE SleepKept
    <3>1. t \in Threads \ {Idle}
      BY DEF Users
    <3>2. k' \in {counted_wake(k, t), suspend(k, t), resume(k, t), release(k, t)}
      BY <2>3, DsrCallsAssumption DEF DsrBody
    <3>3. /\ Sane(counted_wake(k, t)) /\ Sane(suspend(k, t))
          /\ Sane(resume(k, t)) /\ Sane(release(k, t))
      BY <1>1, <3>1, SaneCounts, SaneSuspend, SaneResume, SaneRelease
    <3>4. /\ Step(k, counted_wake(k, t)) /\ Step(k, suspend(k, t))
          /\ Step(k, resume(k, t)) /\ Step(k, release(k, t))
      BY <1>1, <3>1, CountedWake, Suspend, Resume, Release
    <3>5. Sane(k') /\ Step(k, k')
      BY <3>2, <3>3, <3>4
    <3> QED BY <1>2, <2>1, <3>5 DEF Step
  <2> QED BY <2>1, <2>2, <2>3
<1>4. ASSUME NEW t \in Users, ClockAlarm(t) PROVE SleepKept
  <2>1. At("dsrs") /\ frames' = frames /\ k' = alarm(k, t) /\ t \in Threads \ {Idle}
    BY <1>4 DEF ClockAlarm, RunningDSR, Users
  <2>2. Sane(k') /\ Step(k, k')
    BY <1>1, <2>1, SaneAlarm, Alarm DEF Sane, SaneAt
  <2> QED BY <1>2, <2>1, <2>2 DEF Step
<1>5. ASSUME ClockTimeslice PROVE SleepKept
  <2>1. At("dsrs") /\ frames' = frames /\ k' = timeslice(k)
    BY <1>5 DEF ClockTimeslice, RunningDSR
  <2>2. MinPriority \in Priorities
    BY PriorityAssumption DEF Priorities
  <2>3. Sane(k') /\ Step(k, k')
    BY <1>1, <2>1, <2>2, SaneRotations, Timeslice
  <2> QED BY <1>2, <2>1, <2>3 DEF Step
<1> QED BY <1>3, <1>4, <1>5 DEF DSRs

\* It holds when the scheduler starts.
LEMMA SaneInit == Init => SleepInv
<1> SUFFICES ASSUME Init PROVE SleepInv
  OBVIOUS
<1> DEFINE c     == constructed(InitPriority)
           built == initialized(InitPriority)
           ready == resume(built, Main)
           first == schedule(ready)
           sw    == switched_to(ready, first)
           re    == timeslice_reset(sw, first)
<1>1. /\ k = timeslice_restore(re, first)
      /\ frames = [t \in Threads |-> <<At_(IF t = first THEN "unwind" ELSE "entry")>>]
  BY DEF Init, switched_to
<1>2. IInv
  BY InitIInv
<1>3. Sane(built) /\ Good(built) /\ built \in KernelState
  <2>1. c \in KernelState
    <3>1. Quantum \in 0..CountMod-1
      BY QuantumAssumption
    <3> QED BY <3>1, ThreadsAssumption, PriorityAssumption, InitPriorityAssumption
            DEF constructed, KernelState, StateBits, Reasons, Priorities
  <2>2. Sane(c)
    BY DEF Sane, SaneAt, constructed
  <2> HIDE DEF c
  <2>3. Sane(resume(c, Idle))
    BY <2>1, <2>2, SaneResume, ThreadsAssumption
  <2>4. Good(built)
    BY Initialized, InitPriorityAssumption
  <2> QED BY <2>3, <2>4, GoodType DEF initialized, c
<1> HIDE DEF built
<1>4. Sane(ready) /\ Good(ready) /\ ready \in KernelState
  BY <1>3, SaneResume, Resume, GoodType, MainAssumption DEF Users, Step
<1> HIDE DEF ready
<1>5. first \in Threads
  BY <1>4, Schedule DEF Good
<1>6. sw \in KernelState /\ SameSleep(ready, sw)
  <2>1. Good(sw)
    BY <1>4, SwitchedTo DEF Good
  <2>2. SameSleep(ready, sw)
    BY <1>4 DEF SameSleep, KernelState, switched_to
  <2> QED BY <2>1, <2>2, GoodType
<1> HIDE DEF sw, first
<1>7. re \in KernelState /\ SameSleep(sw, re)
  BY <1>5, <1>6, TimesliceReset, QueuesSleep DEF Quietly
<1> HIDE DEF re
<1>8. SameSleep(re, k)
  BY <1>1, <1>5, <1>7, QueuesSleep
<1>9. Sane(k)
  <2>1. SameSleep(ready, k)
    BY <1>6, <1>7, <1>8 DEF SameSleep
  <2> QED BY <1>4, <2>1, SaneSame
<1>10. RestsAwake(k, stack, current)
  <2>1. current \in Threads
    BY <1>2, Types
  <2>2. \E pc \in {"unwind", "entry"} : stack = <<At_(pc)>>
    BY <1>1, <2>1 DEF stack
  <2>3. PICK pc \in {"unwind", "entry"} : stack = <<At_(pc)>>
    BY <2>2
  <2>4. Head(stack).pc = pc
    BY <2>3, OneRest DEF Places
  <2> QED BY <2>4 DEF RestsAwake
<1> QED BY <1>2, <1>9, <1>10 DEF SleepInv

\* Every step keeps the second invariant.
LEMMA NextSleepInv == SleepInv /\ [Next]_vars => SleepInv'
<1> SUFFICES ASSUME SleepInv, [Next]_vars PROVE SleepInv'
  OBVIOUS
<1>1. IInv'
  BY NextIInv DEF SleepInv, Preserved
<1> SUFFICES SleepKept
  BY <1>1 DEF SleepInv, SleepKept
<1>2. CASE ThreadCall
  BY <1>2, ThreadCallTop
<1>3. CASE Unlocking
  BY <1>3, InnerSteps, SwitchTop, CallRestTop DEF Unlocking
<1>4. CASE InterruptEnd \/ \E i \in Sources : Interrupt(i)
  BY <1>4, InterruptTop
<1>5. CASE DSRs
  BY <1>5, DSRsTop
<1>6. CASE UNCHANGED vars
  <2>1. k' = k /\ frames' = frames
    BY <1>6 DEF vars
  <2> QED BY <2>1 DEF SleepKept, SleepInv, stack, current
<1> QED BY <1>2, <1>3, <1>4, <1>5, <1>6 DEF Next

\* The second invariant holds in every behaviour of the scheduler.
THEOREM SleepInvariance == Spec => []SleepInv
<1> QED BY SaneInit, NextSleepInv, PTL DEF Spec

\* The SUSPENDED bit and the suspend count agree, through kill, exit and every
\* order of suspends and resumes from threads and DSRs.
THEOREM SuspendsCorrect == Spec => []SuspendedIffCounted
<1>1. SleepInv => SuspendedIffCounted
  BY DEF SleepInv, Sane, SaneAt, SuspendedIffCounted
<1> QED BY <1>1, SleepInvariance, PTL

\* No interleaving of wakeups, releases, kills and expiring timers leaves a
\* thread in a delay or a timed sleep without its alarm.
THEOREM SleepersHaveTimers == Spec => []SleeperHasTimer
<1>1. SleepInv => SleeperHasTimer
  BY DEF SleepInv, Sane, SaneAt, SleeperHasTimer, Users
<1> QED BY <1>1, SleepInvariance, PTL


-----------------------------------------------------------------------------
(* Timeslices.  A switch saves the slice of the thread it leaves; a thread *)
(* that stopped at the end of its slice has none left, and must be given a *)
(* new one before it runs again.  That happens when it is made runnable    *)
(* after the switch, and is undone by the switch when it is made runnable  *)
(* before it: the theorems below assume that this never happens, and show  *)
(* that it does not where DSRs wake nobody and no timers are set.          *)

\* No thread that stopped running becomes runnable before it is switched out.
NotRewoken == ~Runs(k, current) /\ current' = current => ~Runs(k, current)'

\* unlock_inner() has called the clock's DSR and not yet looked for a thread.
Ending == \/ At("resched")
          \/ At("dsrs") /\ ~InList(dsrs, Clock)

\* Each thread that could be switched to has ticks left.
SharesLeft(kk) == \A t \in Threads \ {kk.current_thread} :
                     Runs(kk, t) => kk.timeslice_count[t] \in 1..Quantum

SliceInv ==
    /\ IInv
    /\ Distinct(dsr_list) /\ Distinct(dsrs)
    /\ k.slice \in 0..Quantum
    /\ k.slice = 0 => ~Runs(k, current) /\ Ending
    /\ SharesLeft(k)

\* The current thread's place in its queue.
HeadInv == IInv /\ Ahead(k)

\* Programs whose calls from threads set no timers.
Untimed == Calls \cap {"timed_sleep", "delay"} = {}

\* What a call from a thread does to slices, timers and queues.  delay() of a
\* time already past requeues its caller, and is the exception.
LEMMA CallEffect ==
    ASSUME IInv, ThreadCall
    PROVE  /\ stack = <<>>
           /\ SlicesKept(k, k') /\ (Untimed => TimersKept(k, k'))
           /\ \/ k' = k
              \/ /\ Runs(k, current)
                 /\ "delay" \notin Calls /\ Ahead(k) => Ahead(k')
<1> DEFINE Effect == /\ SlicesKept(k, k') /\ (Untimed => TimersKept(k, k'))
                     /\ \/ k' = k
                        \/ /\ Runs(k, current)
                           /\ "delay" \notin Calls /\ Ahead(k) => Ahead(k')
<1>1. Good(k) /\ k \in KernelState /\ current \in Threads /\ current = k.current_thread
  BY Types DEF current
<1>2. stack = <<>>
  BY DEF ThreadCall, scheduler_lock, scheduler_unlock, CallCountedSleep, CallTimedSleep,
         CallDelay, CallYield, CallExit, CallNewDataIndex, CallRotateQueue,
         CallFreeDataIndex, CallCountedWake, CallCancelWakeups, CallSuspend, CallResume,
         CallForceResume, CallRelease, CallKill, CallSetPriority, MayCall, InUserCode
<1> SUFFICES Effect
  BY <1>2 DEF Effect
<1>3. ASSUME k' = k PROVE Effect
  BY <1>3, SameRegular DEF SameSlices, Regular
<1>4. ASSUME NEW c, MayCall(c) PROVE Runs(k, current) /\ k.current_thread # Idle /\ c \in Calls
  BY <1>1, <1>4 DEF MayCall, InUserCode, Runs
<1>5. ASSUME Runs(k, current), Regular(k, k'), Leads(k, k') PROVE Effect
  BY <1>1, <1>5, LeadsAhead DEF Regular, SlicesKept
<1>6. CASE scheduler_lock \/ scheduler_unlock \/ CallNewDataIndex
           \/ \E i \in Slots : CallFreeDataIndex(i)
  BY <1>3, <1>6 DEF scheduler_lock, scheduler_unlock, CallNewDataIndex, CallFreeDataIndex
<1>7. CASE CallCountedSleep
  <2>1. MayCall("counted_sleep") /\ k' \in {counted_sleep(k), consume_wakeup(k)}
    BY <1>7 DEF CallCountedSleep, Call
  <2> QED BY <1>1, <1>4, <1>5, <2>1, SleepingRegular, SleepingHead
<1>8. CASE CallTimedSleep
  <2>1. /\ MayCall("timed_sleep")
        /\ k' \in {consume_wakeup(k), alarm(set_timer(k, "TIMEOUT"), current),
                   timed_counted_sleep(set_timer(k, "TIMEOUT"))}
    BY <1>8 DEF CallTimedSleep
  <2>2. ~Untimed /\ Runs(k, current) /\ k.current_thread # Idle
    BY <1>4, <2>1 DEF Untimed
  <2>3. SlicesKept(k, k') /\ Leads(k, k')
    BY <1>1, <2>1, <2>2, SleepingRegular, SleepingHead DEF Regular
  <2> QED BY <1>1, <2>2, <2>3, LeadsAhead DEF SlicesKept
<1>9. CASE CallDelay
  <2>1. MayCall("delay") /\ k' \in {delay(k), alarm(delay(k), current)}
    BY <1>9 DEF CallDelay, Call
  <2>2. ~Untimed /\ Runs(k, current) /\ k.current_thread # Idle /\ "delay" \in Calls
    BY <1>4, <2>1 DEF Untimed
  <2>3. SlicesKept(k, k')
    BY <1>1, <2>1, <2>2, SleepingRegular
  <2> QED BY <2>2, <2>3
<1>10. CASE CallYield
  <2>1. MayCall("yield") /\ k' = yield(k)
    BY <1>10 DEF CallYield
  <2>2. MinPriority \in Priorities
    BY PriorityAssumption DEF Priorities
  <2> QED BY <1>1, <1>4, <2>1, <2>2, RotatingRegular, YieldAhead DEF Regular
<1>11. ASSUME NEW c, MayCall(c), k' = exit(k) PROVE Effect
  BY <1>1, <1>4, <1>5, <1>11, ExitRegular, ExitStops DEF Leads
<1>12. CASE CallExit
  BY <1>11, <1>12 DEF CallExit, Exit
<1>13. ASSUME NEW p \in UserPriorities,
              CallRotateQueue(p) \/ \E t \in Users : CallSetPriority(t, p)
       PROVE  Effect
  <2>1. p \in Priorities
    BY PriorityAssumption DEF UserPriorities, Priorities
  <2>2. CASE CallRotateQueue(p)
    <3>1. MayCall("rotate_queue") /\ k' = rotate_queue(k, p)
      BY <2>2 DEF CallRotateQueue, Call
    <3> QED BY <1>1, <1>4, <1>5, <2>1, <3>1, RotatingRegular, YieldAhead
  <2>3. ASSUME NEW t \in Users, CallSetPriority(t, p) PROVE Effect
    <3>1. MayCall("set_priority") /\ k' = set_priority(k, t, p) /\ t \in Threads
      BY <2>3 DEF CallSetPriority, Call, Users
    <3> QED BY <1>1, <1>4, <1>5, <2>1, <3>1, PriorityRegular, PriorityHead DEF Leads
  <2> QED BY <1>13, <2>2, <2>3
<1>14. ASSUME NEW t \in Users, CallKill(t) PROVE Effect
  <2>1. MayCall("kill") /\ t \in Threads \ {Idle}
    BY <1>14 DEF CallKill, Users
  <2>2. CASE t = current
    BY <1>11, <1>14, <2>1, <2>2 DEF CallKill, Exit
  <2>3. CASE t # current
    <3>1. k' = kill(k, t)
      BY <1>14, <2>3 DEF CallKill, Call
    <3> QED BY <1>1, <1>4, <1>5, <2>1, <2>3, <3>1, KillRegular, KillHead DEF Leads
  <2> QED BY <2>2, <2>3
<1>15. ASSUME NEW t \in Users,
              \/ CallCountedWake(t) \/ CallCancelWakeups(t) \/ CallSuspend(t)
              \/ CallResume(t) \/ CallForceResume(t) \/ CallRelease(t)
       PROVE  Effect
  <2>1. /\ \E c : MayCall(c)
        /\ k' \in {counted_wake(k, t), cancel_counted_wake(k, t), suspend(k, t),
                   resume(k, t), force_resume(k, t), release(k, t)}
    BY <1>15 DEF CallCountedWake, CallCancelWakeups, CallSuspend, CallResume,
                 CallForceResume, CallRelease, Call
  <2>2. t \in Threads
    BY DEF Users
  <2>3. Regular(k, k') /\ Leads(k, k')
    BY <1>1, <2>1, <2>2, WakingRegular, SuspendingRegular, WakingHead, SuspendingHead
       DEF Leads
  <2> QED BY <1>4, <1>5, <2>1, <2>3
<1> HIDE DEF Effect
<1> QED
  BY <1>6, <1>7, <1>8, <1>9, <1>10, <1>12, <1>13, <1>14, <1>15 DEF ThreadCall

\* The rest of a call only stops timers, or the thread.
LEMMA RestEffect ==
    ASSUME IInv, TimedSleepDone \/ DelayDone \/ WakeCheck
    PROVE  /\ At("timed") \/ At("delayed") \/ At("woken")
           /\ Regular(k, k') /\ Leads(k, k')
           /\ Runs(k', current) => Runs(k, current)
<1>1. Good(k) /\ k \in KernelState /\ current \in Threads /\ current = k.current_thread
  BY Types DEF current
<1>2. CASE TimedSleepDone \/ DelayDone
  <2>1. (At("timed") \/ At("delayed")) /\ k' = clear_timer(k, current)
    BY <1>2 DEF TimedSleepDone, DelayDone, Call
  <2> QED BY <1>1, <2>1, ClearSlices, FieldsHead, SameKeepsHead DEF Leads, Runs
<1>3. CASE WakeCheck
  <2>1. At("woken") /\ k' \in {k, exit(k)}
    BY <1>3 DEF WakeCheck, Exit
  <2>2. HeadKept(k, k) /\ Regular(k, k)
    BY SameKeepsHead, SameRegular DEF SameHead, SameSlices
  <2> QED BY <1>1, <2>1, <2>2, ExitRegular, ExitStops DEF Leads
<1> QED BY <1>2, <1>3

\* What the DSRs do, but for the clock's timeslice().
LEMMA DsrEffect ==
    ASSUME IInv, \/ \E i \in Devices : DeviceDSR(i)
                 \/ \E t \in Users : ClockAlarm(t)
    PROVE  Regular(k, k') /\ Leads(k, k')
<1>1. Good(k) /\ k \in KernelState /\ current \in Threads /\ current = k.current_thread
  BY Types DEF current
<1>2. HeadKept(k, k) /\ Regular(k, k)
  BY SameKeepsHead, SameRegular DEF SameHead, SameSlices
<1>3. ASSUME NEW t \in Users
      PROVE  \A k2 \in {counted_wake(k, t), suspend(k, t), resume(k, t), release(k, t),
                        alarm(k, t)} : Regular(k, k2) /\ Leads(k, k2)
  BY <1>1, WakingRegular, SuspendingRegular, WakingHead, SuspendingHead DEF Leads, Users
<1>4. ASSUME NEW i \in Devices, DeviceDSR(i) PROVE Regular(k, k') /\ Leads(k, k')
  <2>1. CASE k' = k
    BY <1>2, <2>1 DEF Leads
  <2>2. ASSUME NEW c \in DsrCalls, NEW t \in Users, k' = DsrBody(c, t)
        PROVE  Regular(k, k') /\ Leads(k, k')
    <3>1. k' \in {counted_wake(k, t), suspend(k, t), resume(k, t), release(k, t)}
      BY <2>2, DsrCallsAssumption DEF DsrBody
    <3> QED BY <1>3, <3>1
  <2> QED BY <1>4, <2>1, <2>2 DEF DeviceDSR
<1>5. ASSUME NEW t \in Users, ClockAlarm(t) PROVE Regular(k, k') /\ Leads(k, k')
  BY <1>3, <1>5 DEF ClockAlarm
<1> QED BY <1>4, <1>5

\* The other steps of unlock_inner(), and the interrupts, leave the kernel
\* state alone.
LEMMA QuietSteps ==
    ASSUME \/ CallPendingDSRs \/ NoPendingDSRs \/ DSRsDone
           \/ LeaveLocked \/ ZeroLock \/ Recheck \/ Unwind
           \/ InterruptEnd \/ (\E i \in Sources : Interrupt(i)) \/ UNCHANGED vars
    PROVE  k' = k
BY DEF CallPendingDSRs, NoPendingDSRs, DSRsDone, LeaveLocked, ZeroLock, Recheck, Unwind,
       InterruptEnd, Interrupt, vars

\* No DSR is twice on a list: it is posted only when it is on none.
LEMMA ListsDistinct ==
    ASSUME IInv, Distinct(dsr_list), Distinct(dsrs), [Next]_vars
    PROVE  Distinct(dsr_list') /\ Distinct(dsrs')
<1>1. dsr_list \in Seq(Sources) /\ dsrs \in Seq(Sources)
  BY Types
<1>2. CASE UNCHANGED <<dsr_list, dsrs>>
  BY <1>2
<1>3. CASE CallPendingDSRs
  BY <1>3 DEF CallPendingDSRs, Distinct
<1>4. ASSUME dsrs # <<>>, dsrs' = Tail(dsrs), dsr_list' = dsr_list
      PROVE  Distinct(dsr_list') /\ Distinct(dsrs')
  BY <1>1, <1>4 DEF Distinct
<1>5. ASSUME NEW i \in Sources, Interrupt(i)
      PROVE  Distinct(dsr_list') /\ Distinct(dsrs')
  <2>1. /\ dsrs' = dsrs
        /\ \/ dsr_list' = dsr_list
           \/ ~InList(dsr_list, i) /\ dsr_list' = Append(dsr_list, i)
    BY <1>5 DEF Interrupt
  <2>2. ~InList(dsr_list, i) => Distinct(Append(dsr_list, i))
    BY <1>1, AppendFacts DEF InList, holds
  <2> QED BY <2>1, <2>2
<1>6. CASE ThreadCall
  <2>1. UNCHANGED <<dsr_list, dsrs>>
    BY <1>6 DEF ThreadCall, scheduler_lock, scheduler_unlock, CallCountedSleep,
         CallTimedSleep, CallDelay, CallYield, CallExit, CallNewDataIndex,
         CallRotateQueue, CallFreeDataIndex, CallCountedWake, CallCancelWakeups,
         CallSuspend, CallResume, CallForceResume, CallRelease, CallKill,
         CallSetPriority, Call, Exit
  <2> QED BY <1>2, <2>1
<1>7. CASE Unlocking /\ ~CallPendingDSRs
  <2>1. UNCHANGED <<dsr_list, dsrs>>
    BY <1>7 DEF Unlocking, NoPendingDSRs, DSRsDone, KeepRunning, SwitchTo, LeaveLocked,
         ZeroLock, Recheck, Unwind, TimedSleepDone, DelayDone, WakeCheck, Call, Exit
  <2> QED BY <1>2, <2>1
<1>8. CASE DSRs
  <2>1. ASSUME NEW i \in Devices, DeviceDSR(i)
        PROVE  dsrs # <<>> /\ dsrs' = Tail(dsrs) /\ dsr_list' = dsr_list
    BY <2>1 DEF DeviceDSR, RunningDSR
  <2>2. ASSUME NEW t \in Users, ClockAlarm(t) PROVE UNCHANGED <<dsr_list, dsrs>>
    BY <2>2 DEF ClockAlarm
  <2>3. CASE ClockTimeslice
    BY <1>4, <2>3 DEF ClockTimeslice, RunningDSR
  <2> QED BY <1>2, <1>4, <1>8, <2>1, <2>2, <2>3 DEF DSRs
<1>9. CASE InterruptEnd \/ UNCHANGED vars
  BY <1>2, <1>9 DEF InterruptEnd, vars
<1> QED BY <1>3, <1>5, <1>6, <1>7, <1>8, <1>9 DEF Next

\* The CPU's slice is used up only at the end of a round of DSRs.
LEMMA SliceLeft ==
    ASSUME SliceInv, ~Ending
    PROVE  k.slice \in 1..Quantum
BY QuantumAssumption DEF SliceInv

\* A step that leaves the slices alone, but for new ones.
LEMMA KeptSlices ==
    ASSUME SliceInv, IInv', Distinct(dsr_list'), Distinct(dsrs'), NotRewoken,
           SlicesKept(k, k'), k.slice = 0 => Ending'
    PROVE  SliceInv'
<1>1. k'.slice = k.slice /\ k'.current_thread = k.current_thread
  BY DEF SlicesKept
<1>2. k.slice \in 0..Quantum /\ Quantum \in 1..Quantum
  BY QuantumAssumption DEF SliceInv
<1>3. k'.slice = 0 => ~Runs(k', current')
  BY <1>1 DEF SliceInv, NotRewoken, current
<1>4. SharesLeft(k')
  <2> SUFFICES ASSUME NEW t \in Threads \ {k.current_thread}, Runs(k', t)
               PROVE  k'.timeslice_count[t] \in 1..Quantum
    BY <1>1 DEF SharesLeft
  <2>1. CASE k'.timeslice_count[t] = Quantum
    BY <1>2, <2>1
  <2>2. CASE k'.timeslice_count[t] # Quantum
    BY <2>2 DEF SlicesKept, SliceInv, SharesLeft
  <2> QED BY <2>1, <2>2
<1> QED BY <1>1, <1>2, <1>3, <1>4 DEF SliceInv

\* Where a step of unlock_inner() goes.
LEMMA EndingGoto ==
    ASSUME IInv, Goto("resched"), k' = k
    PROVE  Ending'
<1>1. current \in Threads /\ stack \in Seq(Frame)
  BY Types
<1>2. stack' = <<[pc |-> "resched", new_lock |-> new_lock]>> \o Tail(stack)
  BY <1>1, StackSet DEF Goto, current
<1>3. stack' # <<>> /\ Head(stack').pc = "resched"
  BY <1>2
<1> QED BY <1>3 DEF Ending, At

\* A thread at another place is not at the end of a round of DSRs.
LEMMA NotEnding ==
    ASSUME \/ stack = <<>>
           \/ \E pc \in Places \ {"resched", "dsrs"} : At(pc)
    PROVE  ~Ending
BY DEF Ending, At

\* A round of DSRs goes on, without the clock's.
LEMMA EndingStays ==
    ASSUME IInv, Ending, k'.current_thread = k.current_thread, frames' = frames,
           dsrs' = dsrs \/ (dsrs # <<>> /\ dsrs' = Tail(dsrs))
    PROVE  Ending'
<1>1. stack' = stack
  BY DEF stack, current
<1>2. dsrs \in Seq(Sources)
  BY Types
<1>3. ~InList(dsrs, Clock) => ~InList(dsrs', Clock)
  BY <1>2 DEF InList
<1> QED BY <1>1, <1>3 DEF Ending, At

\* A switch saves what is left of one slice and restores another.
LEMMA SwitchSlices ==
    ASSUME SliceInv, NEW next \in Threads, SwitchTo(next)
    PROVE  k'.slice \in 1..Quantum /\ SharesLeft(k')
<1> DEFINE sv    == timeslice_save(k, current)
           saved == [sv EXCEPT !.current_thread = next, !.need_reschedule = FALSE]
           fresh == Head(frames[next]).pc = "entry"
           r     == IF fresh THEN timeslice_reset(saved, next) ELSE saved
<1>1. /\ next = schedule(k) /\ next # current /\ k' = timeslice_restore(r, next)
  BY DEF SwitchTo
<1>2. /\ k \in KernelState /\ current \in Threads /\ Good(k) /\ current = k.current_thread
      /\ k.slice \in 0..Quantum /\ Quantum \in 1..Quantum
      /\ k.slice = 0 => ~Runs(k, current)
      /\ SharesLeft(k) /\ k.slice \in 0..CountMod-1
  BY Types, SliceTypes, QuantumAssumption DEF SliceInv, current
<1>3. Runs(k, next)
  BY <1>1, <1>2, Schedule DEF Good
<1>4. k.timeslice_count[next] \in 1..Quantum
  BY <1>1, <1>2, <1>3 DEF SharesLeft
<1>5. sv \in KernelState /\ sv.state = k.state
      /\ sv.timeslice_count = [k.timeslice_count EXCEPT ![current] = k.slice]
  <2>1. Quietly(k, sv)
    BY <1>2, SaveRestore
  <2> QED BY <1>2, <2>1 DEF Quietly, KernelState, timeslice_save
<1> HIDE DEF sv
<1>6. /\ saved \in KernelState /\ saved.current_thread = next /\ saved.state = k.state
      /\ saved.timeslice_count = [k.timeslice_count EXCEPT ![current] = k.slice]
  BY <1>5 DEF KernelState
<1> HIDE DEF saved
<1>7. /\ r \in KernelState /\ r.current_thread = next /\ r.state = k.state
      /\ \/ r.timeslice_count = saved.timeslice_count
         \/ r.timeslice_count = [saved.timeslice_count EXCEPT ![next] = Quantum]
  <2>1. r \in KernelState
    BY <1>6, TimesliceReset DEF Quietly
  <2>2. /\ r.current_thread = next /\ r.state = k.state
        /\ \/ r.timeslice_count = saved.timeslice_count
           \/ r.timeslice_count = [saved.timeslice_count EXCEPT ![next] = Quantum]
    BY <1>6 DEF KernelState, timeslice_reset
  <2> QED BY <2>1, <2>2
<1> HIDE DEF r
<1>8. /\ r.timeslice_count[next] \in {k.timeslice_count[next], Quantum}
      /\ r.timeslice_count[current] = k.slice
      /\ \A t \in Threads \ {next, current} :
            r.timeslice_count[t] = k.timeslice_count[t]
  BY <1>1, <1>2, <1>6, <1>7, SliceTypes
<1>9. /\ k'.slice = r.timeslice_count[next] /\ k'.current_thread = next
      /\ k'.state = k.state /\ k'.timeslice_count = r.timeslice_count
  BY <1>1, <1>7 DEF KernelState, timeslice_restore
<1>10. k'.slice \in 1..Quantum
  BY <1>2, <1>4, <1>8, <1>9
<1>11. SharesLeft(k')
  <2> SUFFICES ASSUME NEW t \in Threads \ {next}, Runs(k, t)
               PROVE  r.timeslice_count[t] \in 1..Quantum
    BY <1>9 DEF SharesLeft, Runs
  <2>1. CASE t = current
    BY <1>2, <1>8, <2>1
  <2>2. CASE t # current
    BY <1>2, <1>8, <2>2 DEF SharesLeft
  <2> QED BY <2>1, <2>2
<1> QED BY <1>10, <1>11

\* The clock's timeslice() uses a slice up, or starts a new one.
LEMMA TickSlices ==
    ASSUME SliceInv, IInv', Distinct(dsr_list'), Distinct(dsrs'), ClockTimeslice
    PROVE  SliceInv'
<1>1. /\ At("dsrs") /\ dsrs # <<>> /\ Head(dsrs) = Clock /\ dsrs' = Tail(dsrs)
      /\ k' = timeslice(k) /\ frames' = frames
  BY DEF ClockTimeslice, RunningDSR
<1>2. dsrs \in Seq(Sources) /\ k \in KernelState /\ Distinct(dsrs)
  BY Types DEF SliceInv
<1>3. ~Ending
  <2>1. InList(dsrs, Clock)
    BY <1>1, <1>2 DEF InList
  <2> QED BY <1>1, <2>1 DEF Ending, At
<1>4. k.slice \in 1..Quantum
  BY <1>3, SliceLeft
<1>5. /\ k'.slice \in 0..Quantum
      /\ k'.slice = 0 => ~Runs(k, current)
      /\ k'.current_thread = k.current_thread /\ k'.state = k.state
      /\ k'.timeslice_count = k.timeslice_count
  BY <1>1, <1>2, <1>4, TimesliceSlices DEF current
<1>6. SharesLeft(k')
  BY <1>5 DEF SliceInv, SharesLeft, Runs
<1>7. ~InList(Tail(dsrs), Clock)
  BY <1>1, <1>2 DEF InList, Distinct
<1>8. stack' = stack
  BY <1>1, <1>5 DEF stack, current
<1>9. Ending'
  BY <1>1, <1>7, <1>8 DEF Ending, At
<1> QED BY <1>5, <1>6, <1>9 DEF SliceInv, Runs, current

\* Every step keeps the slices, unless a stopped thread is woken too early.
LEMMA NextSliceInv == SliceInv /\ [Next]_vars /\ [NotRewoken]_vars => SliceInv'
<1> SUFFICES ASSUME SliceInv, [Next]_vars, [NotRewoken]_vars PROVE SliceInv'
  OBVIOUS
<1>1. IInv /\ IInv' /\ Distinct(dsr_list') /\ Distinct(dsrs')
  BY NextIInv, ListsDistinct DEF SliceInv, Preserved
<1>2. CASE UNCHANGED vars
  <2>1. UNCHANGED <<k, dsr_list, dsrs, frames>>
    BY <1>2 DEF vars
  <2>2. stack' = stack /\ current' = current
    BY <2>1 DEF stack, current
  <2> QED BY <1>1, <2>1, <2>2 DEF SliceInv, Ending, At
<1>3. CASE Next /\ NotRewoken
  <2>1. k \in KernelState /\ Good(k) /\ current = k.current_thread
    BY <1>1, Types DEF current
  <2>2. ASSUME SlicesKept(k, k'), ~Ending \/ Ending' PROVE SliceInv'
    BY <1>1, <1>3, <2>2, KeptSlices DEF SliceInv
  <2>3. ASSUME k' = k PROVE SlicesKept(k, k')
    BY <2>3 DEF SlicesKept
  <2>4. CASE ThreadCall
    BY <1>1, <2>2, <2>4, CallEffect, NotEnding
  <2>5. CASE TimedSleepDone \/ DelayDone \/ WakeCheck
    <3>1. SlicesKept(k, k') /\ (At("timed") \/ At("delayed") \/ At("woken"))
      BY <1>1, <2>5, RestEffect DEF Regular
    <3> QED BY <2>2, <3>1, NotEnding DEF Places
  <2>6. CASE CallPendingDSRs
    <3>1. At("loop") /\ k' = k
      BY <2>6, QuietSteps DEF CallPendingDSRs
    <3> QED BY <2>2, <2>3, <3>1, NotEnding DEF Places
  <2>7. CASE NoPendingDSRs \/ DSRsDone
    <3>1. Goto("resched") /\ k' = k
      BY <2>7 DEF NoPendingDSRs, DSRsDone
    <3> QED BY <1>1, <2>2, <2>3, <3>1, EndingGoto
  <2>8. CASE KeepRunning
    <3>1. /\ k' = [k EXCEPT !.need_reschedule = ~NeedSwitch /\ @]
          /\ ~NeedSwitch \/ schedule(k) = current
      BY <2>8 DEF KeepRunning
    <3>2. Runs(k, current)
      BY <2>1, <3>1, Schedule DEF NeedSwitch, Runs, Good
    <3>3. SameSlices(k, k')
      BY <2>1, <3>1 DEF KernelState, SameSlices
    <3>4. SlicesKept(k, k')
      BY <3>3 DEF SlicesKept, SameSlices, Runs
    <3> QED BY <1>1, <1>3, <3>2, <3>4, KeptSlices DEF SliceInv
  <2>9. ASSUME NEW t \in Threads, SwitchTo(t) PROVE SliceInv'
    <3>1. k'.slice \in 1..Quantum /\ SharesLeft(k')
      BY <2>9, SwitchSlices
    <3>2. k'.slice \in 0..Quantum /\ k'.slice # 0
      BY <3>1, QuantumAssumption
    <3> QED BY <1>1, <3>1, <3>2 DEF SliceInv
  <2>10. CASE LeaveLocked \/ ZeroLock \/ Recheck \/ Unwind \/ InterruptEnd
    <3>1. /\ k' = k
          /\ \E pc \in {"finish", "recheck", "unwind", "isrend"} : At(pc)
      BY <2>10, QuietSteps DEF LeaveLocked, ZeroLock, Recheck, Unwind, InterruptEnd
    <3> QED BY <2>2, <2>3, <3>1, NotEnding DEF Places
  <2>11. ASSUME NEW i \in Sources, Interrupt(i) PROVE SliceInv'
    <3>1. k' = k /\ dsrs' = dsrs /\ (sched_lock # 0 => frames' = frames)
      BY <2>11 DEF Interrupt
    <3>2. Ending => sched_lock # 0
      BY <1>1, PlaceOfLock DEF Ending, PlaceFits
    <3>3. Ending => Ending'
      BY <1>1, <3>1, <3>2, EndingStays
    <3> QED BY <2>2, <2>3, <3>1, <3>3
  <2>12. CASE \/ \E i \in Devices : DeviceDSR(i)
              \/ \E t \in Users : ClockAlarm(t)
    <3>1. /\ SlicesKept(k, k') /\ frames' = frames
          /\ dsrs' = dsrs \/ (dsrs # <<>> /\ dsrs' = Tail(dsrs))
      BY <1>1, <2>12, DsrEffect DEF Regular, DeviceDSR, ClockAlarm, RunningDSR
    <3>2. Ending => Ending'
      BY <1>1, <3>1, EndingStays DEF SlicesKept
    <3> QED BY <2>2, <3>1, <3>2
  <2>13. CASE ClockTimeslice
    BY <1>1, <2>13, TickSlices
  <2> QED BY <1>3, <2>4, <2>5, <2>6, <2>7, <2>8, <2>9, <2>10, <2>11, <2>12, <2>13
          DEF Next, Unlocking, DSRs
<1> QED BY <1>2, <1>3

\* The first thread starts with a whole slice, and so does every other.
LEMMA InitSlices == Init => SliceInv /\ HeadInv
<1> SUFFICES ASSUME Init PROVE SliceInv /\ HeadInv
  OBVIOUS
<1> DEFINE c     == constructed(InitPriority)
           built == initialized(InitPriority)
           ready == resume(built, Main)
           first == schedule(ready)
           sw    == switched_to(ready, first)
           re    == timeslice_reset(sw, first)
<1>1. k = timeslice_restore(re, first) /\ dsr_list = <<>> /\ dsrs = <<>>
  BY DEF Init, switched_to
<1>2. IInv
  BY InitIInv
<1>3. /\ built \in KernelState /\ Good(built)
      /\ \A t \in Threads : built.timeslice_count[t] = Quantum
  <2>1. c \in KernelState
    <3>1. Quantum \in 0..CountMod-1
      BY QuantumAssumption
    <3> QED BY <3>1, ThreadsAssumption, PriorityAssumption, InitPriorityAssumption
            DEF constructed, KernelState, StateBits, Reasons, Priorities
  <2>2. \A t \in Threads : c.timeslice_count[t] = Quantum
    BY DEF constructed
  <2> HIDE DEF c
  <2>3. Regular(c, resume(c, Idle))
    BY <2>1, SuspendingRegular, ThreadsAssumption
  <2>4. \A t \in Threads : resume(c, Idle).timeslice_count[t] = Quantum
    BY <2>2, <2>3 DEF Regular, SlicesKept
  <2>5. Good(built)
    BY Initialized, InitPriorityAssumption
  <2> QED BY <2>4, <2>5, GoodType DEF initialized, c
<1> HIDE DEF built
<1>4. /\ ready \in KernelState /\ Good(ready)
      /\ \A t \in Threads : ready.timeslice_count[t] = Quantum
  <2>1. Regular(built, ready)
    BY <1>3, SuspendingRegular, MainAssumption DEF Users
  <2>2. \A t \in Threads : ready.timeslice_count[t] = Quantum
    BY <1>3, <2>1 DEF Regular, SlicesKept
  <2> QED BY <1>3, <2>2, Resume, GoodType, MainAssumption DEF Users, Step
<1> HIDE DEF ready
<1>5. first \in Threads
  BY <1>4, Schedule DEF Good
<1>6. /\ sw \in KernelState /\ sw.timeslice_count = ready.timeslice_count
      /\ sw.current_thread = first /\ sw.run_queue = ready.run_queue
      /\ sw.priority = ready.priority
  <2>1. Good(sw)
    BY <1>4, SwitchedTo DEF Good
  <2>2. /\ sw.timeslice_count = ready.timeslice_count
        /\ sw.current_thread = first /\ sw.run_queue = ready.run_queue
        /\ sw.priority = ready.priority
    BY <1>4 DEF KernelState, switched_to
  <2> QED BY <2>1, <2>2, GoodType
<1>7. current_is_head(sw)
  BY <1>4, <1>6, ScheduleHead DEF Good
<1> HIDE DEF sw, first
<1>8. /\ re \in KernelState /\ \A t \in Threads : re.timeslice_count[t] = Quantum
      /\ SameHead(sw, re)
  <2>1. re \in KernelState
    BY <1>5, <1>6, TimesliceReset DEF Quietly
  <2>2. re.timeslice_count = [sw.timeslice_count EXCEPT ![first] = Quantum]
    BY <1>6 DEF KernelState, timeslice_reset
  <2>3. \A t \in Threads : re.timeslice_count[t] = Quantum
    <3>1. sw.timeslice_count \in [Threads -> 0..CountMod-1]
      BY <1>6, SliceTypes
    <3> QED BY ONLY <1>4, <1>6, <2>2, <3>1
  <2> QED BY <1>5, <1>6, <2>1, <2>3, FieldsHead
<1> HIDE DEF re
<1>9. k.slice = Quantum /\ k.timeslice_count = re.timeslice_count /\ SameHead(re, k)
  BY <1>1, <1>5, <1>8 DEF KernelState, timeslice_restore, SameHead
<1>10. Quantum \in 1..Quantum /\ Quantum # 0 /\ Quantum \in 0..Quantum
  BY QuantumAssumption
<1>11. SharesLeft(k)
  BY <1>8, <1>9, <1>10 DEF SharesLeft
<1>12. SliceInv
  BY <1>1, <1>2, <1>9, <1>10, <1>11 DEF SliceInv, Distinct
<1>13. Ahead(k)
  BY <1>7, <1>8, <1>9 DEF Ahead, SameHead, current_is_head
<1> QED BY <1>2, <1>12, <1>13 DEF HeadInv

\* At user level the slice still to run is between one tick and the quantum,
\* in every behaviour that makes no stopped thread runnable before its switch.
THEOREM SliceCorrect == Spec /\ [][NotRewoken]_vars => []SliceWithinQuantum
<1>1. SliceInv => SliceWithinQuantum
  <2> SUFFICES ASSUME SliceInv, sched_lock = 0 PROVE k.slice \in 1..Quantum
    BY DEF SliceWithinQuantum
  <2>1. Runs(k, current)
    BY DEF SliceInv, IInv, Settled, Settling
  <2> QED BY <2>1, QuantumAssumption DEF SliceInv
<1>2. Init => SliceInv
  BY InitSlices
<1> QED BY <1>1, <1>2, NextSliceInv, PTL DEF Spec

\* What keeps the current thread ahead.
LEMMA KeptHead ==
    ASSUME HeadInv, IInv', NotRewoken, Leads(k, k'), k'.current_thread = k.current_thread
    PROVE  HeadInv'
<1>1. CASE Runs(k, k.current_thread)
  BY <1>1, LeadsAhead DEF HeadInv
<1>2. CASE ~Runs(k, k.current_thread)
  BY <1>2 DEF HeadInv, NotRewoken, Ahead, current
<1> QED BY <1>1, <1>2

\* Every step leaves the thread it runs at the head of its run queue, or with
\* a reschedule to come.
LEMMA NextHeadInv ==
    ASSUME "delay" \notin Calls
    PROVE  HeadInv /\ [Next]_vars /\ [NotRewoken]_vars => HeadInv'
<1> SUFFICES ASSUME HeadInv, [Next]_vars, [NotRewoken]_vars PROVE HeadInv'
  OBVIOUS
<1>1. IInv /\ IInv' /\ Ahead(k)
  BY NextIInv DEF HeadInv, Preserved
<1>2. k \in KernelState /\ Good(k) /\ current = k.current_thread /\ Agree(k)
  BY <1>1, Types DEF current, Good
<1>3. ASSUME k' = k PROVE HeadInv'
  BY <1>1, <1>3 DEF HeadInv
<1>4. CASE UNCHANGED vars
  BY <1>3, <1>4, QuietSteps
<1>5. CASE Next /\ NotRewoken
  <2>1. ASSUME Regular(k, k'), Leads(k, k') PROVE HeadInv'
    BY <1>1, <1>5, <2>1, KeptHead DEF Regular, SlicesKept
  <2>2. CASE ThreadCall
    BY <1>1, <1>3, <2>2, CallEffect DEF HeadInv
  <2>3. CASE TimedSleepDone \/ DelayDone \/ WakeCheck
    BY <1>1, <2>1, <2>3, RestEffect
  <2>4. CASE \/ CallPendingDSRs \/ NoPendingDSRs \/ DSRsDone
             \/ LeaveLocked \/ ZeroLock \/ Recheck \/ Unwind
             \/ InterruptEnd \/ \E i \in Sources : Interrupt(i)
    BY <1>3, <2>4, QuietSteps
  <2>5. CASE KeepRunning
    <3>1. /\ k' = [k EXCEPT !.need_reschedule = ~NeedSwitch /\ @]
          /\ ~NeedSwitch \/ schedule(k) = current
      BY <2>5 DEF KeepRunning
    <3>2. /\ k'.run_queue = k.run_queue /\ k'.priority = k.priority
          /\ k'.current_thread = k.current_thread /\ k'.state = k.state
      BY <1>2, <3>1 DEF KernelState
    <3>3. CASE schedule(k) = current
      BY <1>1, <1>2, <3>2, <3>3, ScheduleHead DEF HeadInv, Ahead
    <3>4. CASE ~NeedSwitch
      <4>1. Runs(k, current) /\ ~k.need_reschedule
        BY <3>4 DEF NeedSwitch, Runs
      <4>2. current_is_head(k')
        BY <1>1, <1>2, <3>2, <4>1 DEF Ahead, current_is_head
      <4> QED BY <1>1, <4>2 DEF HeadInv, Ahead
    <3> QED BY <3>1, <3>3, <3>4
  <2>6. ASSUME NEW t \in Threads, SwitchTo(t) PROVE HeadInv'
    <3>1. /\ k'.current_thread = schedule(k) /\ k'.run_queue = k.run_queue
          /\ k'.priority = k.priority
      BY <1>2, <2>6 DEF SwitchTo, KernelState, timeslice_restore, timeslice_reset,
                        timeslice_save
    <3>2. current_is_head(k')
      BY <1>2, <3>1, ScheduleHead
    <3> QED BY <1>1, <3>2 DEF HeadInv, Ahead
  <2>7. CASE \/ \E i \in Devices : DeviceDSR(i)
             \/ \E t \in Users : ClockAlarm(t)
    BY <1>1, <2>1, <2>7, DsrEffect
  <2>8. CASE ClockTimeslice
    BY <1>1, <1>2, <2>8, TimesliceAhead DEF ClockTimeslice, HeadInv
  <2> QED BY <1>5, <2>2, <2>3, <2>4, <2>5, <2>6, <2>7, <2>8 DEF Next, Unlocking, DSRs
<1> QED BY <1>4, <1>5

\* Only timeslice() ends a slice.
LEMMA SliceEndIsTick ==
    ASSUME IInv, Next, SliceEnds
    PROVE  ClockTimeslice
<1>1. /\ At("dsrs") /\ dsrs # <<>> /\ Head(dsrs) = Clock /\ dsrs' = Tail(dsrs)
      /\ dsrs \in Seq(Sources)
  BY Types DEF SliceEnds, RunningDSR
<1>2. dsrs' # dsrs
  BY <1>1
<1>3. stack # <<>> /\ Head(stack).pc = "dsrs"
  BY <1>1 DEF At
<1>4. ~ThreadCall
  BY <1>3, CallEffect
<1>5. /\ \A i \in Sources : ~Interrupt(i)
      /\ ~InterruptEnd
  BY <1>2 DEF Interrupt, InterruptEnd
<1>6. ~Unlocking
  BY <1>1, <1>3 DEF Unlocking, CallPendingDSRs, NoPendingDSRs, DSRsDone, KeepRunning,
     SwitchTo, LeaveLocked, ZeroLock, Recheck, Unwind, TimedSleepDone, DelayDone,
     WakeCheck, At
<1>7. \A t \in Users : ~ClockAlarm(t)
  BY <1>2 DEF ClockAlarm
<1>8. \A i \in Devices : ~DeviceDSR(i)
  BY <1>1, DeviceAssumption DEF DeviceDSR, RunningDSR
<1> QED BY <1>4, <1>5, <1>6, <1>7, <1>8 DEF Next, DSRs

\* When the slice of a runnable thread ends and another runnable thread has its
\* priority, a reschedule is requested: the CPU changes hands.
THEOREM HandOverCorrect ==
    ASSUME "delay" \notin Calls
    PROVE  Spec /\ [][NotRewoken]_vars => SliceHandsOver
<1>1. HeadInv /\ [Next]_vars => [SliceEnds => k'.need_reschedule]_vars
  <2> SUFFICES ASSUME HeadInv, Next, SliceEnds PROVE k'.need_reschedule
    OBVIOUS
  <2>1. k' = timeslice(k)
    BY SliceEndIsTick DEF HeadInv, ClockTimeslice
  <2>2. Good(k) /\ Ahead(k) /\ current = k.current_thread
    BY Types DEF HeadInv, current
  <2>3. \E t \in Threads : /\ k.slice = 1 /\ Runs(k, k.current_thread)
                           /\ t # k.current_thread /\ Runs(k, t)
                           /\ k.priority[t] = k.priority[k.current_thread]
    BY <2>2 DEF SliceEnds, Runnable, Runs
  <2> QED BY <2>1, <2>2, <2>3, TimesliceAhead
<1>2. Init => HeadInv
  BY InitSlices
<1>3. HeadInv /\ [Next]_vars /\ [NotRewoken]_vars => HeadInv'
  BY NextHeadInv
<1> QED BY <1>1, <1>2, <1>3, PTL DEF Spec, SliceHandsOver

\* Programs in which nothing wakes a thread but the threads themselves: DSRs
\* only suspend, and no timers are set.
Unwoken == Untimed /\ DsrCalls \subseteq {"suspend"}

TimersOff == IInv /\ \A t \in Threads : ~k.timer[t]

\* timeslice() makes nobody runnable and starts no timer.
LEMMA TimesliceQuiet ==
    ASSUME NEW kk \in KernelState
    PROVE  LET k2 == timeslice(kk)
           IN  /\ k2.state = kk.state /\ k2.timer = kk.timer
               /\ k2.current_thread = kk.current_thread
<1> DEFINE d == [kk EXCEPT !.slice = (kk.slice + CountMod - 1) % CountMod]
           r == rotate_current(d)
           z == [r EXCEPT !.slice = Quantum]
<1>1. DOMAIN d = DOMAIN kk /\ d.state = kk.state /\ d.timer = kk.timer
      /\ d.current_thread = kk.current_thread
  BY DEF KernelState
<1>2. timeslice(kk) \in {d, z, set_need_reschedule(z)}
  BY DEF timeslice, timeslice_cpu
<1> HIDE DEF d
<1>3. DOMAIN r = DOMAIN d /\ r.state = d.state /\ r.timer = d.timer
      /\ r.current_thread = d.current_thread
  BY <1>1 DEF KernelState, rotate_current
<1> HIDE DEF r
<1>4. DOMAIN z = DOMAIN r /\ z.state = r.state /\ z.timer = r.timer
      /\ z.current_thread = r.current_thread
  BY <1>1, <1>3 DEF KernelState
<1> HIDE DEF z
<1>5. LET s == set_need_reschedule(z)
      IN  /\ s.state = z.state /\ s.timer = z.timer
          /\ s.current_thread = z.current_thread
  BY <1>1, <1>3, <1>4 DEF KernelState, set_need_reschedule
<1> QED BY <1>1, <1>2, <1>3, <1>4, <1>5

\* In such a program no timer runs, and no stopped thread is made runnable.
LEMMA NextUnwoken ==
    ASSUME Unwoken
    PROVE  TimersOff /\ [Next]_vars => TimersOff' /\ [NotRewoken]_vars
<1> SUFFICES ASSUME TimersOff, [Next]_vars PROVE TimersOff' /\ NotRewoken
  OBVIOUS
<1>1. IInv /\ IInv'
  BY NextIInv DEF TimersOff, Preserved
<1>2. k \in KernelState /\ current = k.current_thread /\ current \in Threads
  BY <1>1, Types DEF current
<1>3. ASSUME TimersKept(k, k'), Runs(k', current) => Runs(k, current)
      PROVE  TimersOff' /\ NotRewoken
  <2>1. TimersOff'
    BY <1>1, <1>3 DEF TimersOff, TimersKept
  <2>2. NotRewoken
    BY <1>3 DEF NotRewoken
  <2> QED BY <2>1, <2>2
<1>4. ASSUME k'.state = k.state, k'.timer = k.timer PROVE TimersOff' /\ NotRewoken
  BY <1>3, <1>4 DEF TimersKept, Runs
<1>5. CASE ThreadCall
  BY <1>1, <1>3, <1>4, <1>5, CallEffect DEF Unwoken
<1>6. CASE TimedSleepDone \/ DelayDone \/ WakeCheck
  BY <1>1, <1>3, <1>6, RestEffect DEF Regular
<1>7. CASE \/ CallPendingDSRs \/ NoPendingDSRs \/ DSRsDone
           \/ LeaveLocked \/ ZeroLock \/ Recheck \/ Unwind
           \/ InterruptEnd \/ (\E i \in Sources : Interrupt(i)) \/ UNCHANGED vars
  BY <1>4, <1>7, QuietSteps
<1>8. CASE KeepRunning
  <2>1. k' = [k EXCEPT !.need_reschedule = ~NeedSwitch /\ @]
    BY <1>8 DEF KeepRunning
  <2> QED BY <1>2, <1>4, <2>1 DEF KernelState
<1>9. ASSUME NEW t \in Threads, SwitchTo(t) PROVE TimersOff' /\ NotRewoken
  <2>1. k'.current_thread = t /\ t # current /\ k'.timer = k.timer
    BY <1>2, <1>9 DEF SwitchTo, KernelState, timeslice_restore, timeslice_reset,
                      timeslice_save
  <2> QED BY <1>1, <2>1 DEF TimersOff, NotRewoken, current
<1>10. ASSUME NEW i \in Devices, DeviceDSR(i) PROVE TimersOff' /\ NotRewoken
  <2>1. k' = k \/ \E t \in Users : k' = suspend(k, t)
    BY <1>10 DEF Unwoken, DeviceDSR, DsrBody
  <2>2. ASSUME NEW t \in Users, k' = suspend(k, t) PROVE TimersOff' /\ NotRewoken
    BY <1>2, <1>3, <2>2, SuspendingRegular DEF Users, Regular
  <2> QED BY <1>4, <2>1, <2>2
<1>11. \A t \in Users : ~ClockAlarm(t)
  BY DEF ClockAlarm, TimersOff, Users
<1>12. CASE ClockTimeslice
  BY <1>2, <1>4, <1>12, TimesliceQuiet DEF ClockTimeslice
<1> QED BY <1>5, <1>6, <1>7, <1>8, <1>9, <1>10, <1>11, <1>12 DEF Next, Unlocking, DSRs

\* No timer runs at the start.
LEMMA InitTimers == Init => TimersOff
<1> SUFFICES ASSUME Init PROVE TimersOff
  OBVIOUS
<1> DEFINE c     == constructed(InitPriority)
           built == initialized(InitPriority)
           ready == resume(built, Main)
           first == schedule(ready)
           sw    == switched_to(ready, first)
<1>1. k = timeslice_restore(timeslice_reset(sw, first), first)
  BY DEF Init, switched_to
<1>2. built \in KernelState /\ Good(built) /\ \A t \in Threads : ~built.timer[t]
  <2>1. c \in KernelState
    <3>1. Quantum \in 0..CountMod-1
      BY QuantumAssumption
    <3> QED BY <3>1, ThreadsAssumption, PriorityAssumption, InitPriorityAssumption
            DEF constructed, KernelState, StateBits, Reasons, Priorities
  <2>2. \A t \in Threads : ~c.timer[t]
    BY DEF constructed
  <2> HIDE DEF c
  <2>3. Regular(c, resume(c, Idle))
    BY <2>1, SuspendingRegular, ThreadsAssumption
  <2>4. Good(built)
    BY Initialized, InitPriorityAssumption
  <2> QED BY <2>2, <2>3, <2>4, GoodType DEF initialized, c, Regular, TimersKept
<1> HIDE DEF built
<1>3. ready \in KernelState /\ \A t \in Threads : ~ready.timer[t]
  <2>1. Regular(built, ready)
    BY <1>2, SuspendingRegular, MainAssumption DEF Users
  <2> QED BY <1>2, <2>1, Resume, GoodType, MainAssumption
          DEF Users, Step, Regular, TimersKept
<1> HIDE DEF ready
<1>4. k.timer = ready.timer
  BY <1>1, <1>3 DEF KernelState, timeslice_restore, timeslice_reset, switched_to
<1> QED BY <1>3, <1>4, InitIInv DEF TimersOff

\* Such a program always satisfies the premise of the two theorems above.
LEMMA NeverRewoken == ASSUME Unwoken PROVE Spec => [][NotRewoken]_vars
<1> QED BY InitTimers, NextUnwoken, PTL DEF Spec

\* Where DSRs wake nobody and no timers are set, the slice is always between
\* one tick and the quantum.
THEOREM SliceAlwaysCorrect ==
    ASSUME Unwoken
    PROVE  Spec => []SliceWithinQuantum
<1> QED BY NeverRewoken, SliceCorrect, PTL

\* ... and its end always hands the CPU over.
THEOREM AlwaysHandsOver ==
    ASSUME Unwoken
    PROVE  Spec => SliceHandsOver
<1>1. "delay" \notin Calls
  BY DEF Unwoken, Untimed
<1> QED BY <1>1, NeverRewoken, HandOverCorrect, PTL

-----------------------------------------------------------------------------
(* Orders to exit: what each operation does to a thread that was killed in *)
(* its sleep and has not run since.                                        *)

Told(kk, u) == kk.wake_reason[u] = "EXIT"

\* Nothing is left of such a thread's sleep that a wakeup could end.
Deaf(kk, u) == Told(kk, u) => /\ kk.sleep_reason[u] = "NONE"
                              /\ "COUNTSLEEP" \notin kk.state[u]

\* The order stands, and so does what protects it.
StandsFor(kk, k2, u) == Deaf(kk, u) => Deaf(k2, u) /\ (Told(kk, u) => Told(k2, u))
Stands(kk, k2) == \A u \in Threads : StandsFor(kk, k2, u)

\* An operation that touches no reason and puts nobody to a counted sleep.
SameOrders(kk, k2) ==
    /\ k2.wake_reason = kk.wake_reason /\ k2.sleep_reason = kk.sleep_reason
    /\ \A u \in Threads : "COUNTSLEEP" \in k2.state[u] => "COUNTSLEEP" \in kk.state[u]

\* Orders stand in such an operation, and in several in turn.
LEMMA OrdersStand ==
    ASSUME NEW kk, NEW k2
    PROVE  /\ SameOrders(kk, k2) => Stands(kk, k2)
           /\ Stands(kk, kk) /\ SameOrders(kk, kk)
           /\ \A k3 : Stands(kk, k2) /\ Stands(k2, k3) => Stands(kk, k3)
           /\ \A k3 : SameOrders(kk, k2) /\ SameOrders(k2, k3) => SameOrders(kk, k3)
<1>1. SameOrders(kk, k2) => Stands(kk, k2)
  BY DEF SameOrders, Stands, StandsFor, Deaf, Told
<1>2. Stands(kk, kk) /\ SameOrders(kk, kk)
  BY DEF SameOrders, Stands, StandsFor
<1>3. \A k3 : Stands(kk, k2) /\ Stands(k2, k3) => Stands(kk, k3)
  BY DEF Stands, StandsFor
<1>4. \A k3 : SameOrders(kk, k2) /\ SameOrders(k2, k3) => SameOrders(kk, k3)
  BY DEF SameOrders
<1> QED BY <1>1, <1>2, <1>3, <1>4

\* The queues, the slices, the timers and the counts are no part of it.
LEMMA QueuesOrders ==
    ASSUME NEW kk \in KernelState, NEW t \in Threads, NEW n
    PROVE  /\ SameOrders(kk, rem_thread(kk, t)) /\ SameOrders(kk, link(kk, t))
           /\ SameOrders(kk, leave_queue(kk, t))
           /\ SameOrders(kk, timeslice_reset(kk, t))
           /\ SameOrders(kk, timeslice_save(kk, t))
           /\ SameOrders(kk, timeslice_restore(kk, t))
           /\ SameOrders(kk, set_need_reschedule(kk))
           /\ SameOrders(kk, set_need_reschedule_for(kk, t))
           /\ SameOrders(kk, rotate_current(kk)) /\ SameOrders(kk, rotated(kk, n))
           /\ SameOrders(kk, clear_timer(kk, t))
           /\ SameOrders(kk, [kk EXCEPT !.slice = n])
           /\ SameOrders(kk, [kk EXCEPT !.suspend_count[t] = n])
           /\ SameOrders(kk, [kk EXCEPT !.wakeup_count[t] = n])
           /\ SameOrders(kk, assign_priority(kk, t, n))
           /\ \A q : SameOrders(kk, enqueue(kk, q, t))
<1>1. /\ SameOrders(kk, rem_thread(kk, t)) /\ SameOrders(kk, link(kk, t))
  BY DEF KernelState, SameOrders, rem_thread, link
<1>2. SameOrders(kk, leave_queue(kk, t))
  BY DEF KernelState, SameOrders, leave_queue
<1>3. /\ SameOrders(kk, timeslice_reset(kk, t)) /\ SameOrders(kk, timeslice_save(kk, t))
      /\ SameOrders(kk, timeslice_restore(kk, t))
  BY DEF KernelState, SameOrders, timeslice_reset, timeslice_save, timeslice_restore
<1>4. SameOrders(kk, set_need_reschedule(kk))
  BY DEF KernelState, SameOrders, set_need_reschedule
<1>5. SameOrders(kk, set_need_reschedule_for(kk, t))
  BY <1>4 DEF SameOrders, set_need_reschedule_for
<1>6. SameOrders(kk, rotate_current(kk)) /\ SameOrders(kk, rotated(kk, n))
  BY DEF KernelState, SameOrders, rotate_current, rotated
<1>7. SameOrders(kk, clear_timer(kk, t)) /\ SameOrders(kk, [kk EXCEPT !.slice = n])
  BY DEF KernelState, SameOrders, clear_timer
<1>8. /\ SameOrders(kk, [kk EXCEPT !.suspend_count[t] = n])
      /\ SameOrders(kk, [kk EXCEPT !.wakeup_count[t] = n])
  BY DEF KernelState, SameOrders
<1>9. SameOrders(kk, assign_priority(kk, t, n))
  BY DEF KernelState, SameOrders, assign_priority
<1>10. \A q : SameOrders(kk, enqueue(kk, q, t))
  BY DEF KernelState, SameOrders, enqueue
<1> QED BY <1>1, <1>2, <1>3, <1>4, <1>5, <1>6, <1>7, <1>8, <1>9, <1>10

\* Nor is a change of state that does not begin a counted sleep.
LEMMA StateOrders ==
    ASSUME NEW kk \in KernelState, NEW t \in Threads, NEW v \in SUBSET StateBits, NEW n,
           "COUNTSLEEP" \in v => "COUNTSLEEP" \in kk.state[t]
    PROVE  /\ SameOrders(kk, [kk EXCEPT !.state[t] = v])
           /\ SameOrders(kk, set_suspend(kk, t, v, n))
<1>1. kk.state \in [Threads -> SUBSET StateBits]
  BY SleepTypes
<1>2. ASSUME NEW k2, k2.state = [kk.state EXCEPT ![t] = v],
             k2.wake_reason = kk.wake_reason, k2.sleep_reason = kk.sleep_reason
      PROVE  SameOrders(kk, k2)
  BY <1>1, <1>2 DEF SameOrders
<1>3. SameOrders(kk, [kk EXCEPT !.state[t] = v])
  <2>1. LET k2 == [kk EXCEPT !.state[t] = v]
        IN  /\ k2.state = [kk.state EXCEPT ![t] = v]
            /\ k2.wake_reason = kk.wake_reason /\ k2.sleep_reason = kk.sleep_reason
    BY DEF KernelState
  <2> QED BY <1>2, <2>1
<1>4. SameOrders(kk, set_suspend(kk, t, v, n))
  <2>1. LET k2 == set_suspend(kk, t, v, n)
        IN  /\ k2.state = [kk.state EXCEPT ![t] = v]
            /\ k2.wake_reason = kk.wake_reason /\ k2.sleep_reason = kk.sleep_reason
    BY DEF KernelState, set_suspend
  <2> QED BY <1>2, <2>1
<1> QED BY <1>3, <1>4

\* Back on the run queue.
LEMMA AddOrders ==
    ASSUME NEW kk \in KernelState, NEW t \in Threads
    PROVE  SameOrders(kk, add_thread(kk, t)) /\ SameOrders(kk, runnable_again(kk, t))
<1> DEFINE l == leave_queue(kk, t)
           n == link(l, t)
           s == set_need_reschedule_for(n, t)
<1>1. l \in KernelState /\ SameOrders(kk, l)
  BY LeaveQueue, QueuesOrders DEF Quietly
<1> HIDE DEF l
<1>2. n \in KernelState /\ SameOrders(l, n)
  BY <1>1, Link, QueuesOrders
<1> HIDE DEF n
<1>3. s \in KernelState /\ SameOrders(n, s)
  BY <1>2, SetNeed, QueuesOrders DEF set_need_reschedule_for
<1> HIDE DEF s
<1>4. SameOrders(s, timeslice_reset(s, t))
  BY <1>3, QueuesOrders
<1>5. add_thread(kk, t) = timeslice_reset(s, t)
  BY DEF add_thread, s, n, l
<1>6. SameOrders(kk, add_thread(kk, t))
  BY <1>1, <1>2, <1>3, <1>4, <1>5, OrdersStand
<1> QED BY <1>6, OrdersStand DEF runnable_again

\* wake() touches no reason, and ends counted sleeps.
LEMMA WakeOrders ==
    ASSUME NEW kk \in KernelState, NEW t \in Threads
    PROVE  /\ SameOrders(kk, wake(kk, t))
           /\ "COUNTSLEEP" \notin wake(kk, t).state[t]
<1> DEFINE v == kk.state[t] \ SLEEPSET
           m == [kk EXCEPT !.state[t] = v]
           l == leave_queue(m, t)
<1>1. v \in SUBSET StateBits /\ kk.state \in [Threads -> SUBSET StateBits]
  BY SleepTypes
<1>2. wake(kk, t).state = [kk.state EXCEPT ![t] = @ \ SLEEPSET]
  BY WakeSleep
<1>3. "COUNTSLEEP" \notin wake(kk, t).state[t]
  BY <1>1, <1>2 DEF SLEEPSET
<1>4. m \in KernelState /\ SameOrders(kk, m)
  BY <1>1, SetState, StateOrders
<1>5. wake(kk, t) = kk \/ wake(kk, t) = runnable_again(l, t)
  BY DEF wake
<1> HIDE DEF m
<1>6. l \in KernelState /\ SameOrders(m, l)
  BY <1>4, LeaveQueue, QueuesOrders DEF Quietly
<1> HIDE DEF l
<1>7. SameOrders(l, runnable_again(l, t))
  BY <1>6, AddOrders
<1>8. SameOrders(kk, wake(kk, t))
  BY <1>4, <1>5, <1>6, <1>7, OrdersStand
<1> QED BY <1>3, <1>8

\* A wake with a reason: it is an order to exit, or meets a thread with none.
LEMMA WakeForOrders ==
    ASSUME NEW kk \in KernelState, NEW t \in Threads, NEW r \in Reasons,
           r = "EXIT" \/ ~Told(kk, t)
    PROVE  Stands(kk, wake(set_wake_reason(kk, t, r), t))
<1> DEFINE s == set_wake_reason(kk, t, r)
           w == wake(s, t)
<1>1. s \in KernelState
  BY SetWakeReason DEF Quietly
<1>2. /\ s.state = kk.state
      /\ s.sleep_reason = [kk.sleep_reason EXCEPT ![t] = "NONE"]
      /\ s.wake_reason = [kk.wake_reason EXCEPT ![t] = r]
  BY DEF KernelState, set_wake_reason
<1>3. /\ kk.sleep_reason \in [Threads -> Reasons] /\ kk.wake_reason \in [Threads -> Reasons]
  BY DEF KernelState
<1> HIDE DEF s
<1>4. SameOrders(s, w) /\ "COUNTSLEEP" \notin w.state[t]
  BY <1>1, WakeOrders
<1> HIDE DEF w
<1>5. Deaf(w, t) /\ (Told(kk, t) => Told(w, t))
  BY <1>2, <1>3, <1>4 DEF Deaf, Told, SameOrders
<1>6. \A u \in Threads \ {t} : StandsFor(kk, w, u)
  BY <1>2, <1>3, <1>4 DEF StandsFor, Deaf, Told, SameOrders
<1> QED BY <1>5, <1>6 DEF Stands, StandsFor, w, s

\* Wakeups, releases and alarms find nothing to end in a thread that was killed.
LEMMA WakingOrders ==
    ASSUME NEW kk \in KernelState, NEW t \in Threads
    PROVE  /\ Stands(kk, counted_wake(kk, t)) /\ Stands(kk, cancel_counted_wake(kk, t))
           /\ Stands(kk, release(kk, t)) /\ Stands(kk, alarm(kk, t))
<1> DEFINE off == clear_timer(kk, t)
<1>1. ASSUME NEW k1 \in KernelState, SameOrders(kk, k1), NEW r \in Reasons,
             ~Told(kk, t) \/ ~Deaf(kk, t)
      PROVE  Stands(kk, wake(set_wake_reason(k1, t, r), t))
  <2> DEFINE w == wake(set_wake_reason(k1, t, r), t)
  <2>1. CASE ~Told(kk, t)
    <3>1. ~Told(k1, t)
      BY <1>1, <2>1 DEF SameOrders, Told
    <3>2. Stands(k1, w)
      BY <1>1, <3>1, WakeForOrders
    <3> QED BY <1>1, <3>2, OrdersStand
  <2>2. CASE ~Deaf(kk, t)
    <3> DEFINE m == set_wake_reason(k1, t, r)
    <3>0. m \in KernelState
      BY <1>1, SetWakeReason DEF Quietly
    <3>1. /\ m.state = k1.state
          /\ m.sleep_reason = [k1.sleep_reason EXCEPT ![t] = "NONE"]
          /\ m.wake_reason = [k1.wake_reason EXCEPT ![t] = r]
          /\ k1.sleep_reason \in [Threads -> Reasons]
          /\ k1.wake_reason \in [Threads -> Reasons]
      BY <1>1 DEF KernelState, set_wake_reason
    <3> HIDE DEF m
    <3>2. SameOrders(m, w)
      BY <3>0, WakeOrders DEF m
    <3> HIDE DEF w
    <3>3. \A u \in Threads \ {t} : StandsFor(kk, w, u)
      BY <1>1, <3>1, <3>2 DEF StandsFor, Deaf, Told, SameOrders
    <3> QED BY <2>2, <3>3 DEF Stands, StandsFor, w
  <2> QED BY <1>1, <2>1, <2>2
<1>2. off \in KernelState /\ SameOrders(kk, off) /\ off.sleep_reason = kk.sleep_reason
  BY SetTimerField, QueuesOrders DEF Quietly, clear_timer, SameOrders
<1>3. SameOrders(kk, kk)
  BY OrdersStand
<1>4. Stands(kk, counted_wake(kk, t))
  <2>1. CASE "COUNTSLEEP" \notin kk.state[t]
    <3>1. counted_wake(kk, t) = [kk EXCEPT !.wakeup_count[t] = @ + 1]
      BY <2>1 DEF counted_wake
    <3>2. SameOrders(kk, [kk EXCEPT !.wakeup_count[t] = @ + 1])
      BY DEF KernelState, SameOrders
    <3> QED BY <3>1, <3>2, OrdersStand
  <2>2. CASE "COUNTSLEEP" \in kk.state[t]
    <3>1. ~Told(kk, t) \/ ~Deaf(kk, t)
      BY <2>2 DEF Deaf
    <3>2. Stands(kk, wake(set_wake_reason(kk, t, "DONE"), t))
      BY <1>1, <1>3, <3>1, ReasonNames
    <3> QED BY <2>2, <3>2 DEF counted_wake
  <2> QED BY <2>1, <2>2
<1>5. Stands(kk, cancel_counted_wake(kk, t))
  <2>1. SameOrders(kk, cancel_counted_wake(kk, t))
    BY DEF KernelState, SameOrders, cancel_counted_wake
  <2> QED BY <2>1, OrdersStand
<1>6. Stands(kk, release(kk, t))
  <2>1. CASE kk.sleep_reason[t] \in Breakable
    <3>1. ~Told(kk, t) \/ ~Deaf(kk, t)
      BY <2>1 DEF Deaf, Breakable
    <3>2. Stands(kk, wake(set_wake_reason(kk, t, "BREAK"), t))
      BY <1>1, <1>3, <3>1, ReasonNames
    <3> QED BY <2>1, <3>2 DEF release
  <2>2. CASE kk.sleep_reason[t] \notin Breakable
    BY <2>2, OrdersStand DEF release
  <2> QED BY <2>1, <2>2
<1>7. Stands(kk, alarm(kk, t))
  <2>1. CASE kk.sleep_reason[t] \in {"DELAY", "TIMEOUT"}
    <3>1. ~Told(kk, t) \/ ~Deaf(kk, t)
      BY <2>1 DEF Deaf
    <3>2. \A r \in {"DONE", "TIMEOUT"} : Stands(kk, wake(set_wake_reason(off, t, r), t))
      BY <1>1, <1>2, <3>1, ReasonNames
    <3>3. \E r \in {"DONE", "TIMEOUT"} : alarm(kk, t) = wake(set_wake_reason(off, t, r), t)
      BY <2>1 DEF alarm
    <3> QED BY <3>2, <3>3
  <2>2. CASE kk.sleep_reason[t] \notin {"DELAY", "TIMEOUT"}
    <3>1. alarm(kk, t) = off
      BY <2>2 DEF alarm
    <3> QED BY <1>2, <3>1, OrdersStand
  <2> QED BY <2>1, <2>2
<1> QED BY <1>4, <1>5, <1>6, <1>7

\* Suspending and resuming leave the reasons alone.
LEMMA SuspendingOrders ==
    ASSUME NEW kk \in KernelState, NEW t \in Threads
    PROVE  /\ SameOrders(kk, suspend(kk, t)) /\ SameOrders(kk, resume(kk, t))
           /\ SameOrders(kk, force_resume(kk, t))
<1> DEFINE off == IF kk.state[t] = RUNNING THEN rem_thread(kk, t) ELSE kk
           v == off.state[t] \cup {"SUSPENDED"}
           n == off.suspend_count[t] + 1
           x == kk.state[t] \ {"SUSPENDED"}
           m == set_suspend(kk, t, x, 0)
<1>1. SameOrders(kk, suspend(kk, t))
  <2>1. off \in KernelState /\ SameOrders(kk, off)
    BY RemThread, QueuesOrders, OrdersStand
  <2>2. suspend(kk, t) = set_suspend(off, t, v, n)
    BY DEF suspend, set_suspend
  <2> HIDE DEF off
  <2>3. v \in SUBSET StateBits
    BY <2>1, SleepTypes DEF StateBits
  <2>4. SameOrders(off, set_suspend(off, t, v, n))
    BY <2>1, <2>3, StateOrders
  <2> QED BY <2>1, <2>2, <2>4, OrdersStand
<1>2. SameOrders(kk, unsuspend(kk, t))
  <2>1. x \in SUBSET StateBits
    BY SleepTypes
  <2>2. m \in KernelState /\ SameOrders(kk, m)
    <3> HIDE DEF m
    <3>1. m \in KernelState
      BY <2>1, SetSuspend DEF m
    <3>2. SameOrders(kk, m)
      BY <2>1, StateOrders DEF m
    <3> QED BY <3>1, <3>2
  <2>3. unsuspend(kk, t) = runnable_again(m, t)
    BY DEF unsuspend, set_suspend
  <2> HIDE DEF m
  <2> QED BY <2>2, <2>3, AddOrders, OrdersStand
<1>3. SameOrders(kk, [kk EXCEPT !.suspend_count[t] = @ - 1]) /\ SameOrders(kk, kk)
  BY DEF KernelState, SameOrders
<1> QED BY <1>1, <1>2, <1>3 DEF resume, force_resume

\* Nor do a thread's own exit and the end of a killed one touch them.
LEMMA ExitOrders ==
    ASSUME NEW kk \in KernelState, NEW t \in Threads
    PROVE  /\ SameOrders(kk, exit(kk)) /\ SameOrders(kk, deschedule(kk, t))
           /\ deschedule(kk, t) \in KernelState
           /\ "EXITED" \in exit(kk).state[kk.current_thread]
<1> DEFINE c == kk.current_thread
           off == clear_timer(kk, c)
           v == {"EXITED"}
           m == [off EXCEPT !.state[c] = v]
           dq == IF kk.state[t] = RUNNING THEN rem_thread(kk, t) ELSE kk
<1>1. c \in Threads /\ v \in SUBSET StateBits
  BY DEF KernelState, StateBits
<1>2. off \in KernelState /\ SameOrders(kk, off) /\ off.state = kk.state
  BY <1>1, SetTimerField, QueuesOrders DEF Quietly, clear_timer
<1>3. exit(kk) = IF kk.state[c] = v THEN off ELSE rem_thread(m, c)
  BY DEF exit
<1> HIDE DEF off, v
<1>4. /\ m \in KernelState /\ SameOrders(off, m)
      /\ m.state = [off.state EXCEPT ![c] = v]
  BY <1>1, <1>2, SetState, StateOrders DEF v
<1> HIDE DEF m
<1>5. SameOrders(m, rem_thread(m, c)) /\ SameSleep(m, rem_thread(m, c))
  BY <1>1, <1>4, QueuesOrders, QueuesSleep
<1>6. SameOrders(kk, exit(kk))
  BY <1>2, <1>3, <1>4, <1>5, OrdersStand
<1>7. "EXITED" \in exit(kk).state[c]
  <2>1. m.state[c] = v
    BY <1>1, <1>2, <1>4, SleepTypes
  <2> QED BY <1>2, <1>3, <1>5, <2>1 DEF SameSleep, v
<1>8. dq \in KernelState /\ SameOrders(kk, dq) /\ deschedule(kk, t) = [dq EXCEPT !.state[t] = v]
  BY RemThread, QueuesOrders, OrdersStand DEF deschedule, v
<1> HIDE DEF dq
<1>9. /\ SameOrders(dq, [dq EXCEPT !.state[t] = v])
      /\ [dq EXCEPT !.state[t] = v] \in KernelState
  BY <1>1, <1>8, SetState, StateOrders DEF v
<1>10. SameOrders(kk, deschedule(kk, t)) /\ deschedule(kk, t) \in KernelState
  BY <1>8, <1>9, OrdersStand
<1> QED BY <1>6, <1>7, <1>10

\* kill() gives the order, or finds it given.
LEMMA KillOrders ==
    ASSUME NEW kk, Good(kk), NEW t \in Threads \ {Idle}
    PROVE  Stands(kk, kill(kk, t))
<1> DEFINE f  == force_resume(kk, t)
           up == clear_timer(f, t)
           d  == deschedule(up, t)
           w  == wake(set_wake_reason(up, t, "EXIT"), t)
<1>1. kk \in KernelState /\ f \in KernelState
  BY GoodType, Resume DEF Step
<1>2. kill(kk, t) \in {up, wake(up, t), wake(d, t), w}
  BY DEF kill
<1>3. SameOrders(kk, f)
  BY <1>1, SuspendingOrders
<1> HIDE DEF f
<1>4. up \in KernelState /\ SameOrders(kk, up)
  BY <1>1, <1>3, SetTimerField, QueuesOrders, OrdersStand DEF Quietly, clear_timer
<1> HIDE DEF up
<1>5. d \in KernelState /\ SameOrders(up, d)
  BY <1>4, ExitOrders
<1> HIDE DEF d
<1>6. SameOrders(up, wake(up, t)) /\ SameOrders(d, wake(d, t))
  BY <1>4, <1>5, WakeOrders
<1>7. Stands(up, w)
  BY <1>4, WakeForOrders, ReasonNames
<1> HIDE DEF w
<1>8. \A v \in {up, wake(up, t), wake(d, t), w} : Stands(up, v)
  BY <1>5, <1>6, <1>7, OrdersStand
<1> QED BY <1>2, <1>4, <1>8, OrdersStand

\* Priorities and rotations have nothing to do with it.
LEMMA QueueingOrders ==
    ASSUME NEW kk, Good(kk), NEW t \in Threads \ {Idle}, NEW p \in Priorities
    PROVE  /\ SameOrders(kk, set_priority(kk, t, p)) /\ SameOrders(kk, yield(kk))
           /\ SameOrders(kk, rotate_queue(kk, p)) /\ SameOrders(kk, timeslice(kk))
<1> DEFINE c == kk.current_thread
           q == kk.queue[t]
           r == rem_thread(kk, t)
           a == assign_priority(r, t, p)
           m1 == add_thread(a, t)
           l == leave_queue(kk, t)
           b == assign_priority(l, t, p)
           m2 == enqueue(b, q, t)
           m3 == assign_priority(kk, t, p)
           o == rotate_current(kk)
           z == rotated(kk, p)
<1>1. kk \in KernelState /\ c \in Threads /\ t \in Threads
  BY GoodType
<1>2. m1 \in KernelState /\ SameOrders(kk, m1)
  <2>1. r \in KernelState /\ SameOrders(kk, r)
    BY <1>1, RemThread, QueuesOrders
  <2> HIDE DEF r
  <2>2. a \in KernelState /\ SameOrders(r, a)
    BY <1>1, <2>1, AssignPriority, QueuesOrders
  <2> HIDE DEF a
  <2>3. SameOrders(a, m1) /\ m1 \in KernelState
    BY <1>1, <2>2, RunnableSleep, AddOrders
  <2> QED BY <2>1, <2>2, <2>3, OrdersStand
<1>3. ASSUME q # NoQueue PROVE m2 \in KernelState /\ SameOrders(kk, m2)
  <2>1. l \in KernelState /\ SameOrders(kk, l)
    BY <1>1, LeaveQueue, QueuesOrders DEF Quietly
  <2>2. q \in WaitQueues
    BY <1>1, <1>3 DEF KernelState
  <2> HIDE DEF l, q
  <2>3. b \in KernelState /\ SameOrders(l, b)
    BY <1>1, <2>1, AssignPriority, QueuesOrders
  <2> HIDE DEF b
  <2>4. m2 \in KernelState /\ SameOrders(b, m2)
    BY <1>1, <2>2, <2>3, Enqueue, QueuesOrders DEF Quietly
  <2> QED BY <2>1, <2>3, <2>4, OrdersStand
<1>4. m3 \in KernelState /\ SameOrders(kk, m3)
  BY <1>1, AssignPriority, QueuesOrders
<1>5. PICK m \in KernelState : SameOrders(kk, m) /\ set_priority(kk, t, p) = notify_priority(m, t)
  <2>1. \/ set_priority(kk, t, p) = notify_priority(m1, t)
        \/ set_priority(kk, t, p) = notify_priority(m2, t) /\ q # NoQueue
        \/ set_priority(kk, t, p) = notify_priority(m3, t)
    BY DEF set_priority
  <2> HIDE DEF m1, m2, m3
  <2> QED BY <1>2, <1>3, <1>4, <2>1
<1>6. SameOrders(kk, set_priority(kk, t, p))
  BY <1>1, <1>5, QueuesOrders, OrdersStand DEF notify_priority
<1>7. o \in KernelState /\ z \in KernelState /\ SameOrders(kk, o) /\ SameOrders(kk, z)
  BY <1>1, CurrentQueue, Rotate, QueuesOrders, GoodType DEF Step
<1>8. /\ yield(kk) \in {kk, timeslice_reset(o, c), set_need_reschedule(o)}
      /\ rotate_queue(kk, p) \in {kk, set_need_reschedule(z)}
  BY DEF yield, rotate_queue, rotated
<1> HIDE DEF o, z
<1>9. SameOrders(kk, yield(kk)) /\ SameOrders(kk, rotate_queue(kk, p))
  <2>1. /\ SameOrders(o, timeslice_reset(o, c)) /\ SameOrders(o, set_need_reschedule(o))
        /\ SameOrders(z, set_need_reschedule(z))
    BY <1>1, <1>7, QueuesOrders
  <2>2. \A v \in {kk, timeslice_reset(o, c), set_need_reschedule(o),
                  set_need_reschedule(z)} : SameOrders(kk, v)
    BY <1>7, <2>1, OrdersStand
  <2> QED BY <1>8, <2>2
<1>10. SameOrders(kk, timeslice(kk))
  <2> DEFINE n == (kk.slice + CountMod - 1) % CountMod
             d == [kk EXCEPT !.slice = n]
             e == rotate_current(d)
             y == [e EXCEPT !.slice = Quantum]
  <2>1. n \in 0..CountMod-1 /\ Quantum \in 0..CountMod-1
    <3>1. kk.slice \in 0..CountMod-1 /\ CountMod \in Nat \ {0}
      BY <1>1, QuantumAssumption DEF KernelState
    <3> QED BY <3>1, QuantumAssumption
  <2>2. timeslice(kk) \in {d, y, set_need_reschedule(y)}
    BY DEF timeslice, timeslice_cpu
  <2> HIDE DEF n
  <2>3. SameOrders(kk, d) /\ Good(d) /\ d \in KernelState
    <3>1. Quietly(kk, d)
      BY <1>1, <2>1, SetSlice
    <3>2. SameOrders(kk, d)
      BY <1>1, QueuesOrders
    <3> HIDE DEF d
    <3> QED BY <3>1, <3>2, QuietAfter
  <2> HIDE DEF d
  <2>4. e \in KernelState /\ SameOrders(d, e)
    BY <1>1, <2>3, CurrentQueue, QueuesOrders, GoodType DEF Step
  <2> HIDE DEF e
  <2>5. y \in KernelState /\ SameOrders(e, y)
    BY <1>1, <2>1, <2>4, SetSlice, QueuesOrders DEF Quietly
  <2> HIDE DEF y
  <2>6. SameOrders(y, set_need_reschedule(y))
    BY <1>1, <2>5, QueuesOrders
  <2> QED BY <2>2, <2>3, <2>4, <2>5, <2>6, OrdersStand
<1> QED BY <1>6, <1>9, <1>10

\* A call may lift the order of its own caller, who is not in a sleep.
StandsBut(kk, k2, c) == \A u \in Threads : /\ u # c => StandsFor(kk, k2, u)
                                           /\ Deaf(kk, u) => Deaf(k2, u)

\* Going to sleep concerns the state of the caller.
LEMMA FallsAsleep ==
    ASSUME NEW kk, Good(kk), kk.current_thread # Idle
    PROVE  \A k2 \in {sleep(kk), counted(kk)} :
              /\ k2 \in KernelState /\ k2.current_thread = kk.current_thread
              /\ k2.wake_reason = kk.wake_reason /\ k2.sleep_reason = kk.sleep_reason
              /\ \A u \in Threads \ {kk.current_thread} : k2.state[u] = kk.state[u]
<1> DEFINE c == kk.current_thread
           off == IF kk.state[c] = RUNNING THEN rem_thread(kk, c) ELSE kk
           s == sleep(kk)
           n == counted(kk)
<1>1. kk \in KernelState /\ c \in Threads
  BY GoodType
<1>2. off \in KernelState /\ SameOrders(kk, off)
  <2>1. rem_thread(kk, c) \in KernelState /\ SameOrders(kk, rem_thread(kk, c))
    BY <1>1, RemThread, QueuesOrders
  <2> QED BY <1>1, <2>1, OrdersStand
<1>3. s = [off EXCEPT !.state[c] = @ \cup {"SLEEPING"}]
      /\ n = [s EXCEPT !.state[c] = @ \cup {"COUNTSLEEP"}]
  BY DEF sleep, counted
<1>4. /\ s \in KernelState /\ n \in KernelState
      /\ s.current_thread = c /\ n.current_thread = c
      /\ s.state = [kk.state EXCEPT ![c] = @ \cup {"SLEEPING"}]
      /\ n.state = [kk.state EXCEPT ![c] = @ \cup SLEEPSET]
      /\ s.sleep_reason = kk.sleep_reason /\ n.sleep_reason = kk.sleep_reason
  BY SleepSleep, Sleep, Counted, GoodType DEF Step
<1> HIDE DEF off, s, n
<1>5. s.wake_reason = kk.wake_reason /\ n.wake_reason = kk.wake_reason
  BY <1>2, <1>3, <1>4 DEF KernelState, SameOrders
<1>6. kk.state \in [Threads -> SUBSET StateBits]
  BY <1>1, SleepTypes
<1>7. \A u \in Threads \ {c} : s.state[u] = kk.state[u] /\ n.state[u] = kk.state[u]
  BY ONLY <1>1, <1>4, <1>6
<1> QED BY <1>4, <1>5, <1>7 DEF s, n

\* set_sleep_reason() and set_timer() lift the order of their caller.
LEMMA ReasonOrders ==
    ASSUME NEW kk \in KernelState, NEW r \in Reasons
    PROVE  \A k2 \in {set_sleep_reason(kk, r), set_timer(kk, r)} :
              /\ ~Told(k2, kk.current_thread)
              /\ k2.state = kk.state
              /\ \A u \in Threads \ {kk.current_thread} :
                    /\ k2.wake_reason[u] = kk.wake_reason[u]
                    /\ k2.sleep_reason[u] = kk.sleep_reason[u]
<1> DEFINE c == kk.current_thread
<1>1. /\ c \in Threads /\ kk.sleep_reason \in [Threads -> Reasons]
      /\ kk.wake_reason \in [Threads -> Reasons]
  BY DEF KernelState
<1> SUFFICES ASSUME NEW k2 \in {set_sleep_reason(kk, r), set_timer(kk, r)}
             PROVE  /\ ~Told(k2, c) /\ k2.state = kk.state
                    /\ \A u \in Threads \ {c} :
                          /\ k2.wake_reason[u] = kk.wake_reason[u]
                          /\ k2.sleep_reason[u] = kk.sleep_reason[u]
  OBVIOUS
<1>2. /\ k2.state = kk.state
      /\ k2.sleep_reason = [kk.sleep_reason EXCEPT ![c] = r]
      /\ k2.wake_reason = [kk.wake_reason EXCEPT ![c] = "NONE"]
  BY DEF KernelState, set_sleep_reason, set_timer
<1>3. k2.wake_reason[c] = "NONE" /\ k2.state = kk.state
  BY <1>1, <1>2
<1>4. \A u \in Threads \ {c} : /\ k2.wake_reason[u] = kk.wake_reason[u]
                               /\ k2.sleep_reason[u] = kk.sleep_reason[u]
  BY <1>1, <1>2
<1> QED BY <1>3, <1>4 DEF Told

\* Every way to sleep lets the orders of the other threads stand.
LEMMA SleepingOrders ==
    ASSUME NEW kk, Good(kk), kk.current_thread # Idle
    PROVE  \A k2 \in {counted_sleep(kk), consume_wakeup(kk),
                      timed_counted_sleep(set_timer(kk, "TIMEOUT")),
                      alarm(set_timer(kk, "TIMEOUT"), kk.current_thread),
                      delay(kk), alarm(delay(kk), kk.current_thread)} :
              StandsBut(kk, k2, kk.current_thread)
<1> DEFINE c  == kk.current_thread
           Same(a, b) == \A u \in Threads \ {c} :
                            /\ b.wake_reason[u] = a.wake_reason[u]
                            /\ b.sleep_reason[u] = a.sleep_reason[u]
                            /\ b.state[u] = a.state[u]
           w  == set_sleep_reason(kk, "WAIT")
           st == set_timer(kk, "TIMEOUT")
           x  == set_sleep_reason(st, "TIMEOUT")
           sl == sleep(kk)
           dl == set_timer(sl, "DELAY")
<1>1. kk \in KernelState /\ c \in Threads
  BY GoodType
<1>2. ASSUME NEW k2, Same(kk, k2), ~Told(k2, c) PROVE StandsBut(kk, k2, c)
  BY <1>2 DEF StandsBut, StandsFor, Deaf, Told
<1>3. ASSUME NEW k2, NEW k3, StandsBut(kk, k2, c), Stands(k2, k3)
      PROVE  StandsBut(kk, k3, c)
  BY <1>3 DEF StandsBut, Stands, StandsFor
<1>4. /\ Good(w) /\ w.current_thread = c /\ Same(kk, w) /\ ~Told(w, c)
  BY <1>1, ReasonSteps, ReasonNames, ReasonOrders DEF Step
<1>5. /\ Good(st) /\ st \in KernelState /\ st.current_thread = c
      /\ Same(kk, st) /\ ~Told(st, c)
  BY <1>1, ReasonSteps, ReasonNames, ReasonOrders, GoodType DEF Step
<1>6. counted_sleep(kk) = counted(w) /\ timed_counted_sleep(st) = counted(x)
      /\ delay(kk) = dl
  BY DEF counted_sleep, timed_counted_sleep, delay
<1> HIDE DEF w, st
<1>7. /\ Good(x) /\ x.current_thread = c /\ Same(st, x) /\ ~Told(x, c)
  <2>1. Step(st, x)
    BY <1>1, <1>5, ReasonSteps, ReasonNames
  <2>2. /\ x.state = st.state /\ ~Told(x, c)
        /\ \A u \in Threads \ {c} : /\ x.wake_reason[u] = st.wake_reason[u]
                                   /\ x.sleep_reason[u] = st.sleep_reason[u]
    BY <1>5, ReasonNames, ReasonOrders
  <2> QED BY <1>5, <2>1, <2>2 DEF Step
<1> HIDE DEF x
<1>8. ASSUME NEW a, Good(a), a.current_thread = c, Same(kk, a), ~Told(a, c)
      PROVE  StandsBut(kk, counted(a), c)
  BY <1>2, <1>8, FallsAsleep DEF Told
<1>9. StandsBut(kk, counted(w), c) /\ StandsBut(kk, counted(x), c)
  BY <1>4, <1>5, <1>7, <1>8
<1>10. StandsBut(kk, st, c) /\ Stands(st, alarm(st, c))
  BY <1>1, <1>2, <1>5, WakingOrders
<1>11. sl \in KernelState /\ sl.current_thread = c /\ Same(kk, sl)
  BY FallsAsleep
<1> HIDE DEF sl
<1>12. Same(sl, dl) /\ ~Told(dl, c)
  BY <1>11, ReasonNames, ReasonOrders
<1>13. dl \in KernelState
  BY <1>6, Sleeps, GoodType DEF Step
<1> HIDE DEF dl
<1>14. StandsBut(kk, dl, c) /\ Stands(dl, alarm(dl, c))
  BY <1>1, <1>2, <1>11, <1>12, <1>13, WakingOrders
<1>15. StandsBut(kk, consume_wakeup(kk), c)
  <2>1. SameOrders(kk, consume_wakeup(kk))
    BY DEF KernelState, SameOrders, consume_wakeup
  <2> QED BY <2>1, OrdersStand DEF Stands, StandsBut, StandsFor
<1> QED BY <1>3, <1>6, <1>9, <1>10, <1>14, <1>15 DEF st

\* The calls.
LEMMA CallOrders ==
    ASSUME IInv, ThreadCall
    PROVE  /\ stack = <<>> /\ StandsBut(k, k', current)
           /\ \A u \in Threads \ {current} : frames'[u] = frames[u]
<1> DEFINE Effect == StandsBut(k, k', current)
<1>1. Good(k) /\ k \in KernelState /\ current \in Threads /\ current = k.current_thread
  BY Types DEF current
<1>2. stack = <<>>
  BY CallEffect
<1>3. \A u \in Threads \ {current} : frames'[u] = frames[u]
  <2>1. frames' = frames \/ \E s : SetStack(s)
    BY DEF ThreadCall, scheduler_lock, scheduler_unlock, CallCountedSleep, CallTimedSleep,
           CallDelay, CallYield, CallExit, CallNewDataIndex, CallRotateQueue,
           CallFreeDataIndex, CallCountedWake, CallCancelWakeups, CallSuspend, CallResume,
           CallForceResume, CallRelease, CallKill, CallSetPriority, Exit, Call,
           unlock, reschedule, unlock_reschedule
  <2> QED BY <1>1, <2>1, Types DEF SetStack
<1> SUFFICES Effect
  BY <1>2, <1>3 DEF Effect
<1>4. ASSUME Stands(k, k') PROVE Effect
  BY <1>4 DEF Stands, StandsBut, StandsFor
<1>5. ASSUME SameOrders(k, k') PROVE Effect
  BY <1>4, <1>5, OrdersStand
<1>6. k' = k => Effect
  BY <1>4, OrdersStand
<1>7. ASSUME NEW c, MayCall(c) PROVE k.current_thread # Idle
  BY <1>7 DEF MayCall, InUserCode, current
<1>8. CASE scheduler_lock \/ scheduler_unlock \/ CallNewDataIndex
           \/ \E i \in Slots : CallFreeDataIndex(i)
  BY <1>6, <1>8 DEF scheduler_lock, scheduler_unlock, CallNewDataIndex, CallFreeDataIndex
<1>9. CASE CallCountedSleep \/ CallTimedSleep \/ CallDelay
  <2>1. k' \in {counted_sleep(k), consume_wakeup(k),
                timed_counted_sleep(set_timer(k, "TIMEOUT")),
                alarm(set_timer(k, "TIMEOUT"), current),
                delay(k), alarm(delay(k), current)}
        /\ \E c : MayCall(c)
    BY <1>9 DEF CallCountedSleep, CallTimedSleep, CallDelay, Call
  <2> QED BY <1>1, <1>7, <2>1, SleepingOrders
<1>10. CASE CallYield
  <2>1. k' = yield(k) /\ k.current_thread # Idle
    BY <1>7, <1>10 DEF CallYield
  <2>2. MinPriority \in Priorities
    BY PriorityAssumption DEF Priorities
  <2> QED BY <1>1, <1>5, <2>1, <2>2, QueueingOrders
<1>11. ASSUME k' = exit(k) PROVE Effect
  BY <1>1, <1>5, <1>11, ExitOrders
<1>12. CASE CallExit
  BY <1>11, <1>12 DEF CallExit, Exit
<1>13. ASSUME NEW p \in UserPriorities,
              CallRotateQueue(p) \/ \E t \in Users : CallSetPriority(t, p)
       PROVE  Effect
  <2>1. p \in Priorities
    BY PriorityAssumption DEF UserPriorities, Priorities
  <2>2. CASE CallRotateQueue(p)
    <3>1. k' = rotate_queue(k, p) /\ k.current_thread # Idle
      BY <1>7, <2>2 DEF CallRotateQueue, Call
    <3> QED BY <1>1, <1>5, <2>1, <3>1, QueueingOrders
  <2>3. ASSUME NEW t \in Users, CallSetPriority(t, p) PROVE Effect
    <3>1. k' = set_priority(k, t, p) /\ t \in Threads \ {Idle}
      BY <2>3 DEF CallSetPriority, Call, Users
    <3> QED BY <1>1, <1>5, <2>1, <3>1, QueueingOrders
  <2> QED BY <1>13, <2>2, <2>3
<1>14. ASSUME NEW t \in Users, CallKill(t) PROVE Effect
  <2>1. t \in Threads \ {Idle}
    BY DEF Users
  <2>2. k' = exit(k) \/ k' = kill(k, t)
    BY <1>14 DEF CallKill, Exit, Call
  <2> QED BY <1>1, <1>4, <1>11, <2>1, <2>2, KillOrders
<1>15. ASSUME NEW t \in Users,
              \/ CallCountedWake(t) \/ CallCancelWakeups(t) \/ CallSuspend(t)
              \/ CallResume(t) \/ CallForceResume(t) \/ CallRelease(t)
       PROVE  Effect
  <2>1. k' \in {counted_wake(k, t), cancel_counted_wake(k, t), suspend(k, t),
                resume(k, t), force_resume(k, t), release(k, t)}
    BY <1>15 DEF CallCountedWake, CallCancelWakeups, CallSuspend, CallResume,
                 CallForceResume, CallRelease, Call
  <2>2. t \in Threads
    BY DEF Users
  <2> QED BY <1>1, <1>4, <1>5, <2>1, <2>2, WakingOrders, SuspendingOrders
<1> HIDE DEF Effect
<1> QED BY <1>8, <1>9, <1>10, <1>12, <1>13, <1>14, <1>15 DEF ThreadCall

\* The DSRs, and the steps of unlock_inner() that choose a thread.
LEMMA InnerOrders ==
    ASSUME IInv, DSRs \/ KeepRunning \/ \E t \in Threads : SwitchTo(t)
    PROVE  Stands(k, k')
<1>1. Good(k) /\ k \in KernelState /\ current \in Threads /\ current = k.current_thread
  BY Types DEF current
<1>2. CASE \E i \in Devices : DeviceDSR(i)
  <2>1. CASE k' = k
    BY <2>1, OrdersStand
  <2>2. CASE \E c \in DsrCalls, t \in Users : k' = DsrBody(c, t)
    <3>1. PICK c \in DsrCalls, t \in Users : k' = DsrBody(c, t)
      BY <2>2
    <3>2. k' \in {counted_wake(k, t), suspend(k, t), resume(k, t), release(k, t)}
          /\ t \in Threads
      BY <3>1, DsrCallsAssumption DEF DsrBody, Users
    <3> QED BY <1>1, <3>2, WakingOrders, SuspendingOrders, OrdersStand
  <2> QED BY <1>2, <2>1, <2>2 DEF DeviceDSR
<1>3. CASE \E t \in Users : ClockAlarm(t)
  <2>1. PICK t \in Threads : k' = alarm(k, t)
    BY <1>3 DEF ClockAlarm, Users
  <2> QED BY <1>1, <2>1, WakingOrders
<1>4. CASE ClockTimeslice
  <2>1. MinPriority \in Priorities /\ \E t : t \in Users
    BY PriorityAssumption, MainAssumption DEF Priorities
  <2>2. PICK t \in Threads \ {Idle} : TRUE
    BY <2>1 DEF Users
  <2> QED BY <1>1, <1>4, <2>1, <2>2, QueueingOrders, OrdersStand DEF ClockTimeslice
<1>5. CASE KeepRunning
  <2>1. k' = [k EXCEPT !.need_reschedule = ~NeedSwitch /\ @]
    BY <1>5 DEF KeepRunning
  <2>2. SameOrders(k, k')
    BY <1>1, <2>1 DEF KernelState, SameOrders
  <2> QED BY <2>2, OrdersStand
<1>6. ASSUME NEW t \in Threads, SwitchTo(t) PROVE Stands(k, k')
  <2>1. /\ k'.wake_reason = k.wake_reason /\ k'.sleep_reason = k.sleep_reason
        /\ k'.state = k.state
    BY <1>1, <1>6 DEF SwitchTo, KernelState, timeslice_save, timeslice_reset,
                      timeslice_restore
  <2> QED BY <2>1, OrdersStand DEF SameOrders
<1> QED BY <1>2, <1>3, <1>4, <1>5, <1>6 DEF DSRs

-----------------------------------------------------------------------------
(* The third invariant: nothing is left of a sleep that a kill ended.      *)

OrderInv == IInv /\ \A t \in Threads : Deaf(k, t)

\* A thread told to exit is still in its sleep call, and told, or exits.
Obeys(t) ==
    InSleepCall(frames[t]) /\ Told(k, t) =>
        \/ InSleepCall(frames'[t]) /\ Told(k', t)
        \/ "EXITED" \in k'.state[t]

\* What a change of the stack does to the sleep call at its bottom.
LEMMA SleepFrames ==
    ASSUME NEW s \in Seq(Frame)
    PROVE  /\ s # <<>> /\ Head(s).pc \in {"timed", "delayed", "woken"} => InSleepCall(s)
           /\ \A f : InSleepCall(s) => InSleepCall(<<f>> \o s)
           /\ \A f : f.pc \in {"timed", "delayed", "woken"} => InSleepCall(<<f>> \o s)
           /\ s # <<>> /\ Head(s).pc \notin {"timed", "delayed", "woken"} =>
                 (InSleepCall(s) => InSleepCall(Tail(s)))
<1>1. ASSUME s # <<>>, Head(s).pc \in {"timed", "delayed", "woken"} PROVE InSleepCall(s)
  <2>1. 1 \in 1..Len(s) /\ s[1] = Head(s)
    BY <1>1
  <2> QED BY <1>1, <2>1 DEF InSleepCall
<1>2. ASSUME NEW f, InSleepCall(s) PROVE InSleepCall(<<f>> \o s)
  <2> DEFINE p == <<f>> \o s
  <2>1. PICK n \in 1..Len(s) : s[n].pc \in {"timed", "delayed", "woken"}
    BY <1>2 DEF InSleepCall
  <2>2. n + 1 \in 1..Len(p) /\ p[n + 1] = s[n]
    OBVIOUS
  <2> HIDE DEF p
  <2> QED BY <2>1, <2>2 DEF InSleepCall, p
<1>3. ASSUME NEW f, f.pc \in {"timed", "delayed", "woken"} PROVE InSleepCall(<<f>> \o s)
  <2> DEFINE p == <<f>> \o s
  <2>1. 1 \in 1..Len(p) /\ p[1] = f
    OBVIOUS
  <2> HIDE DEF p
  <2> QED BY <1>3, <2>1 DEF InSleepCall, p
<1>4. ASSUME s # <<>>, Head(s).pc \notin {"timed", "delayed", "woken"}, InSleepCall(s)
      PROVE  InSleepCall(Tail(s))
  <2>1. PICK n \in 1..Len(s) : s[n].pc \in {"timed", "delayed", "woken"}
    BY <1>4 DEF InSleepCall
  <2>2. n # 1
    BY <1>4, <2>1
  <2>3. n - 1 \in 1..Len(Tail(s)) /\ Tail(s)[n - 1] = s[n]
    BY <1>4, <2>2
  <2> QED BY <2>1, <2>3 DEF InSleepCall
<1> QED BY <1>1, <1>2, <1>3, <1>4

\* Where the orders stand, it is enough that the sleep calls stay.
LEMMA StandsObeyed ==
    ASSUME OrderInv, Stands(k, k'),
           \A t \in Threads \ {current} : frames'[t] = frames[t],
           InSleepCall(stack) => InSleepCall(frames'[current])
    PROVE  \A t \in Threads : Deaf(k', t) /\ Obeys(t)
BY DEF OrderInv, Stands, StandsFor, Obeys, stack

\* Setting the running thread's stack leaves the others alone.
LEMMA OnlyStack ==
    ASSUME IInv, NEW s, SetStack(s)
    PROVE  /\ frames'[current] = s
           /\ \A t \in Threads \ {current} : frames'[t] = frames[t]
BY Types DEF SetStack

\* unlock() leaves a sleep call below it alone.
LEMMA UnlockObeyed ==
    ASSUME OrderInv, Stands(k, k'), NEW held, NEW rest \in Seq(Frame), unlock(held, rest),
           InSleepCall(stack) => InSleepCall(rest)
    PROVE  \A t \in Threads : Deaf(k', t) /\ Obeys(t)
<1> DEFINE s == <<unlock_inner(0)>> \o rest
<1>1. SetStack(s) \/ SetStack(rest)
  BY DEF unlock
<1>2. InSleepCall(rest) => InSleepCall(s)
  BY SleepFrames
<1> HIDE DEF s
<1>3. /\ InSleepCall(rest) => InSleepCall(frames'[current])
      /\ \A t \in Threads \ {current} : frames'[t] = frames[t]
  BY <1>1, <1>2, OnlyStack DEF OrderInv
<1> QED BY <1>3, StandsObeyed

\* So do Goto and Return, at a frame that is none.
LEMMA GotoObeyed ==
    ASSUME OrderInv, Stands(k, k'), NEW from \in Places \ {"timed", "delayed", "woken"},
           At(from), Return \/ \E pc : Goto(pc)
    PROVE  \A t \in Threads : Deaf(k', t) /\ Obeys(t)
<1>1. /\ IInv /\ stack \in Seq(Frame) /\ stack # <<>> /\ Tail(stack) \in Seq(Frame)
      /\ Head(stack).pc \notin {"timed", "delayed", "woken"}
  BY AtTop DEF OrderInv
<1>2. InSleepCall(stack) => InSleepCall(Tail(stack))
  BY <1>1, SleepFrames
<1>3. CASE Return
  BY <1>1, <1>2, <1>3, OnlyStack, StandsObeyed DEF Return
<1>4. ASSUME NEW pc, Goto(pc) PROVE \A t \in Threads : Deaf(k', t) /\ Obeys(t)
  <2> DEFINE f == [pc |-> pc, new_lock |-> new_lock]
             s == <<f>> \o Tail(stack)
  <2>1. InSleepCall(Tail(stack)) => InSleepCall(s)
    BY <1>1, SleepFrames
  <2>2. SetStack(s)
    BY <1>4 DEF Goto
  <2> HIDE DEF s
  <2> QED BY <1>1, <1>2, <2>1, <2>2, OnlyStack, StandsObeyed
<1> QED BY <1>3, <1>4

\* A switch changes the place of two frames, neither in a sleep call itself.
LEMMA SwitchObeyed ==
    ASSUME OrderInv, NEW next \in Threads, SwitchTo(next)
    PROVE  \A t \in Threads : Deaf(k', t) /\ Obeys(t)
<1> DEFINE old == frames[next]
           f == [Head(stack) EXCEPT !.pc = "switched"]
           g == [Head(old) EXCEPT !.pc = IF Head(old).pc = "entry" THEN "unwind" ELSE "finish"]
           out == <<f>> \o Tail(stack)
           in  == <<g>> \o Tail(old)
<1>1. /\ IInv /\ Stands(k, k') /\ At("resched") /\ next # current
      /\ frames \in [Threads -> Seq(Frame)] /\ current \in Threads
  BY InnerOrders, Types DEF OrderInv, SwitchTo
<1>2. /\ stack \in Seq(Frame) /\ stack # <<>> /\ Head(stack).pc = "resched"
      /\ Tail(stack) \in Seq(Frame)
  BY <1>1, AtTop
<1>3. /\ old \in Seq(Frame) /\ old # <<>> /\ Head(old).pc \in {"switched", "entry"}
      /\ Tail(old) \in Seq(Frame)
  BY <1>1 DEF IInv, SwitchedOut
<1>4. frames' = [frames EXCEPT ![current] = out, ![next] = in]
  BY <1>1 DEF SwitchTo, stack
<1>5. InSleepCall(stack) => InSleepCall(out)
  <2>1. InSleepCall(stack) => InSleepCall(Tail(stack))
    BY <1>2, SleepFrames
  <2> QED BY <1>2, <2>1, SleepFrames
<1>6. InSleepCall(old) => InSleepCall(in)
  <2>1. InSleepCall(old) => InSleepCall(Tail(old))
    BY <1>3, SleepFrames
  <2> QED BY <1>3, <2>1, SleepFrames
<1> HIDE DEF out, in
<1>7. \A t \in Threads : InSleepCall(frames[t]) => InSleepCall(frames'[t])
  BY <1>1, <1>4, <1>5, <1>6 DEF stack
<1> QED BY <1>1, <1>7 DEF OrderInv, Stands, StandsFor, Obeys

\* The rest of a sleep: it stays in the call until it looks at the reason, and
\* exits where that is to exit.
LEMMA RestObeyed ==
    ASSUME OrderInv, TimedSleepDone \/ DelayDone \/ WakeCheck
    PROVE  \A t \in Threads : Deaf(k', t) /\ Obeys(t)
<1>1. IInv /\ k \in KernelState /\ current \in Threads /\ current = k.current_thread
  BY Types DEF OrderInv, current
<1>2. CASE TimedSleepDone \/ DelayDone
  <2> DEFINE tl   == Tail(stack)
             f    == At_("woken")
             rest == <<f>> \o tl
  <2>1. /\ At("timed") \/ At("delayed")
        /\ k' = clear_timer(k, current) /\ \E held : unlock(held, rest)
    BY <1>2 DEF TimedSleepDone, DelayDone, Call
  <2>2. tl \in Seq(Frame)
    BY <1>1, <2>1, AtTop
  <2>3. f \in Frame /\ f.pc = "woken"
    BY DEF At_, Frame, Places
  <2> HIDE DEF f, tl
  <2>4. rest \in Seq(Frame)
    BY <2>2, <2>3
  <2>5. InSleepCall(rest)
    BY <2>2, <2>3, SleepFrames
  <2>6. Stands(k, k')
    <3>1. SameOrders(k, clear_timer(k, current))
      BY <1>1 DEF KernelState, SameOrders, clear_timer
    <3> QED BY <2>1, <3>1, OrdersStand
  <2> HIDE DEF rest
  <2> QED BY <2>1, <2>4, <2>5, <2>6, UnlockObeyed
<1>3. CASE WakeCheck /\ Told(k, current)
  <2>1. k' = exit(k) /\ \E s : SetStack(s)
    BY <1>3 DEF WakeCheck, Told, Exit, reschedule
  <2>2. Stands(k, k') /\ "EXITED" \in k'.state[current]
    BY <1>1, <2>1, ExitOrders, OrdersStand
  <2>3. \A t \in Threads \ {current} : frames'[t] = frames[t]
    BY <1>1, <2>1, OnlyStack
  <2> QED BY <2>2, <2>3 DEF OrderInv, Stands, StandsFor, Obeys
<1>4. CASE WakeCheck /\ ~Told(k, current)
  <2>1. k' = k /\ SetStack(Tail(stack))
    BY <1>4 DEF WakeCheck, Told, Return
  <2>2. \A t \in Threads \ {current} : frames'[t] = frames[t]
    BY <1>1, <2>1, OnlyStack
  <2> QED BY <1>4, <2>1, <2>2 DEF OrderInv, Obeys
<1> QED BY <1>2, <1>3, <1>4

\* The steps that change no thread's state.
LEMMA QuietObeyed ==
    ASSUME OrderInv,
           \/ CallPendingDSRs \/ NoPendingDSRs \/ DSRsDone
           \/ LeaveLocked \/ ZeroLock \/ Recheck \/ Unwind
           \/ InterruptEnd \/ (\E i \in Sources : Interrupt(i)) \/ UNCHANGED vars
    PROVE  \A t \in Threads : Deaf(k', t) /\ Obeys(t)
<1>1. IInv /\ stack \in Seq(Frame)
  BY Types DEF OrderInv
<1>2. k' = k /\ Stands(k, k')
  BY QuietSteps, OrdersStand
<1>3. ASSUME frames' = frames PROVE \A t \in Threads : Deaf(k', t) /\ Obeys(t)
  BY <1>2, <1>3, StandsObeyed DEF stack
<1>4. CASE UNCHANGED vars
  BY <1>3, <1>4 DEF vars
<1>5. CASE \/ CallPendingDSRs \/ NoPendingDSRs \/ DSRsDone
           \/ LeaveLocked \/ ZeroLock \/ Recheck
  <2>1. /\ Return \/ \E pc : Goto(pc)
        /\ \E from \in Places \ {"timed", "delayed", "woken"} : At(from)
    BY <1>5 DEF CallPendingDSRs, NoPendingDSRs, DSRsDone, LeaveLocked, ZeroLock, Recheck,
                Places
  <2> QED BY <1>2, <2>1, GotoObeyed
<1>6. CASE Unwind
  <2>1. At("unwind") /\ (Return \/ unlock(sched_lock, stack))
    BY <1>6 DEF Unwind
  <2>2. CASE Return
    BY <1>2, <2>1, <2>2, GotoObeyed DEF Places
  <2>3. CASE unlock(sched_lock, stack)
    BY <1>1, <1>2, <2>3, UnlockObeyed
  <2> QED BY <2>1, <2>2, <2>3
<1>7. CASE InterruptEnd
  <2>1. At("isrend") /\ unlock(sched_lock + 1, Tail(stack))
    BY <1>7 DEF InterruptEnd
  <2>2. /\ stack # <<>> /\ Head(stack).pc = "isrend" /\ Tail(stack) \in Seq(Frame)
    BY <1>1, <2>1, AtTop
  <2>3. InSleepCall(stack) => InSleepCall(Tail(stack))
    BY <1>1, <2>2, SleepFrames
  <2> QED BY <1>2, <2>1, <2>2, <2>3, UnlockObeyed
<1>8. CASE \E i \in Sources : Interrupt(i)
  <2> DEFINE s == <<At_("isrend")>> \o stack
  <2>1. frames' = frames \/ SetStack(s)
    BY <1>8 DEF Interrupt
  <2>2. InSleepCall(stack) => InSleepCall(s)
    BY <1>1, SleepFrames
  <2> HIDE DEF s
  <2> QED BY <1>1, <1>2, <1>3, <2>1, <2>2, OnlyStack, StandsObeyed
<1> QED BY <1>4, <1>5, <1>6, <1>7, <1>8

\* Every step keeps the third invariant, and every order is obeyed.
LEMMA NextObeyed ==
    ASSUME OrderInv, [Next]_vars
    PROVE  \A t \in Threads : Deaf(k', t) /\ Obeys(t)
<1>1. IInv /\ current \in Threads /\ stack \in Seq(Frame)
  BY Types DEF OrderInv
<1>2. CASE ThreadCall
  <2>1. /\ stack = <<>> /\ StandsBut(k, k', current)
        /\ \A u \in Threads \ {current} : frames'[u] = frames[u]
    BY <1>1, <1>2, CallOrders
  <2>2. ~InSleepCall(frames[current])
    BY <2>1 DEF InSleepCall, stack
  <2> QED BY <2>1, <2>2 DEF OrderInv, StandsBut, StandsFor, Obeys
<1>3. CASE TimedSleepDone \/ DelayDone \/ WakeCheck
  BY <1>3, RestObeyed
<1>4. CASE \/ CallPendingDSRs \/ NoPendingDSRs \/ DSRsDone
           \/ LeaveLocked \/ ZeroLock \/ Recheck \/ Unwind
           \/ InterruptEnd \/ (\E i \in Sources : Interrupt(i)) \/ UNCHANGED vars
  BY <1>4, QuietObeyed
<1>5. CASE KeepRunning
  <2>1. At("resched") /\ Goto("finish") /\ Stands(k, k')
    BY <1>1, <1>5, InnerOrders DEF KeepRunning
  <2> QED BY <2>1, GotoObeyed DEF Places
<1>6. ASSUME NEW t \in Threads, SwitchTo(t)
      PROVE  \A u \in Threads : Deaf(k', u) /\ Obeys(u)
  BY <1>6, SwitchObeyed
<1>7. CASE DSRs
  <2>1. frames' = frames /\ Stands(k, k')
    BY <1>1, <1>7, InnerOrders DEF DSRs, DeviceDSR, ClockAlarm, ClockTimeslice
  <2> QED BY <1>1, <2>1, StandsObeyed DEF stack
<1> QED BY <1>2, <1>3, <1>4, <1>5, <1>6, <1>7 DEF Next, Unlocking

\* Nobody is told to exit before the first thread runs.
LEMMA InitOrders == Init => OrderInv
<1> SUFFICES ASSUME Init PROVE OrderInv
  OBVIOUS
<1> DEFINE c     == constructed(InitPriority)
           built == initialized(InitPriority)
           ready == resume(built, Main)
           first == schedule(ready)
           sw    == switched_to(ready, first)
<1>1. k = timeslice_restore(timeslice_reset(sw, first), first)
  BY DEF Init, switched_to
<1>2. built \in KernelState /\ Good(built) /\ \A t \in Threads : built.wake_reason[t] = "NONE"
  <2>1. c \in KernelState
    <3>1. Quantum \in 0..CountMod-1
      BY QuantumAssumption
    <3> QED BY <3>1, ThreadsAssumption, PriorityAssumption, InitPriorityAssumption
            DEF constructed, KernelState, StateBits, Reasons, Priorities
  <2>2. \A t \in Threads : c.wake_reason[t] = "NONE"
    BY DEF constructed
  <2> HIDE DEF c
  <2>3. SameOrders(c, resume(c, Idle))
    BY <2>1, SuspendingOrders, ThreadsAssumption
  <2>4. Good(built)
    BY Initialized, InitPriorityAssumption
  <2> QED BY <2>2, <2>3, <2>4, GoodType DEF initialized, c, SameOrders
<1> HIDE DEF built
<1>3. ready \in KernelState /\ \A t \in Threads : ready.wake_reason[t] = "NONE"
  <2>1. SameOrders(built, ready)
    BY <1>2, SuspendingOrders, MainAssumption DEF Users
  <2> QED BY <1>2, <2>1, Resume, GoodType, MainAssumption DEF Users, Step, SameOrders
<1> HIDE DEF ready
<1>4. k.wake_reason = ready.wake_reason
  BY <1>1, <1>3 DEF KernelState, timeslice_restore, timeslice_reset, switched_to
<1> QED BY <1>3, <1>4, InitIInv DEF OrderInv, Deaf, Told

\* A thread that was killed in its sleep exits before it returns from it, in
\* every order of wakeups, releases, alarms, suspends, resumes and kills.
THEOREM KillsAreObeyed == Spec => KillIsObeyed
<1>1. OrderInv /\ [Next]_vars => OrderInv'
  <2> SUFFICES ASSUME OrderInv, [Next]_vars PROVE OrderInv'
    OBVIOUS
  <2> QED BY NextObeyed, NextIInv DEF OrderInv, Preserved
<1>2. OrderInv /\ [Next]_vars =>
        [\A t \in Users : InSleepCall(frames[t]) /\ k.wake_reason[t] = "EXIT" =>
              \/ InSleepCall(frames'[t]) /\ k'.wake_reason[t] = "EXIT"
              \/ "EXITED" \in k'.state[t]]_vars
  <2> SUFFICES ASSUME OrderInv, [Next]_vars, NEW t \in Users PROVE Obeys(t)
    BY DEF Obeys, Told
  <2> QED BY NextObeyed DEF Users
<1> QED BY <1>1, <1>2, InitOrders, PTL DEF Spec, KillIsObeyed

=============================================================================
