---------------------------- MODULE MessageQueue -----------------------------
(***************************************************************************)
(* What a mailbox promises (kernel.sgml, "Mail boxes"): a queue of bounded *)
(* capacity whose messages "are always retrieved in the order in which     *)
(* they were put into the mail box", each by one thread.                   *)
(***************************************************************************)
EXTENDS Integers, Sequences

CONSTANTS Messages, NoMessage, Receivers, Capacity

VARIABLES
    stored,     \* the messages put and not yet retrieved, oldest first
    received    \* per thread: the message its get was given, if any

Init == stored = <<>> /\ received = [t \in Receivers |-> NoMessage]

Put(m) == /\ Len(stored) < Capacity
          /\ stored' = Append(stored, m)
          /\ UNCHANGED received

Get(t) == /\ stored # <<>> /\ received[t] = NoMessage
          /\ received' = [received EXCEPT ![t] = Head(stored)]
          /\ stored' = Tail(stored)

\* A put to a thread that waits on the empty queue, and a get that makes
\* room for a thread that waits to put: two operations in one step.
PutAndGet(t, m) == /\ stored = <<>> /\ received[t] = NoMessage
                   /\ received' = [received EXCEPT ![t] = m]
                   /\ UNCHANGED stored

GetAndPut(t, m) == /\ Len(stored) = Capacity /\ received[t] = NoMessage
                   /\ received' = [received EXCEPT ![t] = Head(stored)]
                   /\ stored' = Append(Tail(stored), m)

\* The thread has its message, and may get again.
Consume(t) == /\ received[t] # NoMessage
              /\ received' = [received EXCEPT ![t] = NoMessage]
              /\ UNCHANGED stored

Next == \/ \E m \in Messages : Put(m)
        \/ \E t \in Receivers :
             \/ Get(t) \/ Consume(t)
             \/ \E m \in Messages : PutAndGet(t, m) \/ GetAndPut(t, m)

Spec == Init /\ [][Next]_<<stored, received>>

=============================================================================
