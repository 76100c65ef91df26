----------------------------- MODULE DsrDelivery -----------------------------
(***************************************************************************)
(* What the kernel promises about DSRs: an ISR posts its DSR any number of *)
(* times; DSRs are called in the order of their first posts, each once for *)
(* all its posts so far and with their number.                             *)
(***************************************************************************)
EXTENDS Naturals, Sequences

CONSTANTS Interrupts,   \* the interrupt objects that have a DSR
          Nothing       \* no call yet

VARIABLES order,        \* interrupts with posts, by their first one
          posts,        \* per interrupt: posts since its DSR was last called
          last_call     \* the last call of a DSR: interrupt and count

vars == <<order, posts, last_call>>

Init == /\ order = <<>>
        /\ posts = [i \in Interrupts |-> 0]
        /\ last_call = Nothing

Post(i) == /\ posts' = [posts EXCEPT ![i] = @ + 1]
           /\ order' = IF posts[i] = 0 THEN Append(order, i) ELSE order
           /\ UNCHANGED last_call

Call(i) == /\ order # <<>> /\ Head(order) = i
           /\ order' = Tail(order)
           /\ posts' = [posts EXCEPT ![i] = 0]
           /\ last_call' = [intr |-> i, count |-> posts[i]]

Next == \E i \in Interrupts : Post(i) \/ Call(i)

Spec == Init /\ [][Next]_vars
=============================================================================
