------------------------------ MODULE DsrQueue ------------------------------
(***************************************************************************)
(* The FIFO list of pended DSRs (intr.cxx): a linked list through the      *)
(* interrupt objects, which post_dsr() extends at its tail and             *)
(* call_pending_DSRs_inner() detaches and walks.                           *)
(*                                                                         *)
(* Each stretch of code with interrupts disabled is one step, so           *)
(* post_dsr() is one.  The walk is not: it enables interrupts around each  *)
(* DSR, and ISRs then post on the new list, or count up interrupts that    *)
(* are still on the old one.  Only one thread walks at a time (see         *)
(* UnlockInnerPrecondition in Scheduler).                                  *)
(***************************************************************************)
EXTENDS Naturals, Sequences

CONSTANTS Interrupts, Null, Nothing,
          MaxPosts      \* bound: posts counted for one interrupt

ASSUME NullAssumption == Null \notin Interrupts
ASSUME PostsAssumption == MaxPosts \in Nat

VARIABLES
    dsr_list, dsr_list_tail,    \* head and tail of the list of pended DSRs
    next_dsr, dsr_count,        \* the fields of each interrupt object
    calling,                    \* a DSR of the walk is running
    intr, next, count,          \* the locals of the walk
    pended, batch   \* history: the pended list; the rest of the detached one

list_vars == <<dsr_list, dsr_list_tail>>
vars == <<list_vars, next_dsr, dsr_count, calling, intr, next, count, pended, batch>>

-----------------------------------------------------------------------------

\* Mutant: the first post of an interrupt is not told from a later one.
post_dsr_always(i) ==
    /\ dsr_count[i] < MaxPosts
    /\ dsr_count' = [dsr_count EXCEPT ![i] = @ + 1]
    /\ pended' = Append(pended, i)
    /\ dsr_list_tail' = i
    /\ IF dsr_list_tail # Null
       THEN next_dsr' = [next_dsr EXCEPT ![dsr_list_tail] = i] /\ UNCHANGED dsr_list
       ELSE dsr_list' = i /\ UNCHANGED next_dsr
    /\ UNCHANGED <<calling, intr, next, count, batch>>

\* Only the first post links the interrupt, after the tail if there is one.
post_dsr(i) ==
    /\ dsr_count[i] < MaxPosts
    /\ dsr_count' = [dsr_count EXCEPT ![i] = @ + 1]
    /\ IF dsr_count[i] # 0
       THEN UNCHANGED <<list_vars, next_dsr, pended>>
       ELSE /\ dsr_list_tail' = i
            /\ IF dsr_list_tail # Null
               THEN /\ next_dsr' = [next_dsr EXCEPT ![dsr_list_tail] = i]
                    /\ dsr_list' = dsr_list
               ELSE /\ dsr_list' = i
                    /\ next_dsr' = next_dsr
            /\ pended' = Append(pended, i)
    /\ UNCHANGED <<calling, intr, next, count, batch>>

\* The DSR of i is about to be called: its count and successor are taken and
\* cleared before interrupts are enabled again.
Take(i) ==
    /\ intr'  = i
    /\ count' = dsr_count[i]
    /\ next'  = next_dsr[i]
    /\ dsr_count' = [dsr_count EXCEPT ![i] = 0]
    /\ next_dsr'  = [next_dsr EXCEPT ![i] = Null]
    /\ calling' = TRUE

\* The list is detached as a whole and its first DSR taken.
Detach ==
    /\ ~calling /\ dsr_list # Null
    /\ Take(dsr_list)
    /\ dsr_list' = Null /\ dsr_list_tail' = Null
    /\ batch' = Tail(pended) /\ pended' = <<>>

\* Mutant: the count is not cleared together with being taken.
CallNext_keeps_count ==
    /\ calling /\ next # Null
    /\ intr' = next /\ count' = dsr_count[next] /\ next' = next_dsr[next]
    /\ next_dsr' = [next_dsr EXCEPT ![next] = Null]
    /\ batch' = Tail(batch)
    /\ UNCHANGED <<list_vars, dsr_count, calling, pended>>

CallNext ==
    /\ calling /\ next # Null
    /\ Take(next)
    /\ batch' = Tail(batch)
    /\ UNCHANGED <<list_vars, pended>>

\* Mutant: the walk ends after any DSR, with others still to be called.
Done_early ==
    /\ calling
    /\ calling' = FALSE
    /\ UNCHANGED <<list_vars, next_dsr, dsr_count, intr, next, count, pended, batch>>

Done ==
    /\ calling /\ next = Null
    /\ calling' = FALSE
    /\ UNCHANGED <<list_vars, next_dsr, dsr_count, intr, next, count, pended, batch>>

Init ==
    /\ dsr_list = Null /\ dsr_list_tail = Null
    /\ next_dsr = [i \in Interrupts |-> Null]
    /\ dsr_count = [i \in Interrupts |-> 0]
    /\ calling = FALSE
    /\ intr = Null /\ next = Null /\ count = 0
    /\ pended = <<>> /\ batch = <<>>

CallDSRs == Detach \/ CallNext \/ Done
Next == CallDSRs \/ \E i \in Interrupts : post_dsr(i)

Spec == Init /\ [][Next]_vars

\* The scheduler is unlocked again and again, and then calls pending DSRs.
FairSpec == Spec /\ WF_vars(CallDSRs)

-----------------------------------------------------------------------------
(* Properties.                                                             *)

DsrTypeOK ==
    /\ {dsr_list, dsr_list_tail, intr, next} \subseteq Interrupts \cup {Null}
    /\ next_dsr \in [Interrupts -> Interrupts \cup {Null}]
    /\ dsr_count \in [Interrupts -> Nat] /\ count \in Nat
    /\ calling \in BOOLEAN
    /\ pended \in Seq(Interrupts) /\ batch \in Seq(Interrupts)

\* q is the list that starts at head.
Links(head, q) ==
    /\ head = IF q = <<>> THEN Null ELSE q[1]
    /\ \A n \in 1..Len(q) :
          next_dsr[q[n]] = IF n = Len(q) THEN Null ELSE q[n+1]

Distinct(q) == \A m, n \in 1..Len(q) : q[m] = q[n] => m = n
On(q, i)    == \E n \in 1..Len(q) : q[n] = i

\* The pointers form two disjoint lists, the pended one with its tail and
\* the rest of the one being walked; an interrupt is on one of them exactly
\* while it has posts ("DSR posted but post count is zero", intr.cxx:187).
ListsAgree ==
    /\ Links(dsr_list, pended) /\ Links(next, batch)
    /\ dsr_list_tail = IF pended = <<>> THEN Null ELSE pended[Len(pended)]
    /\ Distinct(pended) /\ Distinct(batch)
    /\ \A i \in Interrupts : /\ dsr_count[i] > 0 <=> On(pended, i) \/ On(batch, i)
                             /\ ~(On(pended, i) /\ On(batch, i))
                             /\ dsr_count[i] = 0 => next_dsr[i] = Null

\* The list delivers DSRs as DsrDelivery says: in order, none lost, none
\* twice, and with their exact counts.
Delivery == INSTANCE DsrDelivery WITH
    order <- batch \o pended,
    posts <- dsr_count,
    last_call <- IF intr = Null THEN Nothing ELSE [intr |-> intr, count |-> count]
DeliversDSRs == Delivery!Spec

\* A posted DSR is called, however often others are posted meanwhile.
PostedDsrIsCalled ==
    \A i \in Interrupts : dsr_count[i] > 0 ~> (calling /\ intr = i)
=============================================================================
