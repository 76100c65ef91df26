------------------------------ MODULE Mailboxes ------------------------------
(***************************************************************************)
(* mboxt2.inl: a mailbox, a ring of Size messages.  put() hands its        *)
(* message directly to a thread that waits to get, and get() makes room    *)
(* for one that waits to put, so that a woken thread has nothing to test   *)
(* but its wake reason.                                                    *)
(***************************************************************************)
EXTENDS BlockingCalls

CONSTANTS
    Messages, NoMessage,        \* what is sent; a NULL pointer
    Size,                       \* CYGNUM_KERNEL_SYNCH_MBOX_QUEUE_SIZE
    get_threadq, put_threadq    \* the two wait queues

ASSUME MailboxAssumption ==
    /\ get_threadq \in WaitQueues /\ put_threadq \in WaitQueues
    /\ get_threadq # put_threadq
    /\ NoMessage \notin Messages
    /\ Size \in Nat \ {0}

Slots == 0..Size-1

empty_mbox == [base |-> 0, count |-> 0, itemqueue |-> [i \in Slots |-> NoMessage]]

wrapped(i) == IF Size <= i THEN i - Size ELSE i

\* Mutant: the message is stored in front.
store_first(mb, m)  == [mb EXCEPT !.itemqueue[mb.base] = m, !.count = @ + 1]

\* itemqueue[ base + (count++) ] = item
store(mb, m) == [mb EXCEPT !.itemqueue[wrapped(mb.base + mb.count)] = m,
                           !.count = @ + 1]

\* ritem = itemqueue[ (count--, base++) ]
oldest(mb)  == mb.itemqueue[mb.base]
newest(mb)  == mb.itemqueue[wrapped(mb.base + mb.count - 1)]
removed(mb) == [mb EXCEPT !.base = wrapped(@ + 1), !.count = @ - 1]

getters == k.wait_queue[get_threadq]
putters == k.wait_queue[put_threadq]

GoToSleep(q, timed) ==
    /\ k' = IF timed THEN block(armed(k), q, "TIMEOUT") ELSE block(k, q, "WAIT")
    /\ GoOn(IF timed THEN "mbox_timed_wait" ELSE "mbox_wait", q)

\* Mutants: a thread that waits for room is left waiting, or is woken and its
\* message forgotten.
TakeMessage_alone ==
    /\ mbox.count > 0
    /\ wait_info' = [wait_info EXCEPT ![self] = oldest(mbox)]
    /\ mbox' = removed(mbox)
    /\ k' = k
    /\ GoOn("mbox_got", get_threadq)
TakeMessage_forgets ==
    /\ mbox.count > 0
    /\ wait_info' = [wait_info EXCEPT ![self] = oldest(mbox)]
    /\ mbox' = removed(mbox)
    /\ k' = wake_first(k, put_threadq)
    /\ GoOn("mbox_got", get_threadq)

\* The oldest message goes to the caller, and wakeup_putter() stores the
\* message of the first thread that waits for room.
TakeMessage ==
    /\ mbox.count > 0
    /\ wait_info' = [wait_info EXCEPT ![self] = oldest(mbox)]
    /\ mbox' = IF putters = <<>> THEN removed(mbox)
               ELSE store(removed(mbox), wait_info[Head(putters)])
    /\ k' = wake_first(k, put_threadq)
    /\ GoOn("mbox_got", get_threadq)

MboxGet(timed) ==
    /\ FromThread(IF timed THEN "mbox_timed_get" ELSE "mbox_get")
    /\ \/ TakeMessage
       \/ /\ mbox.count = 0
          /\ GoToSleep(get_threadq, timed)
          /\ UNCHANGED <<mbox, wait_info>>
       \/ /\ mbox.count = 0 /\ timed
          /\ k' = overdue(k)
          /\ UNCHANGED <<pc, mbox, wait_info>>
    /\ UNCHANGED <<program, semaphoreVars, flagVars, mutexVars, requested>>

MboxTryGet ==
    /\ FromThread("mbox_tryget") /\ TakeMessage
    /\ UNCHANGED <<program, semaphoreVars, flagVars, mutexVars, requested>>

\* wakeup_winner() hands the message to the first thread that waits, and
\* otherwise it is stored.
GiveMessage(m) ==
    /\ mbox.count < Size
    /\ k' = wake_first(k, get_threadq)
    /\ IF getters = <<>>
       THEN mbox' = store(mbox, m) /\ UNCHANGED wait_info
       ELSE /\ wait_info' = [wait_info EXCEPT ![Head(getters)] = m]
            /\ UNCHANGED mbox

MboxPut(m, timed) ==
    /\ FromThread(IF timed THEN "mbox_timed_put" ELSE "mbox_put")
    /\ \/ GiveMessage(m) /\ UNCHANGED pc
       \/ /\ mbox.count = Size
          /\ wait_info' = [wait_info EXCEPT ![self] = m]
          /\ GoToSleep(put_threadq, timed)
          /\ UNCHANGED mbox
       \/ /\ mbox.count = Size /\ timed
          /\ k' = overdue(k)
          /\ UNCHANGED <<pc, mbox, wait_info>>
    /\ UNCHANGED <<program, semaphoreVars, flagVars, mutexVars, requested>>

MboxTryPut(m) ==
    /\ FromAny("mbox_tryput") /\ GiveMessage(m)
    /\ UNCHANGED <<pc, program, semaphoreVars, flagVars, mutexVars, requested>>

\* A wait runs again, with the lock at zero: the thread exits, or returns
\* with or without a message as its wake reason says.  A get that did not
\* wait returns too.
MboxWoken ==
    /\ Continues("mbox_wait") \/ Continues("mbox_timed_wait") \/ Continues("mbox_got")
    /\ IF pc[self].at # "mbox_got" /\ wake_reason = "EXIT"
       THEN Killed ELSE k' = clear_timer(k, self) /\ Return
    /\ wait_info' = [wait_info EXCEPT ![self] = NoMessage]
    /\ UNCHANGED <<program, semaphoreVars, flagVars, mbox, mutexVars, requested>>

MailboxCalls ==
    \/ MboxTryGet \/ MboxWoken
    \/ \E timed \in BOOLEAN : MboxGet(timed)
    \/ \E m \in Messages : \/ MboxTryPut(m)
                           \/ \E timed \in BOOLEAN : MboxPut(m, timed)

-----------------------------------------------------------------------------
(* Properties.                                                             *)

\* Threads only wait to get while there is nothing to get, and to put while
\* there is no room, whoever timed out, was released or took a message in
\* between ("Threads waiting AND queue full?", mboxt2.inl:477, 557, 652;
\* "Threads waiting AND queue not empty", mboxt2.inl:659).
NobodyWaitsInVain ==
    /\ getters # <<>> => mbox.count = 0
    /\ putters # <<>> => mbox.count = Size

InGet(t) == pc[t].at \in {"mbox_wait", "mbox_timed_wait"} /\ pc[t].on = get_threadq
InPut(t) == pc[t].at \in {"mbox_wait", "mbox_timed_wait"} /\ pc[t].on = put_threadq

\* A get that is over says that it has a message exactly if it was given
\* one: no timeout, release or kill turns up between the message and the
\* wakeup, and none is reported for a message that was delivered.
GetTellsTheTruth ==
    \A t \in Users : InGet(t) =>
        (wait_info[t] # NoMessage <=> k.wake_reason[t] = "DONE")

\* The same for a put: in the step that ends its wait its message is stored,
\* as the newest, or the mailbox stays as it was and the put fails.
PutTellsTheTruth ==
    [][\A t \in Users :
         InPut(t) /\ k.queue[t] = put_threadq /\ k'.queue[t] # put_threadq =>
           IF k'.wake_reason[t] = "DONE"
           THEN newest(mbox') = wait_info[t] ELSE mbox' = mbox]_vars

\* The mailbox is a bounded queue of messages: its ring holds what is stored,
\* and a thread in a get has received what was written for it.
stored == [i \in 1..mbox.count |-> mbox.itemqueue[wrapped(mbox.base + i - 1)]]
received == [t \in Users |-> IF InPut(t) THEN NoMessage ELSE wait_info[t]]

Abstract == INSTANCE MessageQueue WITH Receivers <- Users, Capacity <- Size

IsMessageQueue == Abstract!Spec

=============================================================================
