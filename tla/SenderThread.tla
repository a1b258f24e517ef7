------------------------------ MODULE SenderThread ------------------------------
(***************************************************************************)
(* The sender thread of one DerechoGroup and everyone who wakes it, at the *)
(* granularity of its mutex and condition variable (send_loop, send, the   *)
(* receive handler of the member's own RDMC group, the sender predicate    *)
(* and wedge in derecho_group_impl.h).                                     *)
(*                                                                         *)
(* sender_cv.wait(lock, should_wake) tests should_wake with msg_state_mtx  *)
(* held and, if it is false, gives up the mutex and starts to wait in one  *)
(* step.  A notification between the test and the wait wakes nobody.       *)
(* send() notifies with the mutex held; the receive handler changes what   *)
(* should_wake reads under the mutex and notifies after releasing it; the  *)
(* columns of the SST that should_wake reads and the flag thread_shutdown  *)
(* change without the mutex, and so do the notifications that announce     *)
(* them.  Spurious wake-ups are allowed by the library but not promised,   *)
(* and are left out.                                                       *)
(*                                                                         *)
(* Messages are counted: this member's message number n is the n+1-st.     *)
(* Skipped turns are modelled in DerechoGroup.                             *)
(***************************************************************************)
EXTENDS Integers

CONSTANTS
    WindowSize,   \* window_size
    MaxMessages,  \* bound on the number of messages sent
    MayWedge      \* bound: whether the group may be wedged

ASSUME SenderAssumption ==
    /\ WindowSize \in Nat \ {0}
    /\ MaxMessages \in Nat
    /\ MayWedge \in BOOLEAN

VARIABLES
    sender,        \* where the sender thread is
    queued,        \* messages given to send()
    handed,        \* messages taken from pending_sends and given to rdmc::send
    received,      \* messages counted in this member's nReceived
    handler_done,  \* the receive handler still has to notify
    delivered,     \* messages every member's delivered_num covers, as seen here
    persisted,     \* the same for persisted_num
    next_message_to_deliver,
    wedge,         \* where wedge() is
    file_writer    \* whether the group was given a file name

vars == <<sender, queued, handed, received, handler_done, delivered, persisted,
          next_message_to_deliver, wedge, file_writer>>

SenderState == {"loop", "test", "block", "waiting", "woken", "awake", "exited"}

WedgeState == {"idle", "shutdown", "unregistered", "destroyed", "joining", "done"}

thread_shutdown == wedge # "idle"

predicates_registered == wedge \in {"idle", "shutdown"}

rdmc_group_open == wedge \in {"idle", "shutdown", "unregistered"}

\* msg_state_mtx is free, so that another thread's critical section can run.
MutexFree == sender \in {"waiting", "woken", "exited"}

\* Wrong: nobody is notified.
NotNotified(s) == s

\* sender_cv.notify_all(): the thread leaves the wait if it is in it.
Notified(s) == IF s = "waiting" THEN "woken" ELSE s

Init ==
    /\ sender = "loop"
    /\ queued = 0 /\ handed = 0 /\ received = 0
    /\ handler_done = FALSE
    /\ delivered = 0 /\ persisted = 0
    /\ next_message_to_deliver = 0
    /\ wedge = "idle"
    /\ file_writer \in BOOLEAN

-----------------------------------------------------------------------------
(***************************************************************************)
(* The sender thread.                                                      *)
(***************************************************************************)
\* Wrong: the window is one message too wide.
FinishedToSendOneMore(n) == delivered >= n - WindowSize

FinishedToSend(n) ==
    /\ delivered >= n - WindowSize + 1
    /\ file_writer => persisted >= n - WindowSize + 1

PreviousSendDone == received >= handed

QueueNotEmpty == queued > handed

should_send ==
    /\ QueueNotEmpty
    /\ PreviousSendDone
    /\ FinishedToSend(handed)

\* while(!thread_shutdown)
SenderLoop ==
    /\ sender = "loop"
    /\ sender' = IF thread_shutdown THEN "exited" ELSE "test"
    /\ UNCHANGED <<queued, handed, received, handler_done, delivered, persisted,
                   next_message_to_deliver, wedge, file_writer>>

\* should_wake, with the mutex held.
SenderTest ==
    /\ sender = "test"
    /\ sender' = IF thread_shutdown \/ should_send THEN "awake" ELSE "block"
    /\ UNCHANGED <<queued, handed, received, handler_done, delivered, persisted,
                   next_message_to_deliver, wedge, file_writer>>

\* Release the mutex and wait; take it again after a notification.
SenderWait ==
    /\ \/ sender = "block" /\ sender' = "waiting"
       \/ sender = "woken" /\ sender' = "test"
    /\ UNCHANGED <<queued, handed, received, handler_done, delivered, persisted,
                   next_message_to_deliver, wedge, file_writer>>

\* if(!thread_shutdown) rdmc::send(...)
SenderSend ==
    /\ sender = "awake"
    /\ handed' = IF thread_shutdown THEN handed ELSE handed + 1
    /\ sender' = "loop"
    /\ UNCHANGED <<queued, received, handler_done, delivered, persisted,
                   next_message_to_deliver, wedge, file_writer>>

-----------------------------------------------------------------------------
(***************************************************************************)
(* The application: get_position, whose window test looks at delivered_num *)
(* only, and send.                                                         *)
(***************************************************************************)
Send ==
    /\ MutexFree
    /\ ~ thread_shutdown
    /\ queued < MaxMessages      \* bound
    /\ delivered >= queued - WindowSize + 1
    /\ queued' = queued + 1
    /\ sender' = Notified(sender)
    /\ UNCHANGED <<handed, received, handler_done, delivered, persisted,
                   next_message_to_deliver, wedge, file_writer>>

(***************************************************************************)
(* RDMC: the receive handler of the own group counts the message under the *)
(* mutex; receive_handler_plus_notify notifies afterwards.                 *)
(***************************************************************************)
OwnReceive ==
    /\ MutexFree
    /\ rdmc_group_open
    /\ received < handed
    /\ ~ handler_done
    /\ received' = received + 1
    /\ handler_done' = TRUE
    /\ UNCHANGED <<sender, queued, handed, delivered, persisted,
                   next_message_to_deliver, wedge, file_writer>>

OwnReceiveNotify ==
    /\ handler_done
    /\ handler_done' = FALSE
    /\ sender' = Notified(sender)
    /\ UNCHANGED <<queued, handed, received, delivered, persisted,
                   next_message_to_deliver, wedge, file_writer>>

(***************************************************************************)
(* The SST: every member has delivered, or persisted, one message more.    *)
(***************************************************************************)
DeliveredNumArrives ==
    /\ delivered < received
    /\ delivered' = delivered + 1
    /\ UNCHANGED <<sender, queued, handed, received, handler_done, persisted,
                   next_message_to_deliver, wedge, file_writer>>

PersistedNumArrives ==
    /\ file_writer
    /\ persisted < delivered
    /\ persisted' = persisted + 1
    /\ UNCHANGED <<sender, queued, handed, received, handler_done, delivered,
                   next_message_to_deliver, wedge, file_writer>>

\* The sender predicate and its trigger, on the SST's predicate thread.
SenderTrig ==
    /\ predicates_registered
    /\ delivered > next_message_to_deliver
    /\ file_writer => persisted > next_message_to_deliver
    /\ sender' = Notified(sender)
    /\ next_message_to_deliver' = next_message_to_deliver + 1
    /\ UNCHANGED <<queued, handed, received, handler_done, delivered, persisted,
                   wedge, file_writer>>

(***************************************************************************)
(* wedge: set thread_shutdown, remove the predicates, destroy the groups,  *)
(* notify, join the sender thread.                                         *)
(***************************************************************************)
WedgeStep(from, to) ==
    /\ wedge = from
    /\ wedge' = to
    /\ UNCHANGED <<queued, handed, received, handler_done, delivered, persisted,
                   next_message_to_deliver, file_writer>>

Wedge ==
    \/ MayWedge /\ WedgeStep("idle", "shutdown") /\ UNCHANGED sender
    \/ WedgeStep("shutdown", "unregistered") /\ UNCHANGED sender
    \/ WedgeStep("unregistered", "destroyed") /\ UNCHANGED sender
    \/ WedgeStep("destroyed", "joining") /\ sender' = Notified(sender)
    \/ sender = "exited" /\ WedgeStep("joining", "done") /\ UNCHANGED sender

SenderStep == SenderLoop \/ SenderTest \/ SenderWait \/ SenderSend

Next ==
    \/ SenderStep
    \/ Send
    \/ OwnReceive \/ OwnReceiveNotify
    \/ DeliveredNumArrives \/ PersistedNumArrives \/ SenderTrig
    \/ Wedge

\* Every thread runs, the other members make progress, and a call of wedge()
\* goes on once it has begun; nobody has to send or to wedge.
Fairness ==
    /\ WF_vars(SenderStep)
    /\ WF_vars(OwnReceive) /\ WF_vars(OwnReceiveNotify)
    /\ WF_vars(DeliveredNumArrives) /\ WF_vars(PersistedNumArrives)
    /\ WF_vars(SenderTrig)
    /\ WF_vars(wedge # "idle" /\ Wedge)

Spec == Init /\ [][Next]_vars

FairSpec == Spec /\ Fairness

-----------------------------------------------------------------------------
\* Every variable keeps its type, and no stage of a message overtakes the
\* stage before it.
TypeOK ==
    /\ sender \in SenderState
    /\ wedge \in WedgeState
    /\ handler_done \in BOOLEAN /\ file_writer \in BOOLEAN
    /\ queued \in 0 .. MaxMessages
    /\ handed \in 0 .. queued
    /\ received \in 0 .. handed
    /\ delivered \in 0 .. received
    /\ persisted \in 0 .. delivered
    /\ next_message_to_deliver \in 0 .. delivered

\* derecho_group.h:323: "at a single point in time, however, there is only one
\* message per sender in the RDMC pipeline"; and at most a window of messages has
\* been handed to RDMC that some member has not delivered and, with persistence,
\* persisted.
PipelineBounded ==
    /\ handed <= received + 1
    /\ handed <= delivered + WindowSize
    /\ file_writer => handed <= persisted + WindowSize

\* Without persistence and while the group is not wedged, the sender thread
\* sleeps on a message that it could send only if a notification is on its
\* way: get_position has already seen the window that should_send tests.
NoLostWakeup ==
    sender = "waiting" /\ should_send /\ ~ thread_shutdown /\ ~ file_writer
        => handler_done

\* managed_group.h:234: "This returns immediately; the send is scheduled to
\* happen some time in the future."  With persistence it may not: persisted_num
\* and the last notification may come between the thread's test and its wait.
QueuedIsSent ==
    \A n \in 1 .. MaxMessages :
        queued >= n ~> handed >= n \/ thread_shutdown \/ file_writer

\* derecho_group.h:342: wedge() "Stops all sending and receiving in this group, in
\* preparation for shutting it down": it returns.
WedgeReturns == wedge = "shutdown" ~> wedge = "done"

=============================================================================
