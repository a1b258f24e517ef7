--------------------------- MODULE SenderThreadProofs ---------------------------
(***************************************************************************)
(* Theorems about the sender thread, for every window and any number of    *)
(* messages, with or without persistence, whether or not it is wedged:     *)
(* the pipeline stays bounded and, without persistence, no notification    *)
(* is lost.                                                                *)
(***************************************************************************)
EXTENDS SenderThread, TLAPS

(***************************************************************************)
(* The inductive invariant.                                                *)
(***************************************************************************)
\* get_position gives out no message beyond the window (its caller sends it).
QueueWithinWindow == queued <= delivered + WindowSize

\* What made should_wake true stays true until the message is sent.
AwakeMaySend == sender = "awake" /\ ~ thread_shutdown => should_send

\* The thread goes to sleep, and stays asleep without a notification on its
\* way, only if nothing is queued or its previous message is not received.
SleepsForAReason ==
    /\ sender = "block" /\ ~ thread_shutdown /\ ~ file_writer
           => ~ (QueueNotEmpty /\ PreviousSendDone)
    /\ sender = "waiting" /\ QueueNotEmpty /\ PreviousSendDone
       /\ ~ thread_shutdown /\ ~ file_writer
           => handler_done

IInv ==
    /\ TypeOK
    /\ QueueWithinWindow
    /\ AwakeMaySend
    /\ PipelineBounded
    /\ SleepsForAReason

USE SenderAssumption DEF SenderAssumption, SenderState, WedgeState, thread_shutdown

(***************************************************************************)
(* Each conjunct is kept by every step.                                    *)
(***************************************************************************)
\* Init establishes the invariant.
LEMMA InvariantInit == Init => IInv
<1> SUFFICES ASSUME Init
             PROVE  IInv
    OBVIOUS
<1>1. WindowSize \in Nat /\ MaxMessages \in Nat
    OBVIOUS
<1>2. TypeOK
  <2>1. file_writer \in BOOLEAN /\ handler_done \in BOOLEAN
    BY DEF Init
  <2>2. queued = 0 /\ handed = 0 /\ received = 0 /\ delivered = 0 /\ persisted = 0
        /\ next_message_to_deliver = 0 /\ sender = "loop" /\ wedge = "idle"
    BY DEF Init
  <2> QED
    BY <1>1, <2>1, <2>2 DEF TypeOK
<1>3. QueueWithinWindow /\ PipelineBounded
    BY <1>1 DEF Init, QueueWithinWindow, PipelineBounded
<1>4. AwakeMaySend /\ SleepsForAReason
    BY DEF Init, AwakeMaySend, SleepsForAReason
<1> QED
    BY <1>2, <1>3, <1>4 DEF IInv

\* The stages of a message stay in order: a counter moves only if the one
\* before it is ahead, and the sender thread only takes what is queued.
LEMMA TypeStep == TypeOK /\ AwakeMaySend /\ [Next]_vars => TypeOK'
<1> SUFFICES ASSUME TypeOK, AwakeMaySend, [Next]_vars
             PROVE  TypeOK'
    OBVIOUS
<1> USE DEF TypeOK
<1>1. CASE SenderStep
  <2>1. CASE SenderSend
    BY <2>1 DEF SenderSend, AwakeMaySend, should_send, QueueNotEmpty
  <2>2. CASE SenderLoop \/ SenderTest \/ SenderWait
    BY <2>2 DEF SenderLoop, SenderTest, SenderWait
  <2> QED
    BY <1>1, <2>1, <2>2 DEF SenderStep
<1>2. CASE Send
    BY <1>2 DEF Send, Notified
<1>3. CASE OwnReceive
    BY <1>3 DEF OwnReceive
<1>4. CASE OwnReceiveNotify
    BY <1>4 DEF OwnReceiveNotify, Notified
<1>5. CASE DeliveredNumArrives
    BY <1>5 DEF DeliveredNumArrives
<1>6. CASE PersistedNumArrives
    BY <1>6 DEF PersistedNumArrives
<1>7. CASE SenderTrig
    BY <1>7 DEF SenderTrig, Notified
<1>8. CASE Wedge
    BY <1>8 DEF Wedge, WedgeStep, Notified
<1>9. CASE UNCHANGED vars
    BY <1>9 DEF vars
<1> QED
    BY <1>1, <1>2, <1>3, <1>4, <1>5, <1>6, <1>7, <1>8, <1>9 DEF Next

\* While the thread is awake it holds the mutex, so that only the columns of the
\* SST and thread_shutdown move.
LEMMA AwakeStep == TypeOK /\ AwakeMaySend /\ [Next]_vars => AwakeMaySend'
<1> SUFFICES ASSUME TypeOK, AwakeMaySend, [Next]_vars
             PROVE  AwakeMaySend'
    OBVIOUS
<1> USE DEF TypeOK, AwakeMaySend, should_send, QueueNotEmpty, PreviousSendDone,
            FinishedToSend
<1>1. CASE SenderStep
    BY <1>1 DEF SenderStep, SenderLoop, SenderTest, SenderWait, SenderSend
<1>2. CASE Send \/ OwnReceive
    BY <1>2 DEF Send, OwnReceive, MutexFree, Notified
<1>3. CASE OwnReceiveNotify \/ SenderTrig
    BY <1>3 DEF OwnReceiveNotify, SenderTrig, Notified
<1>4. CASE DeliveredNumArrives \/ PersistedNumArrives
    BY <1>4 DEF DeliveredNumArrives, PersistedNumArrives
<1>5. CASE Wedge
    BY <1>5 DEF Wedge, WedgeStep, Notified
<1>6. CASE UNCHANGED vars
    BY <1>6 DEF vars
<1> QED
    BY <1>1, <1>2, <1>3, <1>4, <1>5, <1>6 DEF Next

\* Only Send adds to the queue, and delivered_num never goes back.
LEMMA QueueStep == TypeOK /\ QueueWithinWindow /\ [Next]_vars => QueueWithinWindow'
<1> SUFFICES ASSUME TypeOK, QueueWithinWindow, [Next]_vars
             PROVE  QueueWithinWindow'
    OBVIOUS
<1> USE DEF TypeOK, QueueWithinWindow
<1>1. CASE SenderStep
    BY <1>1 DEF SenderStep, SenderLoop, SenderTest, SenderWait, SenderSend
<1>2. CASE Send
    BY <1>2 DEF Send
<1>3. CASE OwnReceive \/ OwnReceiveNotify \/ SenderTrig
    BY <1>3 DEF OwnReceive, OwnReceiveNotify, SenderTrig
<1>4. CASE DeliveredNumArrives \/ PersistedNumArrives
    BY <1>4 DEF DeliveredNumArrives, PersistedNumArrives
<1>5. CASE Wedge
    BY <1>5 DEF Wedge, WedgeStep
<1>6. CASE UNCHANGED vars
    BY <1>6 DEF vars
<1> QED
    BY <1>1, <1>2, <1>3, <1>4, <1>5, <1>6 DEF Next

\* A message is handed to RDMC only after should_send has been seen true.
LEMMA PipelineStep ==
    TypeOK /\ AwakeMaySend /\ PipelineBounded /\ [Next]_vars => PipelineBounded'
<1> SUFFICES ASSUME TypeOK, AwakeMaySend, PipelineBounded, [Next]_vars
             PROVE  PipelineBounded'
    OBVIOUS
<1> USE DEF TypeOK, PipelineBounded
<1>1. CASE SenderSend
    BY <1>1 DEF SenderSend, AwakeMaySend, should_send, PreviousSendDone, FinishedToSend
<1>2. CASE SenderLoop \/ SenderTest \/ SenderWait
    BY <1>2 DEF SenderLoop, SenderTest, SenderWait
<1>3. CASE Send \/ OwnReceive \/ OwnReceiveNotify \/ SenderTrig
    BY <1>3 DEF Send, OwnReceive, OwnReceiveNotify, SenderTrig
<1>4. CASE DeliveredNumArrives \/ PersistedNumArrives
    BY <1>4 DEF DeliveredNumArrives, PersistedNumArrives
<1>5. CASE Wedge
    BY <1>5 DEF Wedge, WedgeStep
<1>6. CASE UNCHANGED vars
    BY <1>6 DEF vars
<1> QED
    BY <1>1, <1>2, <1>3, <1>4, <1>5, <1>6 DEF Next, SenderStep

\* What is queued is within the window that should_send tests, so that the
\* test fails for another reason; what removes that reason takes the mutex.
LEMMA SleepStep ==
    TypeOK /\ QueueWithinWindow /\ SleepsForAReason /\ [Next]_vars => SleepsForAReason'
<1> SUFFICES ASSUME TypeOK, QueueWithinWindow, SleepsForAReason, [Next]_vars
             PROVE  SleepsForAReason'
    OBVIOUS
<1> USE DEF TypeOK, SleepsForAReason, QueueNotEmpty, PreviousSendDone
<1>1. CASE SenderTest
    BY <1>1 DEF SenderTest, should_send, FinishedToSend, QueueWithinWindow
<1>2. CASE SenderLoop \/ SenderWait \/ SenderSend
    BY <1>2 DEF SenderLoop, SenderWait, SenderSend
<1>3. CASE Send
    BY <1>3 DEF Send, MutexFree, Notified
<1>4. CASE OwnReceive
    BY <1>4 DEF OwnReceive, MutexFree
<1>5. CASE OwnReceiveNotify \/ SenderTrig
    BY <1>5 DEF OwnReceiveNotify, SenderTrig, Notified
<1>6. CASE DeliveredNumArrives \/ PersistedNumArrives
    BY <1>6 DEF DeliveredNumArrives, PersistedNumArrives
<1>7. CASE Wedge
    BY <1>7 DEF Wedge, WedgeStep, Notified
<1>8. CASE UNCHANGED vars
    BY <1>8 DEF vars
<1> QED
    BY <1>1, <1>2, <1>3, <1>4, <1>5, <1>6, <1>7, <1>8 DEF Next, SenderStep

(***************************************************************************)
(* The theorems.                                                           *)
(***************************************************************************)
\* Every step of the sender thread and of those who wake it keeps the invariant.
THEOREM InvariantCorrect == Spec => []IInv
<1>1. IInv /\ [Next]_vars => IInv'
    BY TypeStep, AwakeStep, QueueStep, PipelineStep, SleepStep DEF IInv
<1> QED
    BY <1>1, InvariantInit, PTL DEF Spec

\* No stage of a message overtakes the stage before it.
THEOREM TypeCorrect == Spec => []TypeOK
<1>1. IInv => TypeOK
    BY DEF IInv
<1> QED
    BY <1>1, InvariantCorrect, PTL

\* send_loop keeps at most one message in the RDMC pipeline and at most a window
\* of messages that are not delivered (and persisted) everywhere.
THEOREM PipelineSafety == Spec => []PipelineBounded
<1>1. IInv => PipelineBounded
    BY DEF IInv
<1> QED
    BY <1>1, InvariantCorrect, PTL

\* Without persistence the sender thread never sleeps on a message it could
\* send unless a notification is on its way.
THEOREM WakeupSafety == Spec => []NoLostWakeup
<1>1. IInv => NoLostWakeup
    BY DEF IInv, SleepsForAReason, NoLostWakeup, should_send
<1> QED
    BY <1>1, InvariantCorrect, PTL

=============================================================================
