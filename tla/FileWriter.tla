------------------------------- MODULE FileWriter -------------------------------
(***************************************************************************)
(* The two threads that make delivered messages persistent (filewriter.h,  *)
(* filewriter.cpp), at the granularity of their mutexes and condition      *)
(* variables.  Both threads wait without a predicate: a notification that  *)
(* comes before the wait is lost, and only the queues' mutexes keep that   *)
(* from happening.                                                         *)
(*                                                                         *)
(* The writer thread holds pending_writes_mutex except while it waits; the *)
(* callback thread holds pending_callbacks_mutex except while it waits and *)
(* while it runs a callback.  A thread that has just been created holds    *)
(* neither.  The messages are numbered in the order of write_message.      *)
(*                                                                         *)
(* The writer appends to a data file and to a metadata file, which begins  *)
(* with a header in every run of the process and says of every message     *)
(* where in the data file it is.  What has been flushed survives a crash;  *)
(* the recovery tools read it (log_tail_length.cpp).  Every message has    *)
(* the length 1.                                                           *)
(***************************************************************************)
EXTENDS Integers, SequencesExt

CONSTANTS
    MaxMessages,  \* bound on the number of messages
    MaxCrashes,   \* bound on the number of crashes
    MayExit       \* bound: whether the destructor may be called

ASSUME FileWriterAssumption ==
    /\ MaxMessages \in Nat /\ MaxCrashes \in Nat
    /\ MayExit \in BOOLEAN

VARIABLES
    writer,             \* where the writer thread is
    callback,           \* where the callback thread is
    producer,           \* where the caller of write_message is
    destructor,         \* where ~FileWriter is
    accepted,           \* messages given to write_message so far
    pending_writes,
    pending_callbacks,
    data_file,          \* the messages in the data file
    metadata_file,      \* the records in the metadata file
    current_offset,     \* where the writer believes the data file ends
    header_buffered,    \* whether the header still is in the stream's buffer
    called,             \* the messages message_written_upcall was called for
    run,                \* history: which run of the process this is
    start               \* history: what there was when it started

files == <<data_file, metadata_file, current_offset, header_buffered>>

history == <<run, start>>

vars == <<writer, callback, producer, destructor, accepted, pending_writes,
          pending_callbacks, files, called, history>>

ThreadState == {"starting", "loop", "waiting", "woken", "drain", "exited"}

WriterState == ThreadState \cup {"metadata", "push", "notify"}

CallbackState == ThreadState \cup {"calling", "relock"}

DestructorState == {"idle", "exit", "callbacks_notified", "joining", "done"}

exit == destructor # "idle"

WritesMutexFree == writer \in {"starting", "waiting", "woken", "exited"}

CallbacksMutexFree ==
    callback \in {"starting", "waiting", "woken", "calling", "relock", "exited"}

\* Wrong: nobody is notified.
NotNotified(thread) == thread

Notified(thread) == IF thread = "waiting" THEN "woken" ELSE thread

Init ==
    /\ writer = "starting" /\ callback = "starting"
    /\ producer = "idle" /\ destructor = "idle"
    /\ accepted = 0
    /\ pending_writes = <<>> /\ pending_callbacks = <<>>
    /\ data_file = <<>> /\ metadata_file = <<>>
    /\ current_offset = 0 /\ header_buffered = TRUE
    /\ called = <<>>
    /\ run = 0
    /\ start = [accepted |-> 0, data |-> 0, metadata |-> 0]

-----------------------------------------------------------------------------
(***************************************************************************)
(* write_message, called by the thread that delivers messages, which holds *)
(* msg_state_mtx from before the call until after it.                      *)
(***************************************************************************)
DeliverMessage ==
    /\ producer = "idle"
    /\ ~ exit
    /\ accepted < MaxMessages      \* bound
    /\ producer' = "delivering"
    /\ UNCHANGED <<writer, callback, destructor, accepted, pending_writes,
                   pending_callbacks, files, called, history>>

WriteMessage ==
    /\ producer = "delivering"
    /\ WritesMutexFree
    /\ accepted' = accepted + 1
    /\ pending_writes' = Append(pending_writes, accepted + 1)
    /\ producer' = "notify"
    /\ UNCHANGED <<writer, callback, destructor, pending_callbacks, files, called, history>>

NotifyWriter ==
    /\ producer = "notify"
    /\ writer' = Notified(writer)
    /\ producer' = "idle"
    /\ UNCHANGED <<callback, destructor, accepted, pending_writes,
                   pending_callbacks, files, called, history>>

(***************************************************************************)
(* perform_writes.                                                         *)
(***************************************************************************)
\* Take the mutex, at the start or after a notification.
WriterLock ==
    /\ \/ writer = "starting" /\ writer' = "loop"
       \/ writer = "woken" /\ writer' = "drain"
    /\ UNCHANGED <<callback, producer, destructor, accepted, pending_writes,
                   pending_callbacks, files, called, history>>

\* A record of the metadata file; the header of a run is one of message 0.
Record(m, offset) == [message |-> m, offset |-> offset]

Header == Record(0, 0)

Buffered == IF header_buffered THEN <<Header>> ELSE <<>>

\* while(!exit) wait
WriterLoop ==
    /\ writer = "loop" /\ ~ exit
    /\ writer' = "waiting"
    /\ UNCHANGED <<callback, producer, destructor, accepted, pending_writes,
                   pending_callbacks, files, called, history>>

\* At the end of the thread the streams are closed.
WriterExit ==
    /\ writer = "loop" /\ exit
    /\ writer' = "exited"
    /\ metadata_file' = metadata_file \o Buffered
    /\ header_buffered' = FALSE
    /\ UNCHANGED <<callback, producer, destructor, accepted, pending_writes,
                   pending_callbacks, data_file, current_offset, called, history>>

\* Wrong: gives the callback thread the message but forgets the file.
WrittenToCache(disk, m) == disk

WrittenTo(disk, m) == Append(disk, m)

\* Wrong: the writer does not count what it has written.
OffsetAsBefore == current_offset

OffsetAfter == current_offset + 1

\* Wrong: leaves the loop as soon as the destructor has been called.
NoMoreWritesOrExit == pending_writes = <<>> \/ exit

NoMoreWrites == pending_writes = <<>>

\* The inner loop: write and flush the next message, or go back to the test of
\* exit when there is none.
WriterDrain ==
    /\ writer = "drain"
    /\ IF NoMoreWrites
       THEN /\ writer' = "loop"
            /\ UNCHANGED data_file
       ELSE /\ writer' = "metadata"
            /\ data_file' = WrittenTo(data_file, Head(pending_writes))
    /\ UNCHANGED <<callback, producer, destructor, accepted, pending_writes,
                   pending_callbacks, metadata_file, current_offset,
                   header_buffered, called, history>>

\* Flush the record, and the header of this run with the first one.
WriterMetadata ==
    /\ writer = "metadata"
    /\ metadata_file' = WrittenTo(metadata_file \o Buffered,
                                  Record(Head(pending_writes), current_offset))
    /\ header_buffered' = FALSE
    /\ current_offset' = OffsetAfter
    /\ writer' = "push"
    /\ UNCHANGED <<callback, producer, destructor, accepted, pending_writes,
                   pending_callbacks, data_file, called, history>>

\* Queue the callback for the message, then notify the other thread.
WriterPush ==
    /\ writer = "push"
    /\ CallbacksMutexFree
    /\ pending_callbacks' = Append(pending_callbacks, Head(pending_writes))
    /\ pending_writes' = Tail(pending_writes)
    /\ writer' = "notify"
    /\ UNCHANGED <<callback, producer, destructor, accepted, files, called, history>>

WriterNotify ==
    /\ writer = "notify"
    /\ callback' = Notified(callback)
    /\ writer' = "drain"
    /\ UNCHANGED <<producer, destructor, accepted, pending_writes,
                   pending_callbacks, files, called, history>>

(***************************************************************************)
(* issue_callbacks.                                                        *)
(***************************************************************************)
\* The callback thread takes its mutex.
CallbackLock ==
    /\ \/ callback = "starting" /\ callback' = "loop"
       \/ callback \in {"woken", "relock"} /\ callback' = "drain"
    /\ UNCHANGED <<writer, producer, destructor, accepted, pending_writes,
                   pending_callbacks, files, called, history>>

CallbackLoop ==
    /\ callback = "loop"
    /\ callback' = IF exit THEN "exited" ELSE "waiting"
    /\ UNCHANGED <<writer, producer, destructor, accepted, pending_writes,
                   pending_callbacks, files, called, history>>

NoMoreCallbacks == pending_callbacks = <<>>

CallbackDrain ==
    /\ callback = "drain"
    /\ callback' = IF NoMoreCallbacks THEN "loop" ELSE "calling"
    /\ UNCHANGED <<writer, producer, destructor, accepted, pending_writes,
                   pending_callbacks, files, called, history>>

\* The callback waits for msg_state_mtx.  The code takes it off the queue just
\* before it releases the queue's mutex.
RunCallback ==
    /\ callback = "calling"
    /\ producer = "idle"
    /\ called' = Append(called, Head(pending_callbacks))
    /\ pending_callbacks' = Tail(pending_callbacks)
    /\ callback' = "relock"
    /\ UNCHANGED <<writer, producer, destructor, accepted, pending_writes, files, history>>

(***************************************************************************)
(* ~FileWriter: set exit with both mutexes held, notify both threads and   *)
(* join them.                                                              *)
(***************************************************************************)
Destroy ==
    /\ \/ /\ MayExit /\ destructor = "idle" /\ producer = "idle"
          /\ WritesMutexFree /\ CallbacksMutexFree
          /\ destructor' = "exit" /\ UNCHANGED <<writer, callback>>
       \/ /\ destructor = "exit"
          /\ destructor' = "callbacks_notified"
          /\ callback' = Notified(callback) /\ UNCHANGED writer
       \/ /\ destructor = "callbacks_notified"
          /\ destructor' = "joining"
          /\ writer' = Notified(writer) /\ UNCHANGED callback
       \/ /\ destructor = "joining"
          /\ writer = "exited" /\ callback = "exited"
          /\ destructor' = "done" /\ UNCHANGED <<writer, callback>>
    /\ UNCHANGED <<producer, accepted, pending_writes, pending_callbacks, files,
                   called, history>>

(***************************************************************************)
(* The process crashes; a new one opens the same files for appending.      *)
(***************************************************************************)
Crash ==
    /\ run < MaxCrashes      \* bound
    /\ run' = run + 1
    /\ start' = [accepted |-> accepted, data |-> Len(data_file),
                 metadata |-> Len(metadata_file)]
    /\ writer' = "starting" /\ callback' = "starting"
    /\ producer' = "idle" /\ destructor' = "idle"
    /\ pending_writes' = <<>> /\ pending_callbacks' = <<>>
    /\ current_offset' = 0 /\ header_buffered' = TRUE
    /\ called' = <<>>
    /\ UNCHANGED <<accepted, data_file, metadata_file>>

WriterStep ==
    \/ WriterLock \/ WriterLoop \/ WriterExit
    \/ WriterDrain \/ WriterMetadata \/ WriterPush \/ WriterNotify

CallbackStep == CallbackLock \/ CallbackLoop \/ CallbackDrain \/ RunCallback

Next ==
    \/ DeliverMessage \/ WriteMessage \/ NotifyWriter
    \/ WriterStep
    \/ CallbackStep
    \/ Destroy
    \/ Crash

\* Every thread runs; the destructor finishes once it has been called.
Fairness ==
    /\ WF_vars(WriteMessage) /\ WF_vars(NotifyWriter)
    /\ WF_vars(WriterStep)
    /\ WF_vars(CallbackStep)
    /\ WF_vars(exit /\ Destroy)

Spec == Init /\ [][Next]_vars

FairSpec == Spec /\ Fairness

-----------------------------------------------------------------------------
(***************************************************************************)
(* Reading the log: log_tail_length.cpp.  It expects one header and scans  *)
(* the records until it has found the target.  Message 1 is sender 0's     *)
(* message 0 of view 0: the numbers the scan starts with, so that it stops *)
(* before it has read a record.                                            *)
(***************************************************************************)
IsTarget(record, target) == record.message = target

\* Wrong: the position of the target itself.
StartOf(record) == record.offset

EndOf(record) == record.offset + 1

log_tail_length(target) ==
    LET records == Tail(metadata_file)
        found == SelectInSeq(records, LAMBDA record : IsTarget(record, target))
    IN  IF target = 1 THEN Len(data_file)
        ELSE Len(data_file) - EndOf(records[found])

-----------------------------------------------------------------------------
\* Every variable keeps its type.
TypeOK ==
    /\ writer \in WriterState
    /\ callback \in CallbackState
    /\ producer \in {"idle", "delivering", "notify"}
    /\ destructor \in DestructorState
    /\ accepted \in 0 .. MaxMessages
    /\ pending_writes \in Seq(1 .. MaxMessages)
    /\ pending_callbacks \in Seq(1 .. MaxMessages)
    /\ data_file \in Seq(1 .. MaxMessages)
    /\ \A n \in DOMAIN metadata_file :
           \/ metadata_file[n] = Header
           \/ /\ metadata_file[n].message \in 1 .. MaxMessages
              /\ metadata_file[n].offset \in 0 .. MaxMessages - 1
    /\ current_offset \in 0 .. Len(data_file) - start.data
    /\ header_buffered \in BOOLEAN
    /\ called \in Seq(1 .. MaxMessages)
    /\ run \in 0 .. MaxCrashes

\* The records this run has written, without its header.
RunRecords == SubSeq(metadata_file, start.metadata + 2, Len(metadata_file))

\* The upcall comes only for messages that are in both files, in the order of
\* delivery and once each: persisted_num can be set from its argument.
UpcallsFollowTheFile ==
    /\ Len(called) <= Len(RunRecords)
    /\ \A n \in DOMAIN RunRecords : RunRecords[n].message = start.accepted + n
    /\ \A n \in DOMAIN called : called[n] = start.accepted + n

\* "metadata.offset = current_offset" (filewriter.cpp:74): a message that has a
\* record is in the data file, at the record's offset counted from where the
\* data file ended when the process started; in the first run that is the
\* offset in the file.
RecordsLocateMessages ==
    \A n \in DOMAIN RunRecords :
        /\ start.data + RunRecords[n].offset < Len(data_file)
        /\ data_file[start.data + RunRecords[n].offset + 1] = RunRecords[n].message

\* "calculates the length, in bytes, of the tail of a Derecho log file, from the
\* provided message number to the end" (log_tail_length.cpp:3): in a log of one
\* run, when both files have been flushed, the tail of every message but the
\* first is what was written after it.
TailIsCounted ==
    (run = 0 /\ writer # "metadata") =>
        \A n \in 2 .. Len(RunRecords) :
            log_tail_length(RunRecords[n].message) = Len(RunRecords) - n

\* "the name of the file in which to save persistent copies of all messages
\* received" (derecho_group_impl.h:56): a message that is there when the writer
\* thread wakes up is written, even if the destructor is called, unless the
\* process crashes, and one whose callback is queued when the callback thread
\* wakes up is reported.  No order of the three mutexes makes the threads wait
\* for one another in a ring.
NoticedIsDone ==
    \A m \in 1 .. MaxMessages, r \in 0 .. MaxCrashes :
        /\ run = r /\ m \in start.accepted + 1 .. accepted /\ writer = "woken"
               ~> run # r \/ Len(RunRecords) >= m - start.accepted
        /\ run = r /\ Len(called) + Len(pending_callbacks) >= m /\ callback = "woken"
               ~> run # r \/ Len(called) >= m

\* ~FileWriter joins its threads: the destructor returns.
DestructorReturns ==
    \A r \in 0 .. MaxCrashes : run = r /\ exit ~> run # r \/ destructor = "done"

=============================================================================
