---------------------------- MODULE FileWriterProofs ----------------------------
(***************************************************************************)
(* Theorems about FileWriter: what the upcall reports is in both files and *)
(* in the order of delivery, the records say where the messages are, and   *)
(* the tail of the log of one run is measured correctly; for any number of *)
(* messages and of crashes, whenever the destructor comes.                 *)
(***************************************************************************)
EXTENDS FileWriter, SequenceTheorems, TLAPS

Messages == 1 .. MaxMessages

Records == {Header} \cup [message : Messages, offset : 0 .. MaxMessages - 1]

\* What the variables are, those of the history included.
Types ==
    /\ writer \in WriterState /\ callback \in CallbackState
    /\ producer \in {"idle", "delivering", "notify"}
    /\ destructor \in DestructorState
    /\ accepted \in 0 .. MaxMessages
    /\ producer = "delivering" => accepted < MaxMessages
    /\ pending_writes \in Seq(Messages) /\ pending_callbacks \in Seq(Messages)
    /\ data_file \in Seq(Messages) /\ metadata_file \in Seq(Records)
    /\ current_offset \in Nat /\ header_buffered \in BOOLEAN
    /\ called \in Seq(Messages)
    /\ run \in 0 .. MaxCrashes
    /\ start \in [accepted : Nat, data : Nat, metadata : Nat]

(***************************************************************************)
(* The inductive invariant.  Of the messages of a run, the first ones have *)
(* a record (current_offset counts them); those up to Queued have reached  *)
(* the queue of the callbacks; the others wait to be written.              *)
(***************************************************************************)
\* The record has been written, but the message is still at the head of
\* pending_writes.
BeingQueued == IF writer = "push" THEN 1 ELSE 0

BeingWritten == IF writer = "metadata" THEN 1 ELSE 0

Queued == current_offset - BeingQueued

\* The data file has the messages of this run in order, at most one of them
\* without its record.
DataInOrder ==
    /\ Len(data_file) = start.data + current_offset + BeingWritten
    /\ \A n \in 1 .. Len(data_file) - start.data :
           data_file[start.data + n] = start.accepted + n

\* The records of this run come after its header, one for each message.
RecordsInOrder ==
    /\ header_buffered =>
           Len(metadata_file) = start.metadata /\ current_offset = 0
    /\ ~ header_buffered =>
           Len(metadata_file) = start.metadata + 1 + current_offset
    /\ \A n \in 1 .. current_offset :
           metadata_file[start.metadata + 1 + n] = Record(start.accepted + n, n - 1)

\* What is not yet in the queue of the callbacks waits to be written.
WritesInOrder ==
    /\ accepted = start.accepted + Queued + Len(pending_writes)
    /\ \A n \in 1 .. Len(pending_writes) :
           pending_writes[n] = start.accepted + Queued + n
    /\ writer \in {"metadata", "push"} => pending_writes # <<>>

\* The rest has been called back or waits for it.
CallbacksInOrder ==
    /\ Queued = Len(called) + Len(pending_callbacks)
    /\ \A n \in 1 .. Len(called) : called[n] = start.accepted + n
    /\ \A n \in 1 .. Len(pending_callbacks) :
           pending_callbacks[n] = start.accepted + Len(called) + n
    /\ callback = "calling" => pending_callbacks # <<>>

\* The first run starts with empty files.
FirstRun == run = 0 => start = [accepted |-> 0, data |-> 0, metadata |-> 0]

IInv ==
    /\ Types
    /\ DataInOrder
    /\ RecordsInOrder
    /\ WritesInOrder
    /\ CallbacksInOrder
    /\ FirstRun

USE FileWriterAssumption DEF FileWriterAssumption

(***************************************************************************)
(* One lemma per step that moves a message, one for all the others.        *)
(***************************************************************************)
\* Init establishes the invariant.
LEMMA InvariantInit == Init => IInv
<1> SUFFICES ASSUME Init
             PROVE  IInv
    OBVIOUS
<1>1. Types
    BY DEF Init, Types, WriterState, CallbackState, ThreadState, DestructorState
<1>2. DataInOrder /\ RecordsInOrder
    BY DEF Init, DataInOrder, RecordsInOrder, BeingWritten
<1>3. WritesInOrder /\ CallbacksInOrder /\ FirstRun
    BY DEF Init, WritesInOrder, CallbacksInOrder, FirstRun, Queued, BeingQueued
<1> QED
    BY <1>1, <1>2, <1>3 DEF IInv

\* A step of the program counters alone.
OnlyCounters ==
    /\ UNCHANGED <<accepted, pending_writes, pending_callbacks, files, called, history>>
    /\ writer' = writer \/ {writer, writer'} \cap {"metadata", "push"} = {}
    /\ callback' = "calling" => callback = "calling" \/ pending_callbacks # <<>>

LEMMA CountersKeep == IInv /\ Types' /\ OnlyCounters => IInv'
<1> SUFFICES ASSUME IInv, Types', OnlyCounters
             PROVE  IInv'
    OBVIOUS
<1>1. /\ UNCHANGED <<accepted, pending_writes, pending_callbacks, data_file,
                     metadata_file, current_offset, header_buffered, called, run, start>>
      /\ BeingQueued' = BeingQueued /\ BeingWritten' = BeingWritten
      /\ writer' \in {"metadata", "push"} => writer \in {"metadata", "push"}
    BY DEF OnlyCounters, files, history, BeingQueued, BeingWritten
<1>2. Queued' = Queued
    BY <1>1 DEF Queued
<1>3. DataInOrder' /\ RecordsInOrder' /\ FirstRun'
    BY <1>1 DEF IInv, DataInOrder, RecordsInOrder, FirstRun
<1>4. WritesInOrder'
    BY <1>1, <1>2 DEF IInv, WritesInOrder
<1>5. CallbacksInOrder'
    BY <1>1, <1>2 DEF IInv, CallbacksInOrder, OnlyCounters
<1> QED
    BY <1>3, <1>4, <1>5 DEF IInv

\* The steps that only move a program counter.
LEMMA CountersStep ==
    ASSUME IInv,
           \/ DeliverMessage \/ NotifyWriter
           \/ WriterLock \/ WriterLoop \/ WriterNotify
           \/ CallbackLock \/ CallbackLoop \/ CallbackDrain \/ Destroy
    PROVE  IInv'
<1> USE DEF WriterState, CallbackState, ThreadState, DestructorState, OnlyCounters
<1>1. CASE DeliverMessage
  <2>1. OnlyCounters /\ Types'
    BY <1>1 DEF DeliverMessage, IInv, Types, files, history
  <2> QED
    BY <2>1, CountersKeep
<1>2. CASE NotifyWriter
  <2>1. OnlyCounters /\ Types'
    BY <1>2 DEF NotifyWriter, Notified, IInv, Types, files, history
  <2> QED
    BY <2>1, CountersKeep
<1>3. CASE WriterLock \/ WriterLoop \/ WriterNotify
  <2>1. OnlyCounters /\ Types'
    BY <1>3 DEF WriterLock, WriterLoop, WriterNotify, Notified, IInv, Types, files, history
  <2> QED
    BY <2>1, CountersKeep
<1>4. CASE CallbackLock \/ CallbackLoop \/ CallbackDrain
  <2>1. OnlyCounters /\ Types'
    BY <1>4 DEF CallbackLock, CallbackLoop, CallbackDrain, NoMoreCallbacks, IInv, Types,
                files, history
  <2> QED
    BY <2>1, CountersKeep
<1>5. CASE Destroy
  <2>1. OnlyCounters /\ Types'
    BY <1>5 DEF Destroy, Notified, IInv, Types, files, history
  <2> QED
    BY <2>1, CountersKeep
<1> QED
    BY <1>1, <1>2, <1>3, <1>4, <1>5

\* write_message: one more message waits to be written.
LEMMA WriteMessageStep == IInv /\ WriteMessage => IInv'
<1> SUFFICES ASSUME IInv, WriteMessage
             PROVE  IInv'
    OBVIOUS
<1>1. /\ UNCHANGED <<writer, callback, pending_callbacks, data_file, metadata_file,
                     current_offset, header_buffered, called, run, start>>
      /\ BeingQueued' = BeingQueued /\ BeingWritten' = BeingWritten
    BY DEF WriteMessage, files, history, BeingQueued, BeingWritten
<1>2. accepted' = accepted + 1 /\ pending_writes' = Append(pending_writes, accepted + 1)
    BY DEF WriteMessage
<1>3. /\ accepted \in Nat /\ accepted + 1 \in Messages /\ pending_writes \in Seq(Messages)
      /\ start.accepted \in Nat /\ current_offset \in Nat
    BY DEF IInv, Types, WriteMessage, Messages
<1>4. /\ pending_writes' \in Seq(Messages) /\ pending_writes' # <<>>
      /\ Len(pending_writes') = Len(pending_writes) + 1
      /\ \A n \in 1 .. Len(pending_writes) : pending_writes'[n] = pending_writes[n]
      /\ pending_writes'[Len(pending_writes) + 1] = accepted + 1
      /\ Len(pending_writes) \in Nat
    BY <1>2, <1>3, AppendProperties, LenProperties
<1>5. Types'
    BY <1>1, <1>2, <1>3, <1>4 DEF IInv, Types, WriteMessage, Messages
<1>6. Queued' = Queued /\ Queued \in Int
    BY <1>1, <1>3 DEF Queued, BeingQueued
<1>7. WritesInOrder'
  <2>1. /\ accepted = start.accepted + Queued + Len(pending_writes)
        /\ \A n \in 1 .. Len(pending_writes) :
               pending_writes[n] = start.accepted + Queued + n
    BY DEF IInv, WritesInOrder
  <2>2. \A n \in 1 .. Len(pending_writes) + 1 :
            n \in 1 .. Len(pending_writes) \/ n = Len(pending_writes) + 1
    BY <1>4
  <2>3. \A n \in 1 .. Len(pending_writes') :
            pending_writes'[n] = start.accepted + Queued + n
    BY <1>3, <1>4, <1>6, <2>1, <2>2
  <2>4. accepted' = start.accepted + Queued + Len(pending_writes')
    BY <1>2, <1>3, <1>4, <1>6, <2>1
  <2>5. start' = start /\ pending_writes' # <<>>
    BY <1>1, <1>4
  <2> QED
    BY <1>6, <2>3, <2>4, <2>5 DEF WritesInOrder
<1>8. DataInOrder' /\ RecordsInOrder' /\ CallbacksInOrder' /\ FirstRun'
    BY <1>1, <1>6 DEF IInv, DataInOrder, RecordsInOrder, CallbacksInOrder, FirstRun
<1> QED
    BY <1>5, <1>7, <1>8 DEF IInv

\* The header of a run comes before its first record, and only once.
LEMMA BufferedHeader ==
    ASSUME IInv
    PROVE  /\ Buffered \in Seq(Records)
           /\ header_buffered => Buffered = <<Header>> /\ Len(Buffered) = 1
           /\ ~ header_buffered => Buffered = <<>> /\ Len(Buffered) = 0
           /\ metadata_file \o Buffered \in Seq(Records)
           /\ Len(metadata_file \o Buffered) = start.metadata + 1 + current_offset
           /\ \A n \in 1 .. current_offset :
                  (metadata_file \o Buffered)[start.metadata + 1 + n]
                      = Record(start.accepted + n, n - 1)
<1>1. /\ metadata_file \in Seq(Records) /\ Len(metadata_file) \in Nat
      /\ start.metadata \in Nat /\ current_offset \in Nat /\ header_buffered \in BOOLEAN
    BY LenProperties DEF IInv, Types
<1>2. /\ Buffered \in Seq(Records)
      /\ header_buffered => Buffered = <<Header>> /\ Len(Buffered) = 1
      /\ ~ header_buffered => Buffered = <<>> /\ Len(Buffered) = 0
  <2>1. Header \in Records
    BY DEF Records
  <2>2. CASE header_buffered
    <3>1. Buffered = <<Header>>
      BY <2>2 DEF Buffered
    <3> QED
      BY <2>1, <2>2, <3>1
  <2>3. CASE ~ header_buffered
    <3>1. Buffered = <<>>
      BY <2>3 DEF Buffered
    <3> QED
      BY <2>3, <3>1
  <2> QED
    BY <1>1, <2>2, <2>3
<1>3. /\ metadata_file \o Buffered \in Seq(Records)
      /\ Len(metadata_file \o Buffered) = Len(metadata_file) + Len(Buffered)
      /\ \A n \in 1 .. Len(metadata_file) + Len(Buffered) : (metadata_file \o Buffered)[n]
             = IF n <= Len(metadata_file) THEN metadata_file[n]
               ELSE Buffered[n - Len(metadata_file)]
    BY <1>1, <1>2, ConcatProperties
<1>4. /\ header_buffered => Len(metadata_file) = start.metadata /\ current_offset = 0
      /\ ~ header_buffered => Len(metadata_file) = start.metadata + 1 + current_offset
      /\ \A n \in 1 .. current_offset :
             metadata_file[start.metadata + 1 + n] = Record(start.accepted + n, n - 1)
    BY DEF IInv, RecordsInOrder
<1>5. Len(metadata_file \o Buffered) = start.metadata + 1 + current_offset
  <2>1. Len(metadata_file \o Buffered) = Len(metadata_file) + Len(Buffered)
    BY <1>3
  <2>2. CASE header_buffered
    <3>1. Len(Buffered) = 1
      BY <1>2, <2>2
    <3>2. Len(metadata_file) = start.metadata /\ current_offset = 0
      BY <1>4, <2>2
    <3> QED
      BY <1>1, <2>1, <3>1, <3>2
  <2>3. CASE ~ header_buffered
    BY <1>1, <1>2, <1>4, <2>1, <2>3
  <2> QED
    BY <2>2, <2>3
<1>6. ASSUME NEW n \in 1 .. current_offset
      PROVE  (metadata_file \o Buffered)[start.metadata + 1 + n]
                 = Record(start.accepted + n, n - 1)
  <2>1. ~ header_buffered
    BY <1>1, <1>4
  <2>2. /\ start.metadata + 1 + n \in 1 .. Len(metadata_file) + Len(Buffered)
        /\ start.metadata + 1 + n <= Len(metadata_file)
    BY <1>1, <1>2, <1>4, <2>1
  <2>3. (metadata_file \o Buffered)[start.metadata + 1 + n]
            = metadata_file[start.metadata + 1 + n]
    BY <1>3, <2>2
  <2> QED
    BY <1>4, <2>3
<1> QED
    BY <1>2, <1>3, <1>5, <1>6

\* The writer thread closes its streams.
LEMMA WriterExitStep == IInv /\ WriterExit => IInv'
<1> SUFFICES ASSUME IInv, WriterExit
             PROVE  IInv'
    OBVIOUS
<1>1. /\ UNCHANGED <<callback, producer, destructor, accepted, pending_writes,
                     pending_callbacks, data_file, current_offset, called, run, start>>
      /\ BeingQueued' = BeingQueued /\ BeingWritten' = BeingWritten
      /\ writer' = "exited" /\ header_buffered' = FALSE
      /\ metadata_file' = metadata_file \o Buffered
    BY DEF WriterExit, history, BeingQueued, BeingWritten
<1>2. Types'
    BY <1>1, BufferedHeader DEF IInv, Types, WriterState, ThreadState
<1>3. RecordsInOrder'
    BY <1>1, BufferedHeader DEF RecordsInOrder
<1>4. Queued' = Queued
    BY <1>1 DEF Queued
<1>5. DataInOrder' /\ WritesInOrder' /\ CallbacksInOrder' /\ FirstRun'
    BY <1>1, <1>4 DEF IInv, DataInOrder, WritesInOrder, CallbacksInOrder, FirstRun
<1> QED
    BY <1>2, <1>3, <1>5 DEF IInv

\* The next message to be written is the one after those that have a record.
LEMMA NextWrite ==
    ASSUME IInv, pending_writes # <<>>
    PROVE  /\ Head(pending_writes) \in Messages
           /\ Head(pending_writes) = start.accepted + Queued + 1
           /\ Tail(pending_writes) \in Seq(Messages)
           /\ Len(pending_writes) \in Nat /\ Len(pending_writes) > 0
           /\ Len(Tail(pending_writes)) = Len(pending_writes) - 1
           /\ \A n \in 1 .. Len(pending_writes) - 1 :
                  Tail(pending_writes)[n] = start.accepted + Queued + n + 1
<1>1. /\ pending_writes \in Seq(Messages) /\ start.accepted \in Nat
      /\ current_offset \in Nat
      /\ \A n \in 1 .. Len(pending_writes) :
             pending_writes[n] = start.accepted + Queued + n
    BY DEF IInv, Types, WritesInOrder
<1>2. Queued \in Int
    BY <1>1 DEF Queued, BeingQueued
<1>3. Len(pending_writes) \in Nat /\ Len(pending_writes) > 0
    BY <1>1, EmptySeq, LenProperties
<1>4. Head(pending_writes) = pending_writes[1]
    BY <1>1, <1>3
<1>5. /\ Head(pending_writes) \in Messages /\ Tail(pending_writes) \in Seq(Messages)
      /\ Len(Tail(pending_writes)) = Len(pending_writes) - 1
      /\ \A n \in 1 .. Len(pending_writes) - 1 :
             Tail(pending_writes)[n] = pending_writes[n + 1]
    BY <1>1, HeadTailProperties
<1>6. ASSUME NEW n \in 1 .. Len(pending_writes) - 1
      PROVE  Tail(pending_writes)[n] = start.accepted + Queued + n + 1
  <2>1. n + 1 \in 1 .. Len(pending_writes)
    BY <1>3
  <2>2. pending_writes[n + 1] = start.accepted + Queued + (n + 1)
    BY <1>1, <2>1
  <2> QED
    BY <1>1, <1>2, <1>5, <2>2
<1>7. Head(pending_writes) = start.accepted + Queued + 1
    BY <1>1, <1>3, <1>4
<1> QED
    BY <1>3, <1>5, <1>6, <1>7

\* The message goes to the data file.
LEMMA WriterDrainStep == IInv /\ WriterDrain => IInv'
<1> SUFFICES ASSUME IInv, WriterDrain
             PROVE  IInv'
    OBVIOUS
<1>1. CASE pending_writes = <<>>
  <2>1. OnlyCounters /\ Types'
    BY <1>1 DEF WriterDrain, NoMoreWrites, IInv, Types, OnlyCounters, files, history,
                WriterState, ThreadState
  <2> QED
    BY <2>1, CountersKeep
<1>2. CASE pending_writes # <<>>
  <2>1. /\ UNCHANGED <<callback, producer, destructor, accepted, pending_writes,
                       pending_callbacks, metadata_file, current_offset,
                       header_buffered, called, run, start>>
        /\ BeingQueued = 0 /\ BeingQueued' = 0
        /\ BeingWritten = 0 /\ BeingWritten' = 1
        /\ writer' = "metadata"
        /\ data_file' = Append(data_file, Head(pending_writes))
    BY <1>2 DEF WriterDrain, NoMoreWrites, WrittenTo, history, BeingQueued, BeingWritten
  <2>2. /\ data_file \in Seq(Messages) /\ start.accepted \in Nat /\ start.data \in Nat
        /\ current_offset \in Nat
    BY DEF IInv, Types
  <2>3. Queued = current_offset /\ Queued' = Queued
    BY <2>1, <2>2 DEF Queued
  <2>4. Head(pending_writes) \in Messages
        /\ Head(pending_writes) = start.accepted + current_offset + 1
    BY <1>2, <2>3, NextWrite
  <2>5. /\ data_file' \in Seq(Messages)
        /\ Len(data_file') = Len(data_file) + 1
        /\ \A n \in 1 .. Len(data_file) : data_file'[n] = data_file[n]
        /\ data_file'[Len(data_file) + 1] = start.accepted + current_offset + 1
    BY <2>1, <2>2, <2>4, AppendProperties
  <2>6. Types'
    BY <2>1, <2>5 DEF IInv, Types, WriterState
  <2>7. DataInOrder'
    <3>1. /\ Len(data_file) = start.data + current_offset
          /\ \A n \in 1 .. current_offset :
                 data_file[start.data + n] = start.accepted + n
      BY <2>1, <2>2 DEF IInv, DataInOrder
    <3>2. ASSUME NEW n \in 1 .. current_offset + 1
          PROVE  data_file'[start.data + n] = start.accepted + n
      <4>1. CASE n = current_offset + 1
        <5>1. start.data + n = Len(data_file) + 1
          BY <2>2, <3>1, <4>1
        <5>2. data_file'[Len(data_file) + 1] = start.accepted + current_offset + 1
          BY <2>5
        <5>3. start.accepted + current_offset + 1 = start.accepted + n
          BY <2>2, <4>1
        <5> QED
          BY <5>1, <5>2, <5>3
      <4>2. CASE n # current_offset + 1
        <5>1. n \in 1 .. current_offset /\ start.data + n \in 1 .. Len(data_file)
          BY <2>2, <3>1, <4>2
        <5> QED
          BY <2>5, <3>1, <5>1
      <4> QED
        BY <4>1, <4>2
    <3>3. /\ Len(data_file') = start.data + current_offset + 1
          /\ Len(data_file') - start.data = current_offset + 1
      BY <2>2, <2>5, <3>1
    <3> QED
      BY <2>1, <3>2, <3>3 DEF DataInOrder
  <2>8. WritesInOrder' /\ CallbacksInOrder'
    BY <1>2, <2>1, <2>3 DEF IInv, WritesInOrder, CallbacksInOrder
  <2>9. RecordsInOrder' /\ FirstRun'
    BY <2>1 DEF IInv, RecordsInOrder, FirstRun
  <2> QED
    BY <2>6, <2>7, <2>8, <2>9 DEF IInv
<1> QED
    BY <1>1, <1>2

\* Its record goes to the metadata file, after the header if it is the first.
LEMMA WriterMetadataStep == IInv /\ WriterMetadata => IInv'
<1> SUFFICES ASSUME IInv, WriterMetadata
             PROVE  IInv'
    OBVIOUS
<1> DEFINE before == metadata_file \o Buffered
           record == Record(Head(pending_writes), current_offset)
<1>1. /\ UNCHANGED <<callback, producer, destructor, accepted, pending_writes,
                     pending_callbacks, data_file, called, run, start>>
      /\ BeingQueued = 0 /\ BeingQueued' = 1
      /\ BeingWritten = 1 /\ BeingWritten' = 0
      /\ writer = "metadata" /\ writer' = "push"
      /\ header_buffered' = FALSE
      /\ current_offset' = current_offset + 1
      /\ metadata_file' = Append(before, record)
    BY DEF WriterMetadata, OffsetAfter, WrittenTo, history, BeingQueued, BeingWritten
<1>2. /\ start.accepted \in Nat /\ start.data \in Nat /\ start.metadata \in Nat
      /\ current_offset \in Nat
    BY DEF IInv, Types
<1>3. Queued = current_offset /\ Queued' = current_offset
    BY <1>1, <1>2 DEF Queued
<1>4. pending_writes # <<>>
    BY <1>1 DEF IInv, WritesInOrder
<1>5. /\ Head(pending_writes) \in Messages
      /\ Head(pending_writes) = start.accepted + (current_offset + 1)
  <2>1. Head(pending_writes) \in Messages
        /\ Head(pending_writes) = start.accepted + Queued + 1
    BY <1>4, NextWrite
  <2> QED
    BY <1>2, <1>3, <2>1
<1>6. current_offset \in 0 .. MaxMessages - 1
  <2>1. accepted = start.accepted + current_offset + Len(pending_writes)
    BY <1>3 DEF IInv, WritesInOrder
  <2>2. Len(pending_writes) \in Nat /\ Len(pending_writes) > 0
    BY <1>4, NextWrite
  <2>3. accepted \in 0 .. MaxMessages
    BY DEF IInv, Types
  <2> QED
    BY <1>2, <2>1, <2>2, <2>3
<1>7. record \in Records
    BY <1>5, <1>6 DEF Records, Record
<1>8. /\ before \in Seq(Records)
      /\ Len(before) = start.metadata + 1 + current_offset
      /\ \A n \in 1 .. current_offset :
             before[start.metadata + 1 + n] = Record(start.accepted + n, n - 1)
    BY BufferedHeader
<1> HIDE DEF before, record
<1>9. /\ metadata_file' \in Seq(Records)
      /\ Len(metadata_file') = Len(before) + 1
      /\ \A n \in 1 .. Len(before) : metadata_file'[n] = before[n]
      /\ metadata_file'[Len(before) + 1] = record
    BY <1>1, <1>7, <1>8, AppendProperties
<1>10. RecordsInOrder'
  <2> DEFINE length == Len(before)
  <2>3. length = start.metadata + 1 + current_offset
    BY <1>8
  <2>4. /\ \A n \in 1 .. length : metadata_file'[n] = before[n]
        /\ metadata_file'[length + 1] = record
        /\ Len(metadata_file') = length + 1
    BY <1>9
  <2> HIDE DEF length
  <2>1. ASSUME NEW n \in 1 .. current_offset + 1
        PROVE  metadata_file'[start.metadata + 1 + n] = Record(start.accepted + n, n - 1)
    <3>1. CASE n = current_offset + 1
      <4>1. start.metadata + 1 + n = length + 1 /\ n - 1 = current_offset
        BY <1>2, <2>3, <3>1
      <4> QED
        BY <1>5, <2>4, <3>1, <4>1 DEF record
    <3>2. CASE n # current_offset + 1
      <4>1. n \in 1 .. current_offset /\ start.metadata + 1 + n \in 1 .. length
        BY <1>2, <2>3, <3>2
      <4> QED
        BY <1>8, <2>4, <4>1
    <3> QED
      BY <3>1, <3>2
  <2>2. Len(metadata_file') = start.metadata + 1 + (current_offset + 1)
    <3>1. Len(metadata_file') = length + 1
      BY <2>4
    <3> QED
      BY <1>2, <2>3, <3>1
  <2> QED
    BY <1>1, <2>1, <2>2 DEF RecordsInOrder
<1>11. Types'
  <2>1. writer' \in WriterState /\ header_buffered' \in BOOLEAN
    BY <1>1 DEF WriterState
  <2>2. current_offset' = current_offset + 1
    BY <1>1
  <2>3. current_offset' \in Nat
    BY <1>2, <2>2
  <2> QED
    BY <1>1, <1>9, <2>1, <2>3 DEF IInv, Types
<1>12. DataInOrder'
    BY <1>1, <1>2 DEF IInv, DataInOrder
<1>13. WritesInOrder' /\ CallbacksInOrder'
    BY <1>1, <1>3, <1>4 DEF IInv, WritesInOrder, CallbacksInOrder
<1>14. FirstRun'
    BY <1>1 DEF IInv, FirstRun
<1> QED
    BY <1>10, <1>11, <1>12, <1>13, <1>14 DEF IInv

\* The message leaves the queue of the writes for that of the callbacks.
LEMMA WriterPushStep == IInv /\ WriterPush => IInv'
<1> SUFFICES ASSUME IInv, WriterPush
             PROVE  IInv'
    OBVIOUS
<1>1. /\ UNCHANGED <<callback, producer, destructor, accepted, data_file, metadata_file,
                     current_offset, header_buffered, called, run, start>>
      /\ BeingQueued = 1 /\ BeingQueued' = 0
      /\ BeingWritten = 0 /\ BeingWritten' = 0
      /\ writer = "push" /\ writer' = "notify"
      /\ pending_callbacks' = Append(pending_callbacks, Head(pending_writes))
      /\ pending_writes' = Tail(pending_writes)
    BY DEF WriterPush, files, history, BeingQueued, BeingWritten
<1>2. start.accepted \in Nat /\ current_offset \in Nat /\ accepted \in Nat
    BY DEF IInv, Types
<1>3. Queued \in Int /\ Queued' = Queued + 1
    BY <1>1, <1>2 DEF Queued
<1>4. pending_writes # <<>>
    BY <1>1 DEF IInv, WritesInOrder
<1>5. pending_callbacks \in Seq(Messages) /\ called \in Seq(Messages)
    BY DEF IInv, Types
<1>6. Len(pending_callbacks) \in Nat /\ Len(called) \in Nat
    BY <1>5, LenProperties
<1>7. Head(pending_writes) \in Messages
    BY <1>4, NextWrite
<1>8. /\ pending_callbacks' \in Seq(Messages) /\ pending_callbacks' # <<>>
      /\ Len(pending_callbacks') = Len(pending_callbacks) + 1
      /\ \A n \in 1 .. Len(pending_callbacks) :
             pending_callbacks'[n] = pending_callbacks[n]
      /\ pending_callbacks'[Len(pending_callbacks) + 1] = Head(pending_writes)
    BY <1>1, <1>5, <1>7, AppendProperties
<1>9. pending_writes' \in Seq(Messages)
    BY <1>1, <1>4, NextWrite
<1>10. Types'
  <2>1. writer' \in WriterState
    BY <1>1 DEF WriterState
  <2> QED
    BY <1>1, <1>8, <1>9, <2>1 DEF IInv, Types
<1>11. CallbacksInOrder'
  <2>1. /\ Queued = Len(called) + Len(pending_callbacks)
        /\ \A n \in 1 .. Len(called) : called[n] = start.accepted + n
        /\ \A n \in 1 .. Len(pending_callbacks) :
               pending_callbacks[n] = start.accepted + Len(called) + n
    BY DEF IInv, CallbacksInOrder
  <2>2. Head(pending_writes) = start.accepted + Queued + 1
    BY <1>4, NextWrite
  <2>3. Head(pending_writes)
            = start.accepted + Len(called) + (Len(pending_callbacks) + 1)
    <3>1. Queued = Len(called) + Len(pending_callbacks)
      BY <2>1
    <3> QED
      BY <1>2, <1>6, <2>2, <3>1
  <2>4. \A n \in 1 .. Len(pending_callbacks) + 1 :
            n \in 1 .. Len(pending_callbacks) \/ n = Len(pending_callbacks) + 1
    BY <1>6
  <2>5. \A n \in 1 .. Len(pending_callbacks') :
            pending_callbacks'[n] = start.accepted + Len(called) + n
    BY <1>8, <2>1, <2>3, <2>4
  <2>6. Len(pending_callbacks') = Len(pending_callbacks) + 1
    BY <1>8
  <2>7. Queued' = Len(called) + Len(pending_callbacks')
    BY <1>3, <1>6, <2>1, <2>6
  <2> QED
    BY <1>1, <1>8, <2>1, <2>5, <2>7 DEF CallbacksInOrder
<1>12. WritesInOrder'
  <2>1. accepted = start.accepted + Queued + Len(pending_writes)
    BY DEF IInv, WritesInOrder
  <2>2. /\ Len(pending_writes) \in Nat /\ Len(pending_writes) > 0
        /\ Len(pending_writes') = Len(pending_writes) - 1
        /\ \A n \in 1 .. Len(pending_writes) - 1 :
               pending_writes'[n] = start.accepted + Queued + n + 1
    BY <1>1, <1>4, NextWrite
  <2>3. accepted = start.accepted + (Queued + 1) + (Len(pending_writes) - 1)
    <3>1. Len(pending_writes) \in Nat
      BY <2>2
    <3> QED
      BY <1>2, <1>3, <2>1, <3>1
  <2>4. \A n \in 1 .. Len(pending_writes) - 1 :
            start.accepted + Queued + n + 1 = start.accepted + (Queued + 1) + n
    BY <1>2, <1>3
  <2>5. \A n \in 1 .. Len(pending_writes') :
            pending_writes'[n] = start.accepted + (Queued + 1) + n
    BY <2>2, <2>4
  <2> QED
    BY <1>1, <1>3, <2>2, <2>3, <2>5 DEF WritesInOrder
<1>13. DataInOrder' /\ RecordsInOrder' /\ FirstRun'
    BY <1>1 DEF IInv, DataInOrder, RecordsInOrder, FirstRun
<1> QED
    BY <1>10, <1>11, <1>12, <1>13 DEF IInv

\* issue_callbacks: the upcall for the first message of the queue.
LEMMA RunCallbackStep == IInv /\ RunCallback => IInv'
<1> SUFFICES ASSUME IInv, RunCallback
             PROVE  IInv'
    OBVIOUS
<1>1. /\ UNCHANGED <<writer, producer, destructor, accepted, pending_writes, data_file,
                     metadata_file, current_offset, header_buffered, run, start>>
      /\ callback = "calling" /\ callback' = "relock"
      /\ BeingQueued' = BeingQueued /\ BeingWritten' = BeingWritten
      /\ called' = Append(called, Head(pending_callbacks))
      /\ pending_callbacks' = Tail(pending_callbacks)
    BY DEF RunCallback, files, history, BeingQueued, BeingWritten
<1>2. /\ start.accepted \in Nat /\ called \in Seq(Messages)
      /\ pending_callbacks \in Seq(Messages)
    BY DEF IInv, Types
<1>3. /\ Queued = Len(called) + Len(pending_callbacks)
      /\ \A n \in 1 .. Len(called) : called[n] = start.accepted + n
      /\ \A n \in 1 .. Len(pending_callbacks) :
             pending_callbacks[n] = start.accepted + Len(called) + n
      /\ pending_callbacks # <<>>
    BY <1>1 DEF IInv, CallbacksInOrder
<1>4. Queued' = Queued
    BY <1>1 DEF Queued
<1>5. Len(called) \in Nat /\ Len(pending_callbacks) \in Nat /\ Len(pending_callbacks) > 0
    BY <1>2, <1>3, EmptySeq, LenProperties
<1>6. /\ Head(pending_callbacks) \in Messages
      /\ pending_callbacks' \in Seq(Messages)
      /\ Len(pending_callbacks') = Len(pending_callbacks) - 1
      /\ \A n \in 1 .. Len(pending_callbacks) - 1 :
             pending_callbacks'[n] = pending_callbacks[n + 1]
    BY <1>1, <1>2, <1>3, HeadTailProperties
<1>7. Head(pending_callbacks) = start.accepted + (Len(called) + 1)
  <2>1. Head(pending_callbacks) = pending_callbacks[1]
    BY <1>2, <1>5
  <2>2. pending_callbacks[1] = start.accepted + Len(called) + 1
    BY <1>3, <1>5
  <2> QED
    BY <1>2, <1>5, <2>1, <2>2
<1>8. /\ called' \in Seq(Messages)
      /\ Len(called') = Len(called) + 1
      /\ \A n \in 1 .. Len(called) : called'[n] = called[n]
      /\ called'[Len(called) + 1] = Head(pending_callbacks)
    BY <1>1, <1>2, <1>6, AppendProperties
<1>9. Types'
  <2>1. callback' \in CallbackState
    BY <1>1 DEF CallbackState
  <2> QED
    BY <1>1, <1>6, <1>8, <2>1 DEF IInv, Types
<1>10. CallbacksInOrder'
  <2>1. \A n \in 1 .. Len(called) + 1 : n \in 1 .. Len(called) \/ n = Len(called) + 1
    BY <1>5
  <2>2. \A n \in 1 .. Len(called') : called'[n] = start.accepted + n
    BY <1>3, <1>7, <1>8, <2>1
  <2>3. \A n \in 1 .. Len(pending_callbacks) - 1 :
            /\ n + 1 \in 1 .. Len(pending_callbacks)
            /\ start.accepted + Len(called) + (n + 1) = start.accepted + (Len(called) + 1) + n
    BY <1>2, <1>5
  <2>4. Len(called') = Len(called) + 1 /\ Len(pending_callbacks') = Len(pending_callbacks) - 1
    BY <1>6, <1>8
  <2>5. \A n \in 1 .. Len(pending_callbacks') :
            pending_callbacks'[n] = start.accepted + Len(called') + n
    BY <1>3, <1>6, <2>3, <2>4
  <2>6. Queued = Len(called') + Len(pending_callbacks')
    BY <1>3, <1>5, <2>4
  <2> QED
    BY <1>1, <1>4, <2>2, <2>5, <2>6 DEF CallbacksInOrder
<1>11. WritesInOrder'
    BY <1>1, <1>4 DEF IInv, WritesInOrder
<1>12. DataInOrder' /\ RecordsInOrder' /\ FirstRun'
    BY <1>1 DEF IInv, DataInOrder, RecordsInOrder, FirstRun
<1> QED
    BY <1>9, <1>10, <1>11, <1>12 DEF IInv

\* A new run begins after what the files have: nothing is queued in it.
LEMMA CrashStep == IInv /\ Crash => IInv'
<1> SUFFICES ASSUME IInv, Crash
             PROVE  IInv'
    OBVIOUS
<1>1. /\ UNCHANGED <<accepted, data_file, metadata_file>>
      /\ writer' = "starting" /\ callback' = "starting"
      /\ producer' = "idle" /\ destructor' = "idle"
      /\ pending_writes' = <<>> /\ pending_callbacks' = <<>> /\ called' = <<>>
      /\ current_offset' = 0 /\ header_buffered' = TRUE
      /\ run' = run + 1 /\ run < MaxCrashes
    BY DEF Crash
<1>2. /\ start'.accepted = accepted /\ start'.data = Len(data_file)
      /\ start'.metadata = Len(metadata_file)
      /\ start' = [accepted |-> accepted, data |-> Len(data_file),
                   metadata |-> Len(metadata_file)]
    BY DEF Crash
<1>3. /\ accepted \in Nat /\ run \in 0 .. MaxCrashes
      /\ data_file \in Seq(Messages) /\ metadata_file \in Seq(Records)
    BY DEF IInv, Types
<1>4. Len(data_file) \in Nat /\ Len(metadata_file) \in Nat
    BY <1>3, LenProperties
<1>5. Types'
  <2>1. start' \in [accepted : Nat, data : Nat, metadata : Nat]
    BY <1>2, <1>3, <1>4
  <2>2. run' \in 0 .. MaxCrashes
    BY <1>1, <1>3
  <2>3. /\ pending_writes' \in Seq(Messages) /\ pending_callbacks' \in Seq(Messages)
        /\ called' \in Seq(Messages)
    BY <1>1
  <2>4. /\ writer' \in WriterState /\ callback' \in CallbackState
        /\ destructor' \in DestructorState
    BY <1>1 DEF WriterState, CallbackState, ThreadState, DestructorState
  <2> QED
    BY <1>1, <2>1, <2>2, <2>3, <2>4 DEF IInv, Types
<1>6. BeingQueued' = 0 /\ BeingWritten' = 0 /\ Queued' = 0
    BY <1>1 DEF BeingQueued, BeingWritten, Queued
<1>7. DataInOrder'
    BY <1>1, <1>2, <1>4, <1>6 DEF DataInOrder
<1>8. RecordsInOrder'
    BY <1>1, <1>2 DEF RecordsInOrder
<1>9. WritesInOrder'
    BY <1>1, <1>2, <1>3, <1>6 DEF WritesInOrder
<1>10. CallbacksInOrder'
    BY <1>1, <1>6 DEF CallbacksInOrder
<1>11. FirstRun'
    BY <1>1, <1>3 DEF FirstRun
<1> QED
    BY <1>5, <1>7, <1>8, <1>9, <1>10, <1>11 DEF IInv

\* Every step keeps the invariant.
LEMMA InvariantStep == IInv /\ [Next]_vars => IInv'
<1> SUFFICES ASSUME IInv, [Next]_vars
             PROVE  IInv'
    OBVIOUS
<1>1. CASE DeliverMessage \/ NotifyWriter \/ WriterLock \/ WriterLoop \/ WriterNotify
           \/ CallbackLock \/ CallbackLoop \/ CallbackDrain \/ Destroy
    BY <1>1, CountersStep
<1>2. CASE WriteMessage
    BY <1>2, WriteMessageStep
<1>3. CASE WriterExit
    BY <1>3, WriterExitStep
<1>4. CASE WriterDrain
    BY <1>4, WriterDrainStep
<1>5. CASE WriterMetadata
    BY <1>5, WriterMetadataStep
<1>6. CASE WriterPush
    BY <1>6, WriterPushStep
<1>7. CASE RunCallback
    BY <1>7, RunCallbackStep
<1>8. CASE Crash
    BY <1>8, CrashStep
<1>9. CASE UNCHANGED vars
  <2>1. OnlyCounters
    BY <1>9 DEF OnlyCounters, vars, files, history
  <2>2. Types'
    BY <1>9 DEF IInv, Types, vars, files, history
  <2> QED
    BY <2>1, <2>2, CountersKeep
<1> QED
    BY <1>1, <1>2, <1>3, <1>4, <1>5, <1>6, <1>7, <1>8, <1>9
    DEF Next, WriterStep, CallbackStep

(***************************************************************************)
(* What the invariant says of the records.                                 *)
(***************************************************************************)
\* The records of a run, without its header, are those of its messages.
LEMMA RecordsOfRun ==
    ASSUME IInv
    PROVE  /\ Len(RunRecords) = current_offset
           /\ DOMAIN RunRecords = 1 .. current_offset
           /\ \A n \in 1 .. current_offset :
                  /\ RunRecords[n].message = start.accepted + n
                  /\ RunRecords[n].offset = n - 1
<1> DEFINE first == start.metadata + 2
           last == Len(metadata_file)
<1>1. /\ metadata_file \in Seq(Records) /\ Len(metadata_file) \in Nat
      /\ start.metadata \in Nat /\ start.accepted \in Nat /\ current_offset \in Nat
      /\ header_buffered \in BOOLEAN
    BY LenProperties DEF IInv, Types
<1>2. /\ header_buffered => Len(metadata_file) = start.metadata /\ current_offset = 0
      /\ ~ header_buffered => Len(metadata_file) = start.metadata + 1 + current_offset
      /\ \A n \in 1 .. current_offset :
             metadata_file[start.metadata + 1 + n] = Record(start.accepted + n, n - 1)
    BY DEF IInv, RecordsInOrder
<1>3. first \in Int /\ last \in Int
    BY <1>1
<1>4. ASSUME NEW n \in first .. last
      PROVE  metadata_file[n] \in Records
    BY <1>1, ElementOfSeq
<1>5. /\ RunRecords \in Seq(Records)
      /\ Len(RunRecords) = IF first <= last THEN last - first + 1 ELSE 0
      /\ \A n \in 1 .. last - first + 1 : RunRecords[n] = metadata_file[first + n - 1]
    BY <1>3, <1>4, SubSeqProperties DEF RunRecords
<1>6. /\ first <= last => last - first + 1 = current_offset
      /\ ~ first <= last => current_offset = 0
  <2>1. CASE header_buffered
    BY <1>1, <1>2, <2>1
  <2>2. CASE ~ header_buffered
    BY <1>1, <1>2, <2>2
  <2> QED
    BY <2>1, <2>2
<1>7. Len(RunRecords) = current_offset
    BY <1>5, <1>6
<1>8. DOMAIN RunRecords = 1 .. current_offset
    BY <1>5, <1>7, LenProperties
<1>9. ASSUME NEW n \in 1 .. current_offset
      PROVE  RunRecords[n] = Record(start.accepted + n, n - 1)
  <2>1. first <= last /\ last - first + 1 = current_offset
    BY <1>1, <1>6
  <2>2. first + n - 1 = start.metadata + 1 + n
    BY <1>1
  <2>3. RunRecords[n] = metadata_file[first + n - 1]
    BY <1>5, <2>1
  <2> QED
    BY <1>2, <2>2, <2>3
<1> QED
    BY <1>7, <1>8, <1>9 DEF Record

(***************************************************************************)
(* The theorems.                                                           *)
(***************************************************************************)
\* The queues of the two threads and the files of FileWriter are in step in
\* every run of the process.
THEOREM InvariantCorrect == Spec => []IInv
<1> QED
    BY InvariantInit, InvariantStep, PTL DEF Spec

\* The upcall comes for messages that are in both files only, in the order in
\* which they were given to write_message, and once each.
THEOREM UpcallSafety == Spec => []UpcallsFollowTheFile
<1>1. IInv => UpcallsFollowTheFile
  <2> SUFFICES ASSUME IInv
               PROVE  UpcallsFollowTheFile
    OBVIOUS
  <2>1. /\ called \in Seq(Messages) /\ pending_callbacks \in Seq(Messages)
        /\ current_offset \in Nat
    BY DEF IInv, Types
  <2>2. /\ current_offset - BeingQueued = Len(called) + Len(pending_callbacks)
        /\ \A n \in 1 .. Len(called) : called[n] = start.accepted + n
    BY DEF IInv, CallbacksInOrder, Queued
  <2>3. /\ Len(called) \in Nat /\ DOMAIN called = 1 .. Len(called)
        /\ Len(pending_callbacks) \in Nat
    BY <2>1, LenProperties
  <2>4. BeingQueued \in {0, 1}
    BY DEF BeingQueued
  <2>5. Len(called) <= current_offset
    BY <2>1, <2>2, <2>3, <2>4
  <2> QED
    BY <2>2, <2>3, <2>5, RecordsOfRun DEF UpcallsFollowTheFile
<1> QED
    BY <1>1, InvariantCorrect, PTL

\* filewriter.cpp:74: a record of this run says where in the data file its
\* message is, counted from the end of the file at the start of the process.
THEOREM OffsetSafety == Spec => []RecordsLocateMessages
<1>1. IInv => RecordsLocateMessages
  <2> SUFFICES ASSUME IInv,
                      NEW n \in 1 .. current_offset
               PROVE  /\ start.data + (n - 1) < Len(data_file)
                      /\ data_file[start.data + (n - 1) + 1] = start.accepted + n
    BY RecordsOfRun DEF RecordsLocateMessages
  <2>1. start.data \in Nat /\ current_offset \in Nat /\ start.accepted \in Nat
    BY DEF IInv, Types
  <2>2. Len(data_file) = start.data + current_offset + BeingWritten
    BY DEF IInv, DataInOrder
  <2>3. \A m \in 1 .. Len(data_file) - start.data :
            data_file[start.data + m] = start.accepted + m
    BY DEF IInv, DataInOrder
  <2>4. BeingWritten \in {0, 1}
    BY DEF BeingWritten
  <2>5. n \in 1 .. Len(data_file) - start.data
    BY <2>1, <2>2, <2>4
  <2>6. start.data + (n - 1) < Len(data_file) /\ start.data + (n - 1) + 1 = start.data + n
    BY <2>1, <2>2, <2>4
  <2> QED
    BY <2>3, <2>5, <2>6
<1> QED
    BY <1>1, InvariantCorrect, PTL

\* Every variable keeps its type; the offset never leaves what this run has
\* written to the data file.
THEOREM TypeCorrect == Spec => []TypeOK
<1>1. IInv => TypeOK
  <2> SUFFICES ASSUME IInv
               PROVE  TypeOK
    OBVIOUS
  <2>1. /\ writer \in WriterState /\ callback \in CallbackState
        /\ producer \in {"idle", "delivering", "notify"}
        /\ destructor \in DestructorState
        /\ accepted \in 0 .. MaxMessages
        /\ pending_writes \in Seq(1 .. MaxMessages)
        /\ pending_callbacks \in Seq(1 .. MaxMessages)
        /\ data_file \in Seq(1 .. MaxMessages) /\ called \in Seq(1 .. MaxMessages)
        /\ header_buffered \in BOOLEAN /\ run \in 0 .. MaxCrashes
    BY DEF IInv, Types, Messages
  <2>2. ASSUME NEW n \in DOMAIN metadata_file
        PROVE  \/ metadata_file[n] = Header
               \/ /\ metadata_file[n].message \in 1 .. MaxMessages
                  /\ metadata_file[n].offset \in 0 .. MaxMessages - 1
    <3>1. metadata_file \in Seq(Records)
      BY DEF IInv, Types
    <3>2. metadata_file[n] \in Records
      BY <3>1, ElementOfSeq, LenProperties
    <3> QED
      BY <3>2 DEF Records, Messages
  <2>3. current_offset \in 0 .. Len(data_file) - start.data
    <3>1. start.data \in Nat /\ current_offset \in Nat
      BY DEF IInv, Types
    <3>2. Len(data_file) = start.data + current_offset + BeingWritten
      BY DEF IInv, DataInOrder
    <3>3. BeingWritten \in {0, 1}
      BY DEF BeingWritten
    <3> QED
      BY <3>1, <3>2, <3>3
  <2> QED
    BY <2>1, <2>2, <2>3 DEF TypeOK
<1> QED
    BY <1>1, InvariantCorrect, PTL

\* log_tail_length.cpp:3: in the log of one run the tail of every message but the
\* first is what was written after it.
THEOREM TailSafety == Spec => []TailIsCounted
<1>1. IInv => TailIsCounted
  <2> SUFFICES ASSUME IInv
               PROVE  TailIsCounted
    OBVIOUS
  <2> SUFFICES ASSUME run = 0, writer # "metadata", NEW n \in 2 .. Len(RunRecords)
               PROVE  log_tail_length(RunRecords[n].message) = Len(RunRecords) - n
    BY DEF TailIsCounted
  <2> DEFINE records == Tail(metadata_file)
  <2>1. start.data = 0 /\ start.accepted = 0 /\ start.metadata = 0
    BY DEF IInv, FirstRun
  <2>2. /\ metadata_file \in Seq(Records) /\ Len(metadata_file) \in Nat
        /\ current_offset \in Nat /\ header_buffered \in BOOLEAN
    BY LenProperties DEF IInv, Types
  <2>3. Len(RunRecords) = current_offset /\ n \in 2 .. current_offset
    BY RecordsOfRun
  <2>4. RunRecords[n].message = n
    <3>1. RunRecords[n].message = start.accepted + n
      BY <2>2, <2>3, RecordsOfRun
    <3> QED
      BY <2>1, <3>1
  <2>5. Len(data_file) = current_offset
    <3>1. Len(data_file) = start.data + current_offset + BeingWritten
      BY DEF IInv, DataInOrder
    <3>2. BeingWritten = 0
      BY DEF BeingWritten
    <3> QED
      BY <2>1, <2>2, <3>1, <3>2
  <2>6. Len(metadata_file) = 1 + current_offset
    <3>1. ~ header_buffered
      BY <2>2, <2>3 DEF IInv, RecordsInOrder
    <3>2. Len(metadata_file) = start.metadata + 1 + current_offset
      BY <3>1 DEF IInv, RecordsInOrder
    <3> QED
      BY <2>1, <2>2, <3>2
  <2>7. ASSUME NEW k \in 1 .. current_offset
        PROVE  metadata_file[k + 1].message = k /\ metadata_file[k + 1].offset = k - 1
    <3>1. metadata_file[start.metadata + 1 + k] = Record(start.accepted + k, k - 1)
      BY DEF IInv, RecordsInOrder
    <3>2. start.metadata + 1 + k = k + 1 /\ start.accepted + k = k
      BY <2>1, <2>2
    <3> QED
      BY <3>1, <3>2 DEF Record
  <2>8. /\ Len(records) = current_offset
        /\ \A k \in 1 .. current_offset :
               records[k].message = k /\ records[k].offset = k - 1
    <3>1. metadata_file # <<>>
      BY <2>2, <2>6
    <3>2. /\ Len(records) = Len(metadata_file) - 1
          /\ \A k \in 1 .. Len(records) : records[k] = metadata_file[k + 1]
      BY <2>2, <3>1, HeadTailProperties
    <3>3. Len(records) = current_offset
      BY <2>2, <2>6, <3>2
    <3> QED
      BY <2>7, <3>2, <3>3
  <2> HIDE DEF records
  <2>9. {k \in 1 .. Len(records) : IsTarget(records[k], n)} = {n}
    BY <2>2, <2>3, <2>8 DEF IsTarget
  <2>10. Min({n}) = n
    BY DEF Min
  <2>11. SelectInSeq(records, LAMBDA record : IsTarget(record, n)) = n
    BY <2>9, <2>10 DEF SelectInSeq
  <2>12. EndOf(records[n]) = n
    <3>1. records[n].offset = n - 1
      BY <2>2, <2>3, <2>8
    <3> QED
      BY <2>2, <3>1 DEF EndOf
  <2>13. n # 1
    BY <2>2, <2>3
  <2>14. log_tail_length(n) = Len(data_file) - EndOf(records[n])
    BY <2>11, <2>13 DEF log_tail_length, records
  <2> QED
    BY <2>3, <2>4, <2>5, <2>12, <2>14
<1> QED
    BY <1>1, InvariantCorrect, PTL

=============================================================================
