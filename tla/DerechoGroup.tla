------------------------------ MODULE DerechoGroup ------------------------------
(***************************************************************************)
(* The atomic multicast of one view: class DerechoGroup                    *)
(* (derecho_group.h, derecho_group_impl.h) together with the message       *)
(* tracking columns of its SST row (DerechoRow in derecho_row.h).          *)
(*                                                                         *)
(* N members multicast in round-robin order.  Message number idx of the    *)
(* member of rank k has the sequence number idx * N + k; a member that     *)
(* skips turns announces them in the header of its last message            *)
(* (pause_sending_turns), and the receivers fill the skipped turns with    *)
(* empty messages.  A message is                                           *)
(*   - allocated by GetPosition and queued by Send (application thread),   *)
(*   - handed to RDMC by SenderStep (sender thread),                       *)
(*   - received through RdmcIncoming, RdmcReceive and OwnReceive (RDMC),   *)
(*   - delivered by StabilityTrig and DeliveryTrig (SST predicate thread), *)
(*   - persisted by FileWritten (FileWriter's callback thread).            *)
(* Wedge is what the group membership service does before a view change.   *)
(*                                                                         *)
(* The handlers of a member exclude one another with msg_state_mtx, so     *)
(* each of them is one step; StabilityTrig and the window test of          *)
(* get_position run without the lock, but they read columns that only      *)
(* grow.  The SST is replicated memory: x[i][j] is member i's copy of      *)
(* column x of member j's row.  A member reads one column at a time, and   *)
(* a column of eight aligned bytes is not torn, so every column reaches    *)
(* every other member in a step of its own.                                *)
(*                                                                         *)
(* Operators commented "Wrong" are mistakes that a change to the code       *)
(* could make.  Next does not use them; each is caught by a property below *)
(* when it takes the place of the definition that follows it.              *)
(*                                                                         *)
(* A crashed member takes no steps, which the specification allows at any  *)
(* time.  RPC payloads (cooked sends) are payloads like any other here.    *)
(***************************************************************************)
EXTENDS Integers, Sequences, FiniteSets

CONSTANTS
    N,           \* num_members
    WindowSize,  \* window_size
    Persistent,  \* file_writer # null: the group was given a file name
    MaxIndex,    \* bound: no message gets an index above this one
    MaxPause,    \* bound on the argument pause_sending_turns
    MaySkip,     \* bound: the members that may skip turns
    MayWedge     \* bound: the members that may be asked to wedge

ASSUME NAssumption == N \in Nat \ {0}
\* assert(window_size >= 1) in the constructor.
ASSUME WindowAssumption == WindowSize \in Nat \ {0}
ASSUME PersistentAssumption == Persistent \in BOOLEAN
ASSUME BoundsAssumption == MaxIndex \in Nat /\ MaxPause \in Nat

Rank == 0 .. N - 1

ASSUME MayWedgeAssumption == MayWedge \subseteq Rank

VARIABLES
    \* The SST.
    nReceived,      \* [Rank -> [Rank -> Int]]: member i's own row, by sender
    seq_num,        \* [Rank -> [Rank -> Int]]: reader, row; also the next three
    stable_num,
    delivered_num,
    persisted_num,
    \* Members of class DerechoGroup, by rank.  An optional is a set.
    future_message_index,
    next_send,
    pending_sends,
    current_send,
    current_receives,
    locally_stable_messages,
    non_persistent_messages,
    free_message_buffers,    \* how many there are
    wedge_state,
    \* RDMC and the FileWriter.
    inflight,       \* [Rank -> [Rank -> Seq(Message)]]: sender, receiver
    writes,         \* [Rank -> Seq(sequence number)]: handed to the FileWriter
    \* History.
    sent,           \* [Rank -> Seq(Nat)]: the payloads member i asked to send
    delivered       \* [Rank -> Seq(Upcall)]: the upcalls made at member i

sstVars == <<nReceived, seq_num, stable_num, delivered_num, persisted_num>>
sendVars == <<future_message_index, next_send, pending_sends, current_send>>
messageVars == <<current_receives, locally_stable_messages,
                 non_persistent_messages, free_message_buffers>>
vars == <<sstVars, sendVars, messageVars, wedge_state, inflight, writes,
          sent, delivered>>

(***************************************************************************)
(* Messages.  The buffer of a message holds a header, of which             *)
(* pause_sending_turns matters here, and the application's payload: body,  *)
(* the index its sender gave it.  index is what this member believes it to *)
(* be.  A skipped turn is a message of size 0 with no buffer.  The maps of *)
(* the code are sets of entries, a message and the sequence number it is   *)
(* filed under.                                                            *)
(***************************************************************************)
Index == 0 .. MaxIndex

Message == [sender_rank : Rank, index : Nat, size : {0, 1},
            pause : 0 .. MaxPause, body : Nat]

Entry == [seq : Nat, msg : Message]

Upcall == [sender_rank : Rank, index : Nat, body : Nat]

SeqNum(sender, index) == index * N + sender

\* Wrong: the empty message looks like one with content.
EmptyMessageWithContent(sender, idx) ==
    [sender_rank |-> sender, index |-> idx, size |-> 1, pause |-> 0, body |-> idx]

EmptyMessage(sender, idx) ==
    [sender_rank |-> sender, index |-> idx, size |-> 0, pause |-> 0, body |-> idx]

File(key, m) == [seq |-> key, msg |-> m]

\* The thread_shutdown flag, and how far wedge() has got since it was set.
WedgeState == {"running", "shutdown", "unregistered", "destroyed"}

thread_shutdown(i) == wedge_state[i] # "running"

predicates_registered(i) == wedge_state[i] \in {"running", "shutdown"}

rdmc_groups_open(i) == wedge_state[i] # "destroyed"

-----------------------------------------------------------------------------
(***************************************************************************)
(* The first constructor, once initialize_sst_row's barrier has been       *)
(* passed and the RDMC groups have been created.                           *)
(***************************************************************************)
initialize_sst_row ==
    /\ nReceived = [i \in Rank |-> [j \in Rank |-> -1]]
    /\ seq_num = [i \in Rank |-> [j \in Rank |-> -1]]
    /\ stable_num = [i \in Rank |-> [j \in Rank |-> -1]]
    /\ delivered_num = [i \in Rank |-> [j \in Rank |-> -1]]
    /\ persisted_num = [i \in Rank |-> [j \in Rank |-> -1]]

Init ==
    /\ initialize_sst_row
    /\ future_message_index = [i \in Rank |-> 0]
    /\ next_send = [i \in Rank |-> {}]
    /\ pending_sends = [i \in Rank |-> <<>>]
    /\ current_send = [i \in Rank |-> {}]
    /\ current_receives = [i \in Rank |-> {}]
    /\ locally_stable_messages = [i \in Rank |-> {}]
    /\ non_persistent_messages = [i \in Rank |-> {}]
    /\ free_message_buffers = [i \in Rank |-> WindowSize * N]
    /\ wedge_state = [i \in Rank |-> "running"]
    /\ inflight = [k \in Rank |-> [i \in Rank |-> <<>>]]
    /\ writes = [i \in Rank |-> <<>>]
    /\ sent = [i \in Rank |-> <<>>]
    /\ delivered = [i \in Rank |-> <<>>]

-----------------------------------------------------------------------------
(***************************************************************************)
(* get_position: allocate the next message if the window has room and a    *)
(* buffer is free.  It skips the pause turns that follow.  next_send[i] is *)
(* empty: callers use (get_position.send)*.                                *)
(***************************************************************************)
\* Wrong: a window that is one message too wide.
WindowHasRoomForOneMore(i) ==
    \A j \in Rank :
        delivered_num[i][j] >= SeqNum(i, future_message_index[i] - WindowSize - 1)

WindowHasRoom(i) ==
    \A j \in Rank :
        delivered_num[i][j] >= SeqNum(i, future_message_index[i] - WindowSize)

\* Wrong: skips the turns twice.
TurnsSkippedTwice(index, turns) == index + 2 * turns + 1

NextTurn(index, turns) == index + turns + 1

GetPosition(i, turns) ==
    /\ next_send[i] = {}
    /\ future_message_index[i] + turns <= MaxIndex      \* bound
    /\ turns > 0 => i \in MaySkip                       \* bound
    /\ WindowHasRoom(i)
    /\ ~ thread_shutdown(i)
    /\ free_message_buffers[i] > 0
    /\ next_send' = [next_send EXCEPT ![i] =
           {[sender_rank |-> i, index |-> future_message_index[i], size |-> 1,
             pause |-> turns, body |-> future_message_index[i]]}]
    /\ free_message_buffers' = [free_message_buffers EXCEPT ![i] = @ - 1]
    /\ future_message_index' = [future_message_index EXCEPT ![i] = NextTurn(@, turns)]
    /\ UNCHANGED <<sstVars, pending_sends, current_send, current_receives,
                   locally_stable_messages, non_persistent_messages,
                   wedge_state, inflight, writes, sent, delivered>>

(***************************************************************************)
(* send: queue the allocated message for the sender thread.                *)
(***************************************************************************)
Send(i) ==
    /\ ~ thread_shutdown(i)
    /\ \E m \in next_send[i] :
           /\ pending_sends' = [pending_sends EXCEPT ![i] = Append(@, m)]
           /\ sent' = [sent EXCEPT ![i] = Append(@, m.body)]
    /\ next_send' = [next_send EXCEPT ![i] = {}]
    /\ UNCHANGED <<sstVars, future_message_index, current_send, messageVars,
                   wedge_state, inflight, writes, delivered>>

(***************************************************************************)
(* One turn of send_loop.  should_send: the previous message is out of the *)
(* sender's hands, and every member has delivered (and persisted) the      *)
(* message one window back.  rdmc::send queues the message for every       *)
(* other member; this module leaves out how the thread is woken.           *)
(***************************************************************************)
PreviousSendDone(i, m) == nReceived[i][i] >= m.index - 1

\* Wrong: a window that is one message too narrow.
NarrowWindowFinished(i, m) ==
    \A j \in Rank : delivered_num[i][j] >= SeqNum(i, m.index - WindowSize + 1)

WindowBackFinished(i, m) ==
    \A j \in Rank :
        /\ delivered_num[i][j] >= SeqNum(i, m.index - WindowSize)
        /\ Persistent => persisted_num[i][j] >= SeqNum(i, m.index - WindowSize)

should_send(i) ==
    /\ pending_sends[i] # <<>>
    /\ PreviousSendDone(i, Head(pending_sends[i]))
    /\ WindowBackFinished(i, Head(pending_sends[i]))

SenderStep(i) ==
    /\ ~ thread_shutdown(i)
    /\ should_send(i)
    /\ current_send' = [current_send EXCEPT ![i] = {Head(pending_sends[i])}]
    /\ inflight' = [inflight EXCEPT ![i] = [j \in Rank |->
           IF j = i THEN @[j] ELSE Append(@[j], Head(pending_sends[i]))]]
    /\ pending_sends' = [pending_sends EXCEPT ![i] = Tail(@)]
    /\ UNCHANGED <<sstVars, future_message_index, next_send, messageVars,
                   wedge_state, writes, sent, delivered>>

-----------------------------------------------------------------------------
(***************************************************************************)
(* RDMC asks member i where to put the next message of sender k            *)
(* (receive_destination).  RDMC delivers the messages of one group in      *)
(* order and one at a time.  The code asserts that a buffer is free.       *)
(***************************************************************************)
IncomingAt(i, k) ==
    /\ k # i
    /\ rdmc_groups_open(i)
    /\ inflight[k][i] # <<>>
    /\ \A e \in current_receives[i] : e.msg.sender_rank # k

RdmcIncoming(i, k) ==
    /\ IncomingAt(i, k)
    /\ free_message_buffers[i] > 0
    /\ LET index == nReceived[i][k] + 1
           m == [Head(inflight[k][i]) EXCEPT !.sender_rank = k, !.index = index]
       IN  current_receives' =
               [current_receives EXCEPT ![i] = @ \cup {File(SeqNum(k, index), m)}]
    /\ free_message_buffers' = [free_message_buffers EXCEPT ![i] = @ - 1]
    /\ inflight' = [inflight EXCEPT ![k][i] = Tail(@)]
    /\ UNCHANGED <<sstVars, sendVars, locally_stable_messages,
                   non_persistent_messages, wedge_state, writes, sent, delivered>>

(***************************************************************************)
(* What the receive handler does with message m of sender k, which is      *)
(* complete at member i: file it and the turns its sender skips, count     *)
(* them, and advance seq_num to the last message before the first gap in   *)
(* the round-robin order.  The gap is at the sender with the smallest      *)
(* count, the first such sender if there are several (std::min_element).   *)
(***************************************************************************)
\* Wrong: the last of several senders with the smallest count.
LastGapAfter(counts, last) ==
    \E s \in Rank :
        /\ \A t \in Rank : counts[s] <= counts[t]
        /\ \A t \in s + 1 .. N - 1 : counts[s] < counts[t]
        /\ last = SeqNum(s, counts[s] + 1) - 1

\* Wrong: counts the missing message as received.
FirstGapIncluded(counts, last) ==
    \E s \in Rank :
        /\ \A t \in Rank : counts[s] <= counts[t]
        /\ \A t \in 0 .. s - 1 : counts[s] < counts[t]
        /\ last = SeqNum(s, counts[s] + 1)

FirstGapAfter(counts, last) ==
    \E s \in Rank :
        /\ \A t \in Rank : counts[s] <= counts[t]
        /\ \A t \in 0 .. s - 1 : counts[s] < counts[t]
        /\ last = SeqNum(s, counts[s] + 1) - 1

SkippedTurns(k, first, turns) ==
    {File(SeqNum(k, idx), EmptyMessage(k, idx)) : idx \in first .. first + turns - 1}

\* Wrong: counts one turn too many.
CountOneMore(index, m) == index + m.pause + 1

CountAfter(index, m) == index + m.pause

Larger(a, b) == IF a >= b THEN a ELSE b

MessageReceived(i, k, m) ==
    LET index == nReceived[i][k] + 1
        counts == [nReceived[i] EXCEPT ![k] = CountAfter(index, m)]
    IN  /\ nReceived' = [nReceived EXCEPT ![i] = counts]
        /\ locally_stable_messages' = [locally_stable_messages EXCEPT ![i] =
               @ \cup {File(SeqNum(k, index), m)}
                 \cup SkippedTurns(k, index + 1, m.pause)]
        /\ \E last \in -1 .. SeqNum(N, MaxIndex + 1) :
               /\ FirstGapAfter(counts, last)
               /\ seq_num' = [seq_num EXCEPT ![i][i] = Larger(@, last)]

\* The receive handler for a message of another member.
RdmcReceive(i, k) ==
    /\ k # i
    /\ rdmc_groups_open(i)
    /\ \E e \in current_receives[i] :
           /\ e.seq = SeqNum(k, nReceived[i][k] + 1)
           /\ MessageReceived(i, k, e.msg)
           /\ current_receives' = [current_receives EXCEPT ![i] = @ \ {e}]
    /\ UNCHANGED <<stable_num, delivered_num, persisted_num, sendVars,
                   non_persistent_messages, free_message_buffers, wedge_state,
                   inflight, writes, sent, delivered>>

\* The receive handler for the member's own message, which RDMC calls when
\* the sender is done with it.
OwnReceive(i) ==
    /\ rdmc_groups_open(i)
    /\ \E m \in current_send[i] : MessageReceived(i, i, m)
    /\ current_send' = [current_send EXCEPT ![i] = {}]
    /\ UNCHANGED <<stable_num, delivered_num, persisted_num,
                   future_message_index, next_send, pending_sends,
                   current_receives, non_persistent_messages,
                   free_message_buffers, wedge_state, inflight, writes, sent,
                   delivered>>

-----------------------------------------------------------------------------
(***************************************************************************)
(* The stability predicate: stable_num follows the smallest seq_num.       *)
(***************************************************************************)
\* Wrong: looks at the local row only.
OwnSeqNum(i, s) == s = seq_num[i][i]

SmallestSeqNum(i, s) ==
    /\ \E j \in Rank : s = seq_num[i][j]
    /\ \A j \in Rank : s <= seq_num[i][j]

StabilityTrig(i) ==
    /\ predicates_registered(i)
    /\ \E j \in Rank :
           /\ SmallestSeqNum(i, seq_num[i][j])
           /\ seq_num[i][j] > stable_num[i][i]
           /\ stable_num' = [stable_num EXCEPT ![i][i] = seq_num[i][j]]
    /\ UNCHANGED <<nReceived, seq_num, delivered_num, persisted_num, sendVars,
                   messageVars, wedge_state, inflight, writes, sent, delivered>>

(***************************************************************************)
(* deliver_message: the upcall for a message with content, whose buffer    *)
(* is then free or, with persistence, handed to the FileWriter.            *)
(***************************************************************************)
UpcallOf(m) ==
    [sender_rank |-> m.sender_rank, index |-> m.index, body |-> m.body]

deliver_message(i, m) ==
    IF m.size = 0
    THEN UNCHANGED <<delivered, non_persistent_messages, writes,
                     free_message_buffers>>
    ELSE /\ delivered' = [delivered EXCEPT ![i] = Append(@, UpcallOf(m))]
         /\ IF Persistent
            THEN LET key == SeqNum(m.sender_rank, m.index)
                 IN  /\ non_persistent_messages' =
                            [non_persistent_messages EXCEPT ![i] = @ \cup {File(key, m)}]
                     /\ writes' = [writes EXCEPT ![i] = Append(@, key)]
                     /\ UNCHANGED free_message_buffers
            ELSE /\ free_message_buffers' = [free_message_buffers EXCEPT ![i] = @ + 1]
                 /\ UNCHANGED <<non_persistent_messages, writes>>

(***************************************************************************)
(* The delivery predicate: deliver the first undelivered message if it is  *)
(* stable in the eyes of every member.                                     *)
(***************************************************************************)
\* Wrong: any stable message.
IsAny(i, e) == e \in locally_stable_messages[i]

IsFirst(i, e) == \A f \in locally_stable_messages[i] : e.seq <= f.seq

\* Wrong: looks at the local row only.
StableHere(i, s) == s <= stable_num[i][i]

StableEverywhere(i, s) == \A j \in Rank : s <= stable_num[i][j]

DeliveryTrig(i) ==
    /\ predicates_registered(i)
    /\ \E e \in locally_stable_messages[i] :
           /\ IsFirst(i, e)
           /\ StableEverywhere(i, e.seq)
           /\ deliver_message(i, e.msg)
           /\ delivered_num' = [delivered_num EXCEPT ![i][i] = e.seq]
           /\ locally_stable_messages' =
                  [locally_stable_messages EXCEPT ![i] = @ \ {e}]
    /\ UNCHANGED <<nReceived, seq_num, stable_num, persisted_num, sendVars,
                   current_receives, wedge_state, inflight, sent>>

(***************************************************************************)
(* make_file_written_callback: the oldest write is on disk.  The message   *)
(* is looked up by its sequence number; the code asserts that it is there. *)
(***************************************************************************)
\* Wrong: any write.
IsAnyWrite(i, e) == \E n \in 1 .. Len(writes[i]) : e.seq = writes[i][n]

IsOldestWrite(i, e) == e.seq = Head(writes[i])

FileWritten(i) ==
    /\ writes[i] # <<>>
    /\ \E e \in non_persistent_messages[i] :
           /\ IsOldestWrite(i, e)
           /\ non_persistent_messages' =
                  [non_persistent_messages EXCEPT ![i] = @ \ {e}]
           /\ persisted_num' = [persisted_num EXCEPT ![i][i] = e.seq]
    /\ free_message_buffers' = [free_message_buffers EXCEPT ![i] = @ + 1]
    /\ writes' = [writes EXCEPT ![i] = Tail(@)]
    /\ UNCHANGED <<nReceived, seq_num, stable_num, delivered_num, sendVars,
                   current_receives, locally_stable_messages, wedge_state,
                   inflight, sent, delivered>>

-----------------------------------------------------------------------------
(***************************************************************************)
(* The SST: a column of row j, put by member j, arrives at member i.  The  *)
(* reader sees some value the column has had, never an older one again.    *)
(***************************************************************************)
Copied(x, i, j) == [x EXCEPT ![i][j] = x[j][j]]

SeqNumArrives(i, j) ==
    /\ seq_num[i][j] # seq_num[j][j]
    /\ seq_num' = Copied(seq_num, i, j)
    /\ UNCHANGED <<nReceived, stable_num, delivered_num, persisted_num, sendVars,
                   messageVars, wedge_state, inflight, writes, sent, delivered>>

StableNumArrives(i, j) ==
    /\ stable_num[i][j] # stable_num[j][j]
    /\ stable_num' = Copied(stable_num, i, j)
    /\ UNCHANGED <<nReceived, seq_num, delivered_num, persisted_num, sendVars,
                   messageVars, wedge_state, inflight, writes, sent, delivered>>

DeliveredNumArrives(i, j) ==
    /\ delivered_num[i][j] # delivered_num[j][j]
    /\ delivered_num' = Copied(delivered_num, i, j)
    /\ UNCHANGED <<nReceived, seq_num, stable_num, persisted_num, sendVars,
                   messageVars, wedge_state, inflight, writes, sent, delivered>>

PersistedNumArrives(i, j) ==
    /\ persisted_num[i][j] # persisted_num[j][j]
    /\ persisted_num' = Copied(persisted_num, i, j)
    /\ UNCHANGED <<nReceived, seq_num, stable_num, delivered_num, sendVars,
                   messageVars, wedge_state, inflight, writes, sent, delivered>>

-----------------------------------------------------------------------------
(***************************************************************************)
(* wedge: set thread_shutdown, then remove the predicates, then destroy    *)
(* the RDMC groups.  Triggers may still fire between the first two steps   *)
(* and messages may still arrive between the last two.                     *)
(***************************************************************************)
WedgeStep(i, from, to) ==
    /\ wedge_state[i] = from
    /\ wedge_state' = [wedge_state EXCEPT ![i] = to]
    /\ UNCHANGED <<sstVars, sendVars, messageVars, inflight, writes, sent, delivered>>

Wedge(i) ==
    /\ i \in MayWedge
    /\ \/ WedgeStep(i, "running", "shutdown")
       \/ WedgeStep(i, "shutdown", "unregistered")
       \/ WedgeStep(i, "unregistered", "destroyed")

Next ==
    \E i \in Rank :
        \/ \E turns \in 0 .. MaxPause : GetPosition(i, turns)
        \/ Send(i)
        \/ SenderStep(i)
        \/ \E k \in Rank : RdmcIncoming(i, k) \/ RdmcReceive(i, k)
        \/ OwnReceive(i)
        \/ StabilityTrig(i)
        \/ DeliveryTrig(i)
        \/ FileWritten(i)
        \/ \E j \in Rank :
               \/ SeqNumArrives(i, j) \/ StableNumArrives(i, j)
               \/ DeliveredNumArrives(i, j) \/ PersistedNumArrives(i, j)
        \/ Wedge(i)

Spec == Init /\ [][Next]_vars

(***************************************************************************)
(* Fairness.  The sender thread, the SST predicate thread, RDMC, the       *)
(* FileWriter and the network keep running.  Nobody has to send a message  *)
(* or to wedge the group, but a caller that got a buffer does call send.   *)
(***************************************************************************)
Fairness ==
    \A i \in Rank :
        /\ WF_vars(Send(i))
        /\ WF_vars(SenderStep(i))
        /\ WF_vars(OwnReceive(i))
        /\ WF_vars(StabilityTrig(i))
        /\ WF_vars(DeliveryTrig(i))
        /\ WF_vars(FileWritten(i))
        /\ \A j \in Rank \ {i} :
               /\ WF_vars(RdmcIncoming(i, j))
               /\ WF_vars(RdmcReceive(i, j))
               /\ WF_vars(SeqNumArrives(i, j))
               /\ WF_vars(StableNumArrives(i, j))
               /\ WF_vars(DeliveredNumArrives(i, j))
               /\ WF_vars(PersistedNumArrives(i, j))

FairSpec == Spec /\ Fairness

-----------------------------------------------------------------------------
(***************************************************************************)
(* Correctness.                                                            *)
(***************************************************************************)
Number == Nat \cup {-1}

\* Every variable keeps its type: no count, sequence number or buffer count
\* drops below its first value, and no index is given out beyond the bound.
TypeOK ==
    /\ nReceived \in [Rank -> [Rank -> Number]]
    /\ seq_num \in [Rank -> [Rank -> Number]]
    /\ stable_num \in [Rank -> [Rank -> Number]]
    /\ delivered_num \in [Rank -> [Rank -> Number]]
    /\ persisted_num \in [Rank -> [Rank -> Number]]
    /\ future_message_index \in [Rank -> 0 .. MaxIndex + 1]
    /\ next_send \in [Rank -> SUBSET Message]
    /\ pending_sends \in [Rank -> Seq(Message)]
    /\ current_send \in [Rank -> SUBSET Message]
    /\ current_receives \in [Rank -> SUBSET Entry]
    /\ locally_stable_messages \in [Rank -> SUBSET Entry]
    /\ non_persistent_messages \in [Rank -> SUBSET Entry]
    /\ free_message_buffers \in [Rank -> Nat]
    /\ wedge_state \in [Rank -> WedgeState]
    /\ inflight \in [Rank -> [Rank -> Seq(Message)]]
    /\ writes \in [Rank -> Seq(Nat)]
    /\ sent \in [Rank -> Seq(Nat)]
    /\ delivered \in [Rank -> Seq(Upcall)]

\* derecho_row.h:24: a member whose row says seq_num has received every
\* message up to it in the round-robin order, skipped turns included.
SeqNumCorrect ==
    \A i, k \in Rank : \A idx \in Index :
        SeqNum(k, idx) <= seq_num[i][i] => idx <= nReceived[i][k]

\* derecho_row.h:28: a member whose row says stable_num is right to believe
\* that every member has received every message up to it.
StableNumCorrect ==
    \A i, j \in Rank : stable_num[i][i] <= seq_num[j][j]

\* A message is handed to the application of some member only when every
\* member has received it: no single failure can lose it for the others.
DeliveredIsReceived ==
    \A i, j \in Rank : \A n \in 1 .. Len(delivered[i]) :
        delivered[i][n].index <= nReceived[j][delivered[i][n].sender_rank]

\* Nothing is delivered until every member has announced that it is stable:
\* whoever leads the next view change can see that it must be kept.
DeliveredIsKnownStable ==
    \A i, j \in Rank : delivered_num[i][i] <= stable_num[j][j]

\* Receivers number the messages of a sender by counting them; the number a
\* receiver files a message under is the one its sender gave it, whatever
\* turns were skipped, and so is the number passed to the application.
NumberingAgrees ==
    \A i \in Rank :
        /\ \A e \in current_receives[i] \cup locally_stable_messages[i]
                    \cup non_persistent_messages[i] :
               /\ e.msg.index = e.msg.body
               /\ e.seq = SeqNum(e.msg.sender_rank, e.msg.body)
        /\ \A n \in 1 .. Len(delivered[i]) : delivered[i][n].index = delivered[i][n].body

\* receive_destination never finds free_message_buffers empty (the assert at
\* derecho_group_impl.h:374): WindowSize * N buffers are enough for what all
\* windows together allow to be under way.
BufferAvailable ==
    \A i, k \in Rank : IncomingAt(i, k) => free_message_buffers[i] > 0

\* Every one of the WindowSize * N buffers is free or in exactly one place.
BuffersConserved ==
    \A i \in Rank :
        WindowSize * N =
            free_message_buffers[i] + Cardinality(next_send[i])
            + Len(pending_sends[i]) + Cardinality(current_send[i])
            + Cardinality(current_receives[i])
            + Cardinality({e \in locally_stable_messages[i] : e.msg.size > 0})
            + Cardinality(non_persistent_messages[i])

\* derecho_row.h:37: persisted_num is the number of the last delivered message
\* that is on disk, and all before it are too: the messages that a member has
\* delivered are on disk up to that one, and the rest, in this order, wait.
PersistedPrefix ==
    LET number(u) == SeqNum(u.sender_rank, u.index)
    IN  \A i \in Rank : Persistent =>
            \E n \in 0 .. Len(delivered[i]) :
                /\ persisted_num[i][i] = IF n = 0 THEN -1 ELSE number(delivered[i][n])
                /\ {e.seq : e \in non_persistent_messages[i]} =
                       {number(delivered[i][m]) : m \in n + 1 .. Len(delivered[i])}

\* The columns a member reads without a lock never go back, in its own row
\* or in a copy: what get_position or a trigger has tested stays true.
ColumnsNeverRegress ==
    [][\A i, j \in Rank :
           /\ seq_num'[i][j] >= seq_num[i][j]
           /\ stable_num'[i][j] >= stable_num[i][j]
           /\ delivered_num'[i][j] >= delivered_num[i][j]
           /\ persisted_num'[i][j] >= persisted_num[i][j]]_vars

\* What the application has been given, as AtomicMulticast describes it.
UpcallSeen(u) == [sender |-> u.sender_rank, body |-> u.body]

upcallsSeen == [i \in Rank |-> [n \in 1 .. Len(delivered[i]) |-> UpcallSeen(delivered[i][n])]]

\* The application of every member sees the same sequence of messages, each
\* sender's in order and without gaps.
Group == INSTANCE AtomicMulticast WITH
    Member <- Rank, Body <- Index, upcalls <- upcallsSeen

ImplementsAtomicMulticast == Group!Spec

\* Whenever every sender has queued (or skipped) its turns up to round idx,
\* every member delivers up to that round, unless the group is wedged or, with
\* persistence, a sender waits for ever until a member counts a skipped turn
\* among what is on its disk (derecho_group_impl.h:648): that turn is never
\* written, and nothing is left to write after it.
TurnTaken(k, idx) ==
    /\ future_message_index[k] > idx
    /\ \A m \in next_send[k] : m.index > idx

WaitsForSkippedTurn(k) ==
    /\ Persistent
    /\ pending_sends[k] # <<>>
    /\ LET turn == SeqNum(k, Head(pending_sends[k]).index - WindowSize)
       IN  \E i \in Rank :
               /\ persisted_num[i][i] < turn
               /\ turn <= delivered_num[i][i]
               /\ non_persistent_messages[i] = {}

RoundsAreDelivered ==
    \A idx \in Index :
        (\A k \in Rank : TurnTaken(k, idx)) ~>
            \/ \A i \in Rank : delivered_num[i][i] >= SeqNum(N - 1, idx)
            \/ \E i \in Rank : thread_shutdown(i)
            \/ [](\E k \in Rank : WaitsForSkippedTurn(k))

=============================================================================
