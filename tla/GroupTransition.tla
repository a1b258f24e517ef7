---------------------------- MODULE GroupTransition ----------------------------
(***************************************************************************)
(* What becomes of one member's messages when the view changes: the        *)
(* constructor of DerechoGroup that takes over the state of the previous   *)
(* group (derecho_group_impl.h), ManagedGroup::send, which waits for it,   *)
(* and the callback of a FileWriter that outlives the group.               *)
(*                                                                         *)
(* This is the view of a single member, Me.  The handlers are those of     *)
(* DerechoGroup, one step each; the other members only send.  A column of  *)
(* which the code takes the minimum over all rows is the member's own      *)
(* here: the rows of the others may be ahead of it, and if they are behind *)
(* the member only acts later.  The end of the view, from wedge to the     *)
(* ragged-edge cleanup, is one step; RaggedEdge has its parts.             *)
(*                                                                         *)
(* A FileWriter remembers the index and the sender's id of a message, not  *)
(* its sequence number.  The callback computes that from the view it runs  *)
(* in, whereas the second constructor keeps the keys of the old view.      *)
(***************************************************************************)
EXTENDS Integers, Sequences, FiniteSets, SequencesExt

CONSTANTS
    Me,           \* this member's id
    Plans,        \* the sequences of views (sequences of ids) to look at
    WindowSize,   \* window_size
    MaxMessages,  \* bound on the messages of this member
    MaxOther,     \* bound on the index of a message of another member
    MaxPause      \* bound on the argument pause_sending_turns

Id == UNION {UNION {Range(plan[v]) : v \in DOMAIN plan} : plan \in Plans}

\* Every view has this member, and nobody twice.
ASSUME TransitionAssumption ==
    /\ WindowSize \in Nat \ {0}
    /\ MaxMessages \in Nat /\ MaxOther \in Nat /\ MaxPause \in Nat
    /\ Plans \subseteq Seq(Seq(Id)) \ {<<>>}
    /\ \A plan \in Plans : \A v \in DOMAIN plan :
           Me \in Range(plan[v]) /\ IsInjective(plan[v])

VARIABLES
    views,                    \* the views to come, the current one first
    file_writer,              \* whether the group was given a file name
    thread_shutdown,          \* the view is over
    rdmc_groups,              \* how many RDMC groups of the view were created
    \* Members of class DerechoGroup.  An optional is a set, a map a set of entries.
    future_message_index,
    next_send,
    pending_sends,
    current_send,
    current_receives,
    locally_stable_messages,
    non_persistent_messages,
    free_message_buffers,     \* how many there are
    total_message_buffers,
    \* The member's row.
    nReceived,                \* by rank
    delivered_num,
    persisted_num,
    writes,                   \* messages handed to the FileWriter
    aborted,                  \* the assertion that has failed
    \* History.
    sent,                     \* the payloads given to send(), in order
    delivered,                \* those of them that were delivered
    carried_over              \* unpersisted messages have crossed a view change

viewVars == <<views, file_writer, thread_shutdown, rdmc_groups>>
sendVars == <<future_message_index, next_send, pending_sends, current_send>>
messageVars == <<current_receives, locally_stable_messages,
                 non_persistent_messages, free_message_buffers,
                 total_message_buffers>>
rowVars == <<nReceived, delivered_num, persisted_num>>
historyVars == <<sent, delivered, carried_over>>
vars == <<viewVars, sendVars, messageVars, rowVars, writes, aborted, historyVars>>

members == Head(views)
num_members == Len(members)
Rank == 0 .. num_members - 1

\* index_of and the loop of the callback: num_members if there is no such member.
RankIn(view, id) ==
    CHOOSE r \in 0 .. Len(view) :
        /\ r < Len(view) => view[r + 1] = id
        /\ \A s \in 0 .. r - 1 : view[s + 1] # id

member_index == RankIn(members, Me)

SeqNum(rank, index) == index * num_members + rank

File(key, m) == [seq |-> key, msg |-> m]

Buffers(n) == WindowSize * n

\* The entries of a map in the order of their keys, as an iterator visits them.
Sorted(entries) ==
    [n \in 1 .. Cardinality(entries) |->
        CHOOSE e \in entries : Cardinality({f \in entries : f.seq < e.seq}) = n - 1]

Messages(entries) ==
    LET sorted == Sorted(entries)
    IN  [n \in DOMAIN sorted |-> sorted[n].msg]

Bodies(msgs) == [n \in DOMAIN msgs |-> msgs[n].body]

(***************************************************************************)
(* A constructor creates no groups if a member of the view has failed      *)
(* already, and stops at the first one that RDMC refuses.  Then the group  *)
(* sends nothing as long as the view lasts.                                *)
(***************************************************************************)
rdmc_groups_created == rdmc_groups = num_members

-----------------------------------------------------------------------------
Init ==
    /\ views \in Plans
    /\ file_writer \in BOOLEAN
    /\ thread_shutdown = FALSE
    /\ rdmc_groups \in 0 .. num_members
    /\ future_message_index = 0
    /\ next_send = {} /\ pending_sends = <<>> /\ current_send = {}
    /\ current_receives = {}
    /\ locally_stable_messages = {} /\ non_persistent_messages = {}
    /\ free_message_buffers = Buffers(num_members)
    /\ total_message_buffers = Buffers(num_members)
    /\ nReceived = [r \in Rank |-> -1]
    /\ delivered_num = -1 /\ persisted_num = -1
    /\ writes = <<>>
    /\ aborted = "no"
    /\ sent = <<>> /\ delivered = <<>> /\ carried_over = FALSE

Running == ~ thread_shutdown /\ aborted = "no"

(***************************************************************************)
(* get_position; ManagedGroup::send, which calls send() again and again    *)
(* until the view change is over.                                          *)
(***************************************************************************)
GetPosition(turns) ==
    /\ Running /\ rdmc_groups_created
    /\ next_send = {}
    /\ Len(sent) < MaxMessages      \* bound
    /\ delivered_num >= SeqNum(member_index, future_message_index - WindowSize)
    /\ free_message_buffers > 0
    /\ free_message_buffers' = free_message_buffers - 1
    /\ next_send' = {[sender_rank |-> member_index, index |-> future_message_index,
                      size |-> 1, pause |-> turns, body |-> Len(sent)]}
    /\ future_message_index' = future_message_index + turns + 1
    /\ UNCHANGED <<viewVars, pending_sends, current_send, current_receives,
                   locally_stable_messages, non_persistent_messages,
                   total_message_buffers, rowVars, writes, aborted, historyVars>>

Send ==
    /\ Running /\ rdmc_groups_created
    /\ \E m \in next_send :
           /\ pending_sends' = Append(pending_sends, m)
           /\ sent' = Append(sent, m.body)
    /\ next_send' = {}
    /\ UNCHANGED <<viewVars, future_message_index, current_send, messageVars,
                   rowVars, writes, aborted, delivered, carried_over>>

(***************************************************************************)
(* The sender thread, and the receive handlers of RDMC.                    *)
(***************************************************************************)
should_send(m) ==
    /\ rdmc_groups_created
    /\ nReceived[member_index] >= m.index - 1
    /\ delivered_num >= SeqNum(member_index, m.index - WindowSize)
    /\ file_writer => persisted_num >= SeqNum(member_index, m.index - WindowSize)

SenderStep ==
    /\ Running
    /\ pending_sends # <<>>
    /\ should_send(Head(pending_sends))
    /\ current_send' = {Head(pending_sends)}
    /\ pending_sends' = Tail(pending_sends)
    /\ UNCHANGED <<viewVars, future_message_index, next_send, messageVars, rowVars,
                   writes, aborted, historyVars>>

\* The message and an empty one for each turn that its sender skips.
Received(rank, m) ==
    LET index(turn) == nReceived[rank] + 1 + turn
    IN  /\ locally_stable_messages' = locally_stable_messages \cup
               {File(SeqNum(rank, index(0)), m)} \cup
               {File(SeqNum(rank, index(turn)),
                     [sender_rank |-> rank, index |-> index(turn), size |-> 0,
                      pause |-> 0, body |-> -1]) : turn \in 1 .. m.pause}
        /\ nReceived' = [nReceived EXCEPT ![rank] = @ + 1 + m.pause]

OwnReceive ==
    /\ Running
    /\ \E m \in current_send : Received(member_index, m)
    /\ current_send' = {}
    /\ UNCHANGED <<viewVars, future_message_index, next_send, pending_sends,
                   current_receives, non_persistent_messages,
                   free_message_buffers, total_message_buffers, delivered_num,
                   persisted_num, writes, aborted, historyVars>>

\* receive_destination: a buffer for the next message of another member, whose
\* window allows it.
IncomingFrom(rank) ==
    /\ Running
    /\ rank # member_index /\ rank < rdmc_groups
    /\ nReceived[rank] < MaxOther      \* bound
    /\ \A m \in current_receives : m.sender_rank # rank
    /\ delivered_num >= SeqNum(rank, nReceived[rank] + 1 - WindowSize)

RdmcIncoming(rank) ==
    /\ IncomingFrom(rank)
    /\ free_message_buffers > 0
    /\ free_message_buffers' = free_message_buffers - 1
    /\ current_receives' = current_receives \cup
           {[sender_rank |-> rank, index |-> nReceived[rank] + 1, size |-> 1,
             pause |-> 0, body |-> -1]}
    /\ UNCHANGED <<viewVars, sendVars, locally_stable_messages,
                   non_persistent_messages, total_message_buffers, rowVars,
                   writes, aborted, historyVars>>

\* assert(!free_message_buffers.empty())
IncomingAborts(rank) ==
    /\ IncomingFrom(rank)
    /\ free_message_buffers = 0
    /\ aborted' = "buffer"
    /\ UNCHANGED <<viewVars, sendVars, messageVars, rowVars, writes, historyVars>>

RdmcReceive(rank) ==
    /\ Running
    /\ \E m \in current_receives :
           /\ m.sender_rank = rank
           /\ Received(rank, m)
           /\ current_receives' = current_receives \ {m}
    /\ UNCHANGED <<viewVars, sendVars, non_persistent_messages,
                   free_message_buffers, total_message_buffers, delivered_num,
                   persisted_num, writes, aborted, historyVars>>

(***************************************************************************)
(* Delivery.  The map refuses a message whose key is taken: its buffer is  *)
(* destroyed.  The FileWriter gets a copy of index and sender.             *)
(***************************************************************************)
WriteOf(e) == [index |-> e.msg.index, sender |-> members[e.msg.sender_rank + 1],
               view |-> members]

deliver(due) ==
    LET batch == Sorted({e \in due : e.msg.size > 0})
        own == {e \in due : e.msg.size > 0 /\ e.msg.sender_rank = member_index}
        taken == {e.seq : e \in non_persistent_messages}
    IN  /\ delivered' = delivered \o Bodies(Messages(own))
        /\ locally_stable_messages' = locally_stable_messages \ due
        /\ IF file_writer
           THEN /\ non_persistent_messages' = non_persistent_messages
                       \cup {e \in Range(batch) : e.seq \notin taken}
                /\ writes' = writes \o [n \in DOMAIN batch |-> WriteOf(batch[n])]
                /\ UNCHANGED free_message_buffers
           ELSE /\ free_message_buffers' = free_message_buffers + Len(batch)
                /\ UNCHANGED <<non_persistent_messages, writes>>

\* The first message, when all before it have been received; stable at any
\* time after that.
Deliver ==
    /\ Running
    /\ \E e \in locally_stable_messages :
           /\ \A f \in locally_stable_messages : e.seq <= f.seq
           /\ \A r \in Rank : e.seq < SeqNum(r, nReceived[r] + 1)
           /\ deliver({e})
           /\ delivered_num' = e.seq
    /\ UNCHANGED <<viewVars, sendVars, current_receives, total_message_buffers,
                   nReceived, persisted_num, aborted, sent, carried_over>>

(***************************************************************************)
(* make_file_written_callback.  A callback that was queued before the view *)
(* changed belongs to a group that is gone.                                *)
(***************************************************************************)
\* Wrong: the key its own message of that index would have.
OwnKey(w) == SeqNum(member_index, w.index)

KeyOf(w) == SeqNum(RankIn(members, w.sender), w.index)

Written(w) == {e \in non_persistent_messages : e.seq = KeyOf(w)}

FileWritten ==
    /\ aborted = "no"
    /\ writes # <<>>
    /\ \E e \in Written(Head(writes)) :
           non_persistent_messages' = non_persistent_messages \ {e}
    /\ free_message_buffers' = free_message_buffers + 1
    /\ persisted_num' = KeyOf(Head(writes))
    /\ writes' = Tail(writes)
    /\ UNCHANGED <<viewVars, sendVars, current_receives, locally_stable_messages,
                   total_message_buffers, nReceived, delivered_num, aborted,
                   historyVars>>

\* The assertion on find_result, or a use of the old group.
CallbackAborts ==
    /\ aborted = "no"
    /\ writes # <<>>
    /\ Written(Head(writes)) = {} \/ Head(writes).view # members
    /\ aborted' = "callback"
    /\ UNCHANGED <<viewVars, sendVars, messageVars, rowVars, writes, historyVars>>

-----------------------------------------------------------------------------
(***************************************************************************)
(* The view ends: wedge, then deliver_messages_upto with counts that every *)
(* member has reached.                                                     *)
(***************************************************************************)
EndOfView ==
    /\ Running
    /\ Len(views) > 1
    /\ thread_shutdown' = TRUE
    /\ \E accepted \in [Rank -> -1 .. MaxOther + MaxMessages * (MaxPause + 1)] :
           /\ \A r \in Rank : accepted[r] <= nReceived[r]
           /\ LET max == Max({delivered_num} \cup {SeqNum(r, accepted[r]) : r \in Rank})
              IN  deliver({e \in locally_stable_messages : e.seq <= max})
    /\ UNCHANGED <<views, file_writer, rdmc_groups, sendVars, current_receives,
                   total_message_buffers, rowVars, aborted, sent, carried_over>>

(***************************************************************************)
(* The second constructor.  convert_msg gives a message the next index of  *)
(* the new group, and this member as its sender.                           *)
(***************************************************************************)
\* The turns that the first n messages take.
Turns(msgs, n) ==
    LET turns[k \in 0 .. n] == IF k = 0 THEN 0 ELSE turns[k - 1] + 1 + msgs[k].pause
    IN  turns[n]

\* Wrong: keeps the index a message had in the old group.
KeepIndices(msgs, rank) == [n \in DOMAIN msgs |-> [msgs[n] EXCEPT !.sender_rank = rank]]

convert_msgs(msgs, rank) ==
    [n \in DOMAIN msgs |->
        [msgs[n] EXCEPT !.sender_rank = rank, !.index = Turns(msgs, n - 1)]]

OwnStable ==
    {e \in locally_stable_messages : e.msg.size > 0 /\ e.msg.sender_rank = member_index}

OthersStable ==
    {e \in locally_stable_messages : e.msg.size > 0 /\ e.msg.sender_rank # member_index}

\* Wrong: what is being sent goes to the end of the queue.
CurrentLast ==
    Messages(OwnStable) \o pending_sends \o SetToSeq(current_send)

Resent == Messages(OwnStable) \o SetToSeq(current_send) \o pending_sends

\* Wrong: forgets the buffers of incomplete messages.
StableOfOthers == Cardinality(OthersStable)

Reclaimed == Cardinality(current_receives) + Cardinality(OthersStable)

NextView ==
    /\ thread_shutdown /\ aborted = "no"
    /\ views' = Tail(views)
    /\ LET n == Len(views[2])
           rank == RankIn(views[2], Me)
           kept == Sorted(non_persistent_messages)
           queue == Resent
           all == convert_msgs(queue \o SetToSeq(next_send)
                                    \o Messages(non_persistent_messages), rank)
           grown == Max({total_message_buffers, Buffers(n)})
           last == Len(queue) + Cardinality(next_send)
       IN  /\ future_message_index' = Turns(all, Len(all))
           /\ pending_sends' = SubSeq(all, 1, Len(queue))
           /\ next_send' = {all[m] : m \in Len(queue) + 1 .. last}
           /\ non_persistent_messages' =
                  {File(kept[m].seq, all[last + m]) : m \in DOMAIN kept}
           /\ total_message_buffers' = grown
           /\ free_message_buffers' =
                  free_message_buffers + (grown - total_message_buffers) + Reclaimed
           /\ nReceived' = [r \in 0 .. n - 1 |-> -1]
           /\ rdmc_groups' \in 0 .. n
    /\ delivered_num' = -1 /\ persisted_num' = -1
    /\ current_send' = {} /\ current_receives' = {} /\ locally_stable_messages' = {}
    /\ thread_shutdown' = FALSE
    /\ carried_over' = (carried_over \/ non_persistent_messages # {})
    /\ UNCHANGED <<file_writer, writes, aborted, sent, delivered>>

Next ==
    \/ \E turns \in 0 .. MaxPause : GetPosition(turns)
    \/ Send \/ SenderStep \/ OwnReceive
    \/ \E rank \in Rank :
           RdmcIncoming(rank) \/ IncomingAborts(rank) \/ RdmcReceive(rank)
    \/ Deliver
    \/ FileWritten \/ CallbackAborts
    \/ EndOfView \/ NextView

Spec == Init /\ [][Next]_vars

\* The threads run, a view change ends, and a caller that has a buffer calls
\* send.  The other members need not send, and no view need end.
Fairness ==
    /\ WF_vars(Send) /\ WF_vars(SenderStep) /\ WF_vars(OwnReceive)
    /\ WF_vars(NextView)

FairSpec == Spec /\ Fairness

-----------------------------------------------------------------------------
Message == [sender_rank : Nat, index : Nat, size : {0, 1}, pause : 0 .. MaxPause,
            body : -1 .. MaxMessages - 1]

Entry == [seq : Nat, msg : Message]

Write == [index : Nat, sender : Id, view : Seq(Id)]

\* Every variable keeps its type.
TypeOK ==
    /\ views \in Seq(Seq(Id)) \ {<<>>}
    /\ file_writer \in BOOLEAN /\ thread_shutdown \in BOOLEAN
    /\ rdmc_groups \in 0 .. num_members
    /\ future_message_index \in Nat
    /\ next_send \subseteq Message /\ current_send \subseteq Message
    /\ pending_sends \in Seq(Message)
    /\ current_receives \subseteq Message
    /\ locally_stable_messages \subseteq Entry
    /\ non_persistent_messages \subseteq Entry
    /\ free_message_buffers \in Nat /\ total_message_buffers \in Nat
    /\ nReceived \in [Rank -> Nat \cup {-1}]
    /\ delivered_num \in Nat \cup {-1} /\ persisted_num \in Nat \cup {-1}
    /\ writes \in Seq(Write)
    /\ aborted \in {"no", "callback", "buffer"} /\ carried_over \in BOOLEAN
    /\ sent \in Seq(Nat) /\ delivered \in Seq(Nat)

\* "Assume that any locally stable messages failed. If we were the sender than
\* re-attempt": across the views, what was given to send() is delivered or on
\* its way exactly once, and in the order in which it was given.
NothingLostOrRepeated ==
    LET on_its_way == Messages(OwnStable) \o SetToSeq(current_send) \o pending_sends
    IN  sent = delivered \o Bodies(on_its_way)

\* The receivers count messages from 0 in every view: the messages on their way
\* and the next buffer have the indices they will be counted under.  Unless
\* messages were carried over to the new view before they were on disk.
NumberingContinues ==
    LET queue == SetToSeq(current_send) \o pending_sends \o SetToSeq(next_send)
        base == nReceived[member_index] + 1
    IN  ~ carried_over /\ ~ thread_shutdown =>
            /\ \A n \in DOMAIN queue : queue[n].index = base + Turns(queue, n - 1)
            /\ future_message_index = base + Turns(queue, Len(queue))

\* No buffer gets lost when the groups change, and a group that has grown gets
\* new ones for its window.
BuffersConserved ==
    ~ carried_over =>
        /\ total_message_buffers >= Buffers(num_members)
        /\ total_message_buffers =
               free_message_buffers + Cardinality(next_send) + Len(pending_sends)
               + Cardinality(current_send) + Cardinality(current_receives)
               + Cardinality({e \in locally_stable_messages : e.msg.size > 0})
               + Cardinality(non_persistent_messages)

\* The assertion at derecho_group_impl.h:261: the callback finds the message
\* that was written, unless messages were carried over to a later view before
\* they were.  The assertion at derecho_group_impl.h:374: the buffers a group
\* takes over are enough for all windows, what it resends included, unless the
\* disk holds some.
AssertionsHold ==
    /\ aborted = "callback" => carried_over
    /\ aborted = "buffer" => file_writer

\* managed_group.h:234, across view changes: a caller that has a buffer gets to
\* send it, and what was given to send() is handed to RDMC, in this view or in
\* the next.  Unless the disk is in the way, or the member comes to a view whose
\* groups could not be created, which refuses to send until it ends.
QueuedIsSent ==
    pending_sends # <<>> \/ next_send # {} ~>
        \/ pending_sends = <<>> /\ next_send = {}
        \/ file_writer
        \/ ~ rdmc_groups_created

=============================================================================
