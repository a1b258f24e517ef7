------------------------ MODULE DerechoGroupSafetyProofs ------------------------
(***************************************************************************)
(* Theorems about the types of DerechoGroup, about what the columns of the *)
(* SST promise (a message that is delivered anywhere has been received     *)
(* everywhere) and about order: receivers, who only count, number the      *)
(* messages as the sender did; no column goes back; persisted_num says     *)
(* what is on disk.  They hold for any number of members, any window, any  *)
(* bounds, with or without persistence.                                    *)
(***************************************************************************)
EXTENDS DerechoGroup, TLAPS

USE NAssumption, WindowAssumption, PersistentAssumption, BoundsAssumption

(***************************************************************************)
(* Type correctness.                                                       *)
(***************************************************************************)
\* A sequence number of a member's message is a natural number.
LEMMA SeqNumType ==
    ASSUME NEW k \in Rank, NEW idx \in Nat
    PROVE  SeqNum(k, idx) \in Nat
BY DEF SeqNum, Rank

\* Filing a received message and the skipped turns after it (the receive
\* handler) keeps the types of the columns and the map it changes.
LEMMA MessageReceivedType ==
    ASSUME TypeOK, NEW i \in Rank, NEW k \in Rank, NEW m \in Message,
           MessageReceived(i, k, m)
    PROVE  /\ nReceived' \in [Rank -> [Rank -> Number]]
           /\ seq_num' \in [Rank -> [Rank -> Number]]
           /\ locally_stable_messages' \in [Rank -> SUBSET Entry]
<1> DEFINE index == nReceived[i][k] + 1
<1>1. index \in Nat /\ m.pause \in Nat
  <2>1. nReceived[i][k] \in Number
    BY DEF TypeOK
  <2>2. m.pause \in 0 .. MaxPause
    BY DEF Message
  <2> QED
    BY <2>1, <2>2 DEF Number, BoundsAssumption
<1>2. nReceived' \in [Rank -> [Rank -> Number]]
  <2> DEFINE counts == [nReceived[i] EXCEPT ![k] = CountAfter(index, m)]
  <2>1. CountAfter(index, m) \in Number
    BY <1>1 DEF CountAfter, Number
  <2>2. counts \in [Rank -> Number]
    BY <2>1 DEF TypeOK
  <2>3. nReceived' = [nReceived EXCEPT ![i] = counts]
    BY DEF MessageReceived
  <2> QED
    BY <2>2, <2>3 DEF TypeOK
<1>3. seq_num' \in [Rank -> [Rank -> Number]]
  <2>1. PICK last \in -1 .. SeqNum(N, MaxIndex + 1) :
            seq_num' = [seq_num EXCEPT ![i][i] = Larger(@, last)]
    BY DEF MessageReceived
  <2>2. last \in Number
    BY <2>1 DEF Number, SeqNum
  <2>3. Larger(seq_num[i][i], last) \in Number
    BY <2>2 DEF Larger, TypeOK
  <2> QED
    BY <2>1, <2>3 DEF TypeOK
<1>4. File(SeqNum(k, index), m) \in Entry
    BY <1>1, SeqNumType DEF File, Entry
<1>5. SkippedTurns(k, index + 1, m.pause) \subseteq Entry
  <2> SUFFICES ASSUME NEW idx \in index + 1 .. index + 1 + m.pause - 1
               PROVE  File(SeqNum(k, idx), EmptyMessage(k, idx)) \in Entry
    BY DEF SkippedTurns
  <2>1. idx \in Nat
    BY <1>1
  <2>2. EmptyMessage(k, idx) \in Message
    BY <2>1 DEF EmptyMessage, Message
  <2> QED
    BY <2>1, <2>2, SeqNumType DEF File, Entry
<1>6. locally_stable_messages' \in [Rank -> SUBSET Entry]
  <2>1. locally_stable_messages' = [locally_stable_messages EXCEPT ![i] =
            @ \cup {File(SeqNum(k, index), m)} \cup SkippedTurns(k, index + 1, m.pause)]
    BY DEF MessageReceived
  <2>2. locally_stable_messages[i] \cup {File(SeqNum(k, index), m)}
            \cup SkippedTurns(k, index + 1, m.pause) \in SUBSET Entry
    BY <1>4, <1>5 DEF TypeOK
  <2> QED
    BY <2>1, <2>2 DEF TypeOK
<1> QED
    BY <1>2, <1>3, <1>6

\* The column of one row in one copy of the table is replaced.
LEMMA CopiedType ==
    ASSUME NEW x \in [Rank -> [Rank -> Number]], NEW i \in Rank, NEW j \in Rank
    PROVE  Copied(x, i, j) \in [Rank -> [Rank -> Number]]
BY DEF Copied

\* Every step keeps the types.
LEMMA TypeStep == TypeOK /\ [Next]_vars => TypeOK'
<1> SUFFICES ASSUME TypeOK, [Next]_vars
             PROVE  TypeOK'
    OBVIOUS
<1>1. ASSUME NEW i \in Rank, NEW turns \in 0 .. MaxPause, GetPosition(i, turns)
      PROVE  TypeOK'
  <2>1. [sender_rank |-> i, index |-> future_message_index[i], size |-> 1,
         pause |-> turns, body |-> future_message_index[i]] \in Message
    BY <1>1 DEF TypeOK, Message
  <2>2. next_send' \in [Rank -> SUBSET Message]
    BY <1>1, <2>1 DEF TypeOK, GetPosition
  <2>3. future_message_index' \in [Rank -> 0 .. MaxIndex + 1]
    <3>1. /\ future_message_index[i] \in 0 .. MaxIndex + 1
          /\ future_message_index[i] + turns <= MaxIndex
          /\ future_message_index' = [future_message_index EXCEPT ![i] = @ + turns + 1]
      BY <1>1 DEF TypeOK, GetPosition, NextTurn
    <3>2. future_message_index[i] + turns + 1 \in 0 .. MaxIndex + 1
      BY <3>1, BoundsAssumption
    <3> QED
      BY <3>1, <3>2 DEF TypeOK
  <2>4. free_message_buffers' \in [Rank -> Nat]
    BY <1>1 DEF TypeOK, GetPosition
  <2> QED
    BY <1>1, <2>2, <2>3, <2>4 DEF TypeOK, GetPosition, sstVars
<1>2. ASSUME NEW i \in Rank, Send(i)
      PROVE  TypeOK'
  <2>1. PICK m \in next_send[i] :
            /\ pending_sends' = [pending_sends EXCEPT ![i] = Append(@, m)]
            /\ sent' = [sent EXCEPT ![i] = Append(@, m.body)]
    BY <1>2 DEF Send
  <2>2. m \in Message /\ m.body \in Nat
    BY <2>1 DEF TypeOK, Message
  <2>3. pending_sends' \in [Rank -> Seq(Message)] /\ sent' \in [Rank -> Seq(Nat)]
    BY <2>1, <2>2 DEF TypeOK
  <2>4. next_send' \in [Rank -> SUBSET Message]
    BY <1>2 DEF TypeOK, Send
  <2> QED
    BY <1>2, <2>3, <2>4 DEF TypeOK, Send, sstVars, messageVars
<1>3. ASSUME NEW i \in Rank, SenderStep(i)
      PROVE  TypeOK'
  <2>1. pending_sends[i] # <<>> /\ pending_sends[i] \in Seq(Message)
    BY <1>3 DEF SenderStep, should_send, TypeOK
  <2>2. Head(pending_sends[i]) \in Message /\ Tail(pending_sends[i]) \in Seq(Message)
    BY <2>1
  <2>3. current_send' \in [Rank -> SUBSET Message]
    BY <1>3, <2>2 DEF TypeOK, SenderStep
  <2>4. inflight' \in [Rank -> [Rank -> Seq(Message)]]
    BY <1>3, <2>2 DEF TypeOK, SenderStep
  <2>5. pending_sends' \in [Rank -> Seq(Message)]
    BY <1>3, <2>2 DEF TypeOK, SenderStep
  <2> QED
    BY <1>3, <2>3, <2>4, <2>5 DEF TypeOK, SenderStep, sstVars, messageVars
<1>4. ASSUME NEW i \in Rank, NEW k \in Rank, RdmcIncoming(i, k)
      PROVE  TypeOK'
  <2> DEFINE index == nReceived[i][k] + 1
             m == [Head(inflight[k][i]) EXCEPT !.sender_rank = k, !.index = index]
  <2>1. inflight[k][i] # <<>> /\ inflight[k][i] \in Seq(Message)
    BY <1>4 DEF RdmcIncoming, IncomingAt, TypeOK
  <2>2. Head(inflight[k][i]) \in Message /\ Tail(inflight[k][i]) \in Seq(Message)
    BY <2>1
  <2>3. index \in Nat
    <3>1. nReceived[i][k] \in Number
      BY DEF TypeOK
    <3> QED
      BY <3>1 DEF Number
  <2>4. m \in Message
    BY <2>2, <2>3 DEF Message
  <2>5. File(SeqNum(k, index), m) \in Entry
    BY <2>3, <2>4, SeqNumType DEF File, Entry
  <2>6. current_receives' \in [Rank -> SUBSET Entry]
    BY <1>4, <2>5 DEF TypeOK, RdmcIncoming
  <2>7. free_message_buffers' \in [Rank -> Nat]
    <3>1. free_message_buffers[i] \in Nat /\ free_message_buffers[i] > 0
      BY <1>4 DEF TypeOK, RdmcIncoming
    <3>2. free_message_buffers' = [free_message_buffers EXCEPT ![i] = @ - 1]
      BY <1>4 DEF RdmcIncoming
    <3>3. free_message_buffers[i] - 1 \in Nat
      BY <3>1
    <3> QED
      BY <3>2, <3>3 DEF TypeOK
  <2>8. inflight' \in [Rank -> [Rank -> Seq(Message)]]
    BY <1>4, <2>2 DEF TypeOK, RdmcIncoming
  <2> QED
    BY <1>4, <2>6, <2>7, <2>8 DEF TypeOK, RdmcIncoming, sstVars, sendVars
<1>5. ASSUME NEW i \in Rank, NEW k \in Rank, RdmcReceive(i, k)
      PROVE  TypeOK'
  <2>1. PICK e \in current_receives[i] :
            /\ MessageReceived(i, k, e.msg)
            /\ current_receives' = [current_receives EXCEPT ![i] = @ \ {e}]
    BY <1>5 DEF RdmcReceive
  <2>2. e.msg \in Message
    BY <2>1 DEF TypeOK, Entry
  <2>3. /\ nReceived' \in [Rank -> [Rank -> Number]]
        /\ seq_num' \in [Rank -> [Rank -> Number]]
        /\ locally_stable_messages' \in [Rank -> SUBSET Entry]
    BY <2>1, <2>2, MessageReceivedType
  <2>4. current_receives' \in [Rank -> SUBSET Entry]
    BY <2>1 DEF TypeOK
  <2> QED
    BY <1>5, <2>3, <2>4 DEF TypeOK, RdmcReceive, sendVars
<1>6. ASSUME NEW i \in Rank, OwnReceive(i)
      PROVE  TypeOK'
  <2>1. PICK m \in current_send[i] : MessageReceived(i, i, m)
    BY <1>6 DEF OwnReceive
  <2>2. m \in Message
    BY <2>1 DEF TypeOK
  <2>3. /\ nReceived' \in [Rank -> [Rank -> Number]]
        /\ seq_num' \in [Rank -> [Rank -> Number]]
        /\ locally_stable_messages' \in [Rank -> SUBSET Entry]
    BY <2>1, <2>2, MessageReceivedType
  <2>4. current_send' \in [Rank -> SUBSET Message]
    BY <1>6 DEF TypeOK, OwnReceive
  <2> QED
    BY <1>6, <2>3, <2>4 DEF TypeOK, OwnReceive
<1>7. ASSUME NEW i \in Rank, StabilityTrig(i)
      PROVE  TypeOK'
  <2>1. stable_num' \in [Rank -> [Rank -> Number]]
    <3>1. PICK j \in Rank : stable_num' = [stable_num EXCEPT ![i][i] = seq_num[i][j]]
      BY <1>7 DEF StabilityTrig
    <3>2. seq_num[i][j] \in Number /\ stable_num \in [Rank -> [Rank -> Number]]
      BY DEF TypeOK
    <3> QED
      BY <3>1, <3>2
  <2> QED
    BY <1>7, <2>1 DEF TypeOK, StabilityTrig, sendVars, messageVars
<1>8. ASSUME NEW i \in Rank, DeliveryTrig(i)
      PROVE  TypeOK'
  <2>1. PICK e \in locally_stable_messages[i] :
            /\ deliver_message(i, e.msg)
            /\ delivered_num' = [delivered_num EXCEPT ![i][i] = e.seq]
            /\ locally_stable_messages' =
                   [locally_stable_messages EXCEPT ![i] = @ \ {e}]
    BY <1>8 DEF DeliveryTrig
  <2>2. e.msg \in Message /\ e.seq \in Nat
    BY <2>1 DEF TypeOK, Entry
  <2>3. delivered_num' \in [Rank -> [Rank -> Number]]
    BY <2>1, <2>2 DEF TypeOK, Number
  <2>4. locally_stable_messages' \in [Rank -> SUBSET Entry]
    BY <2>1 DEF TypeOK
  <2>5. SeqNum(e.msg.sender_rank, e.msg.index) \in Nat
    BY <2>2, SeqNumType DEF Message
  <2>6. UpcallOf(e.msg) \in Upcall
    BY <2>2 DEF UpcallOf, Upcall, Message
  <2>7. File(SeqNum(e.msg.sender_rank, e.msg.index), e.msg) \in Entry
    BY <2>2, <2>5 DEF File, Entry
  <2>8. /\ delivered' \in [Rank -> Seq(Upcall)]
        /\ non_persistent_messages' \in [Rank -> SUBSET Entry]
        /\ writes' \in [Rank -> Seq(Nat)]
        /\ free_message_buffers' \in [Rank -> Nat]
    <3>1. CASE e.msg.size = 0
      BY <2>1, <3>1 DEF deliver_message, TypeOK
    <3>2. CASE e.msg.size # 0 /\ Persistent
      <4> DEFINE key == SeqNum(e.msg.sender_rank, e.msg.index)
      <4>1. /\ delivered' = [delivered EXCEPT ![i] = Append(@, UpcallOf(e.msg))]
            /\ non_persistent_messages' =
                   [non_persistent_messages EXCEPT ![i] = @ \cup {File(key, e.msg)}]
            /\ writes' = [writes EXCEPT ![i] = Append(@, key)]
            /\ free_message_buffers' = free_message_buffers
        BY <2>1, <3>2 DEF deliver_message
      <4>2. delivered' \in [Rank -> Seq(Upcall)]
        BY <4>1, <2>6 DEF TypeOK
      <4>3. non_persistent_messages' \in [Rank -> SUBSET Entry]
        BY <4>1, <2>7 DEF TypeOK
      <4>4. writes' \in [Rank -> Seq(Nat)]
        BY <4>1, <2>5 DEF TypeOK
      <4> QED
        BY <4>1, <4>2, <4>3, <4>4 DEF TypeOK
    <3>3. CASE e.msg.size # 0 /\ ~ Persistent
      <4>1. /\ delivered' = [delivered EXCEPT ![i] = Append(@, UpcallOf(e.msg))]
            /\ free_message_buffers' = [free_message_buffers EXCEPT ![i] = @ + 1]
            /\ UNCHANGED <<non_persistent_messages, writes>>
        BY <2>1, <3>3 DEF deliver_message
      <4>2. delivered' \in [Rank -> Seq(Upcall)]
        BY <4>1, <2>6 DEF TypeOK
      <4>3. free_message_buffers' \in [Rank -> Nat]
        BY <4>1 DEF TypeOK
      <4> QED
        BY <4>1, <4>2, <4>3 DEF TypeOK
    <3> QED
      BY <3>1, <3>2, <3>3
  <2> QED
    BY <1>8, <2>3, <2>4, <2>8 DEF TypeOK, DeliveryTrig, sendVars
<1>9. ASSUME NEW i \in Rank, FileWritten(i)
      PROVE  TypeOK'
  <2>1. PICK e \in non_persistent_messages[i] :
            /\ non_persistent_messages' =
                   [non_persistent_messages EXCEPT ![i] = @ \ {e}]
            /\ persisted_num' = [persisted_num EXCEPT ![i][i] = e.seq]
    BY <1>9 DEF FileWritten
  <2>2. e.seq \in Number
    BY <2>1 DEF TypeOK, Entry, Number
  <2>3. persisted_num' \in [Rank -> [Rank -> Number]]
    BY <2>1, <2>2 DEF TypeOK
  <2>4. non_persistent_messages' \in [Rank -> SUBSET Entry]
    BY <2>1 DEF TypeOK
  <2>5. writes[i] # <<>> /\ writes[i] \in Seq(Nat)
    BY <1>9 DEF FileWritten, TypeOK
  <2>6. writes' \in [Rank -> Seq(Nat)]
    BY <1>9, <2>5 DEF FileWritten, TypeOK
  <2>7. free_message_buffers' \in [Rank -> Nat]
    BY <1>9 DEF FileWritten, TypeOK
  <2> QED
    BY <1>9, <2>3, <2>4, <2>6, <2>7 DEF TypeOK, FileWritten, sendVars
<1>10. ASSUME NEW i \in Rank, NEW j \in Rank, SeqNumArrives(i, j)
       PROVE  TypeOK'
  <2>1. seq_num' \in [Rank -> [Rank -> Number]]
    <3>1. seq_num \in [Rank -> [Rank -> Number]]
      BY DEF TypeOK
    <3>2. seq_num' = Copied(seq_num, i, j)
      BY <1>10 DEF SeqNumArrives
    <3> QED
      BY <3>1, <3>2, CopiedType
  <2> QED
    BY <1>10, <2>1 DEF TypeOK, SeqNumArrives, sendVars, messageVars
<1>11. ASSUME NEW i \in Rank, NEW j \in Rank, StableNumArrives(i, j)
       PROVE  TypeOK'
  <2>1. stable_num' \in [Rank -> [Rank -> Number]]
    <3>1. stable_num \in [Rank -> [Rank -> Number]]
      BY DEF TypeOK
    <3>2. stable_num' = Copied(stable_num, i, j)
      BY <1>11 DEF StableNumArrives
    <3> QED
      BY <3>1, <3>2, CopiedType
  <2> QED
    BY <1>11, <2>1 DEF TypeOK, StableNumArrives, sendVars, messageVars
<1>12. ASSUME NEW i \in Rank, NEW j \in Rank, DeliveredNumArrives(i, j)
       PROVE  TypeOK'
  <2>1. delivered_num' \in [Rank -> [Rank -> Number]]
    <3>1. delivered_num \in [Rank -> [Rank -> Number]]
      BY DEF TypeOK
    <3>2. delivered_num' = Copied(delivered_num, i, j)
      BY <1>12 DEF DeliveredNumArrives
    <3> QED
      BY <3>1, <3>2, CopiedType
  <2> QED
    BY <1>12, <2>1 DEF TypeOK, DeliveredNumArrives, sendVars, messageVars
<1>13. ASSUME NEW i \in Rank, NEW j \in Rank, PersistedNumArrives(i, j)
       PROVE  TypeOK'
  <2>1. persisted_num' \in [Rank -> [Rank -> Number]]
    <3>1. persisted_num \in [Rank -> [Rank -> Number]]
      BY DEF TypeOK
    <3>2. persisted_num' = Copied(persisted_num, i, j)
      BY <1>13 DEF PersistedNumArrives
    <3> QED
      BY <3>1, <3>2, CopiedType
  <2> QED
    BY <1>13, <2>1 DEF TypeOK, PersistedNumArrives, sendVars, messageVars
<1>14. ASSUME NEW i \in Rank, Wedge(i)
       PROVE  TypeOK'
  <2>1. wedge_state' \in [Rank -> WedgeState]
    BY <1>14 DEF TypeOK, Wedge, WedgeStep, WedgeState
  <2> QED
    BY <1>14, <2>1 DEF TypeOK, Wedge, WedgeStep, sstVars, sendVars, messageVars
<1>15. CASE UNCHANGED vars
    BY <1>15 DEF TypeOK, vars, sstVars, sendVars, messageVars
<1> QED
    BY <1>1, <1>2, <1>3, <1>4, <1>5, <1>6, <1>7, <1>8, <1>9, <1>10, <1>11, <1>12,
       <1>13, <1>14, <1>15 DEF Next

\* The constructor gives every variable its type.
LEMMA TypeInit == Init => TypeOK
BY DEF Init, initialize_sst_row, TypeOK, Number, WedgeState

\* Every variable of the multicast keeps its type in every execution.
THEOREM TypeCorrect == Spec => []TypeOK
<1> QED
    BY TypeInit, TypeStep, PTL DEF Spec

(***************************************************************************)
(* The inductive invariant.                                                *)
(***************************************************************************)
\* No copy of a column is ahead of the row it is a copy of.
CopiesTrail ==
    \A i, j \in Rank :
        /\ seq_num[i][j] <= seq_num[j][j]
        /\ stable_num[i][j] <= stable_num[j][j]

\* seq_num ends before the first message of each sender that is missing.
SeqNumBeforeGaps ==
    \A i, k \in Rank : seq_num[i][i] < SeqNum(k, nReceived[i][k] + 1)

\* Members send their own messages, and RDMC is never given one that is
\* ahead of what the member has counted itself.
OwnMessages ==
    \A i \in Rank :
        /\ \A m \in next_send[i] : m.sender_rank = i
        /\ \A n \in 1 .. Len(pending_sends[i]) : pending_sends[i][n].sender_rank = i
        /\ \A m \in current_send[i] :
               m.sender_rank = i /\ m.index <= nReceived[i][i] + 1

\* No message is filed below the sequence number its header gives it.
FiledNotBelow(e) == SeqNum(e.msg.sender_rank, e.msg.index) <= e.seq

Filed ==
    \A i \in Rank : \A e \in current_receives[i] \cup locally_stable_messages[i] :
        FiledNotBelow(e)

Promises ==
    /\ CopiesTrail
    /\ SeqNumBeforeGaps
    /\ StableNumCorrect
    /\ DeliveredIsKnownStable
    /\ OwnMessages
    /\ Filed
    /\ DeliveredIsReceived

IInv == TypeOK /\ Promises

(***************************************************************************)
(* Arithmetic of the round-robin order.                                    *)
(***************************************************************************)
\* Multiplying by a natural number keeps the order.
LEMMA TimesKeepsOrder ==
    ASSUME NEW a \in Int, NEW b \in Int, NEW n \in Nat, a <= b
    PROVE  a * n <= b * n
<1> DEFINE d == b - a
<1>1. d \in Nat /\ b = a + d
    OBVIOUS
<1> HIDE DEF d
<1>2. d * n \in Nat
    BY <1>1
<1>3. (a + d) * n = a * n + d * n
    BY <1>1
<1>4. a * n \in Int
    OBVIOUS
<1> QED
    BY <1>1, <1>2, <1>3, <1>4

\* N and the ranks are integers.
LEMMA RankType ==
    ASSUME NEW k \in Rank
    PROVE  N \in Nat /\ k \in Nat /\ 0 <= k /\ k < N
BY NAssumption DEF Rank

\* The messages of one sender are numbered in the order of their indices.
LEMMA SeqNumMonotone ==
    ASSUME NEW k \in Rank, NEW a \in Int, NEW b \in Int, a <= b
    PROVE  SeqNum(k, a) <= SeqNum(k, b)
<1>1. N \in Nat /\ k \in Nat
    BY RankType
<1>2. a * N <= b * N
    BY <1>1, TimesKeepsOrder
<1>3. a * N \in Int /\ b * N \in Int
    BY <1>1
<1> QED
    BY <1>1, <1>2, <1>3 DEF SeqNum

\* Sequence numbers are integers.
LEMMA SeqNumInt ==
    ASSUME NEW k \in Rank, NEW a \in Int
    PROVE  SeqNum(k, a) \in Int
<1>1. N \in Nat /\ k \in Nat
    BY RankType
<1> QED
    BY <1>1 DEF SeqNum

\* Only messages with larger indices come later in the order of one sender.
LEMMA SeqNumReflectsOrder ==
    ASSUME NEW k \in Rank, NEW a \in Int, NEW b \in Int, SeqNum(k, a) < SeqNum(k, b)
    PROVE  a < b
<1> SUFFICES ASSUME b <= a
             PROVE  FALSE
    OBVIOUS
<1>1. SeqNum(k, b) <= SeqNum(k, a)
    BY SeqNumMonotone
<1>2. SeqNum(k, a) \in Int /\ SeqNum(k, b) \in Int
    BY SeqNumInt
<1> QED
    BY <1>1, <1>2

\* What FirstGapAfter finds comes before the first missing message of every
\* sender: the receive handler never advances seq_num over a gap.
LEMMA GapIsFirst ==
    ASSUME NEW counts \in [Rank -> Number], NEW last \in Int,
           FirstGapAfter(counts, last), NEW k \in Rank
    PROVE  last < SeqNum(k, counts[k] + 1)
<1>1. PICK s \in Rank :
          /\ \A t \in Rank : counts[s] <= counts[t]
          /\ \A t \in 0 .. s - 1 : counts[s] < counts[t]
          /\ last = SeqNum(s, counts[s] + 1) - 1
    BY DEF FirstGapAfter
<1>2. counts[s] \in Int /\ counts[k] \in Int
    BY DEF Number
<1>3. N \in Nat /\ s \in 0 .. N - 1 /\ k \in 0 .. N - 1
    BY RankType DEF Rank
<1>4. CASE s <= k
  <2>1. counts[s] + 1 <= counts[k] + 1
    BY <1>1, <1>2
  <2>2. (counts[s] + 1) * N <= (counts[k] + 1) * N
    BY <1>2, <1>3, <2>1, TimesKeepsOrder
  <2> QED
    BY <1>1, <1>2, <1>3, <1>4, <2>2 DEF SeqNum
<1>5. CASE k < s
  <2>1. k \in 0 .. s - 1
    BY <1>3, <1>5
  <2>2. counts[s] + 1 <= counts[k]
    BY <1>1, <1>2, <2>1
  <2>3. (counts[s] + 1) * N <= counts[k] * N
    BY <1>2, <1>3, <2>2, TimesKeepsOrder
  <2>4. (counts[k] + 1) * N = counts[k] * N + N
    BY <1>2, <1>3
  <2> QED
    BY <1>1, <1>2, <1>3, <2>3, <2>4 DEF SeqNum
<1> QED
    BY <1>3, <1>4, <1>5

\* The numbers in the columns are integers.
LEMMA ColumnType ==
    ASSUME TypeOK, NEW i \in Rank, NEW j \in Rank
    PROVE  /\ nReceived[i][j] \in Number /\ seq_num[i][j] \in Number
           /\ stable_num[i][j] \in Number /\ delivered_num[i][j] \in Number
           /\ nReceived[i][j] \in Int /\ seq_num[i][j] \in Int
           /\ stable_num[i][j] \in Int /\ delivered_num[i][j] \in Int
<1>1. /\ nReceived[i][j] \in Number /\ seq_num[i][j] \in Number
      /\ stable_num[i][j] \in Number /\ delivered_num[i][j] \in Number
    BY DEF TypeOK
<1> QED
    BY <1>1 DEF Number

(***************************************************************************)
(* The receive handler.                                                    *)
(***************************************************************************)
\* The counts of the receive handler never drop.
LEMMA CountsGrow ==
    ASSUME TypeOK, NEW i \in Rank, NEW k \in Rank, NEW m \in Message,
           MessageReceived(i, k, m), NEW a \in Rank, NEW b \in Rank
    PROVE  nReceived'[a][b] \in Int /\ nReceived[a][b] <= nReceived'[a][b]
<1> DEFINE index == nReceived[i][k] + 1
           counts == [nReceived[i] EXCEPT ![k] = CountAfter(index, m)]
<1>1. nReceived[i][k] \in Int /\ nReceived[a][b] \in Int
    BY ColumnType
<1>2. m.pause \in Nat
    BY BoundsAssumption DEF Message
<1>3. CountAfter(index, m) \in Int /\ nReceived[i][k] <= CountAfter(index, m)
    BY <1>1, <1>2 DEF CountAfter
<1>4. nReceived' = [nReceived EXCEPT ![i] = counts]
    BY DEF MessageReceived
<1>5. CASE a = i /\ b = k
  <2>1. nReceived'[a][b] = CountAfter(index, m)
    BY <1>4, <1>5 DEF TypeOK
  <2> QED
    BY <1>3, <1>5, <2>1
<1>6. CASE a # i \/ b # k
  <2>1. nReceived'[a][b] = nReceived[a][b]
    BY <1>4, <1>6 DEF TypeOK
  <2> QED
    BY <1>1, <2>1
<1> QED
    BY <1>5, <1>6

\* The receive handler changes seq_num in its own row only, never downwards,
\* and never past a missing message.
LEMMA SeqNumGrows ==
    ASSUME TypeOK, SeqNumBeforeGaps, NEW i \in Rank, NEW k \in Rank,
           NEW m \in Message, MessageReceived(i, k, m)
    PROVE  /\ \A a, b \in Rank : seq_num'[a][b] \in Int /\ seq_num[a][b] <= seq_num'[a][b]
           /\ \A a, b \in Rank : a # b => seq_num'[a][b] = seq_num[a][b]
           /\ SeqNumBeforeGaps'
<1> DEFINE index == nReceived[i][k] + 1
           counts == [nReceived[i] EXCEPT ![k] = CountAfter(index, m)]
<1>1. PICK last \in -1 .. SeqNum(N, MaxIndex + 1) :
          /\ FirstGapAfter(counts, last)
          /\ seq_num' = [seq_num EXCEPT ![i][i] = Larger(@, last)]
    BY DEF MessageReceived
<1>2. last \in Int
    BY <1>1
<1>3. nReceived' = [nReceived EXCEPT ![i] = counts]
    BY DEF MessageReceived
<1>4. nReceived' \in [Rank -> [Rank -> Number]]
    BY MessageReceivedType
<1>5. counts = nReceived'[i] /\ counts \in [Rank -> Number]
    BY <1>3, <1>4 DEF TypeOK
<1> HIDE DEF counts
<1>6. seq_num[i][i] \in Int
    BY ColumnType
<1>7. /\ Larger(seq_num[i][i], last) \in Int
      /\ seq_num[i][i] <= Larger(seq_num[i][i], last)
      /\ Larger(seq_num[i][i], last) \in {seq_num[i][i], last}
    BY <1>2, <1>6 DEF Larger
<1>8. /\ seq_num'[i][i] = Larger(seq_num[i][i], last)
      /\ \A a, b \in Rank : a # i \/ b # i => seq_num'[a][b] = seq_num[a][b]
    BY <1>1 DEF TypeOK
<1>9. ASSUME NEW a \in Rank, NEW b \in Rank
      PROVE  seq_num'[a][b] \in Int /\ seq_num[a][b] <= seq_num'[a][b]
  <2>1. seq_num[a][b] \in Int
    BY ColumnType
  <2>2. CASE a = i /\ b = i
    BY <1>7, <1>8, <2>2
  <2>3. CASE a # i \/ b # i
    BY <1>8, <2>1, <2>3
  <2> QED
    BY <2>2, <2>3
<1>10. ASSUME NEW a \in Rank, NEW b \in Rank, a # b
       PROVE  seq_num'[a][b] = seq_num[a][b]
    BY <1>8, <1>10
<1>11. ASSUME NEW a \in Rank, NEW b \in Rank
       PROVE  seq_num'[a][a] < SeqNum(b, nReceived'[a][b] + 1)
  <2>1. /\ nReceived[a][b] \in Int /\ nReceived'[a][b] \in Int
        /\ nReceived[a][b] + 1 <= nReceived'[a][b] + 1
    BY ColumnType, CountsGrow
  <2>2. SeqNum(b, nReceived[a][b] + 1) <= SeqNum(b, nReceived'[a][b] + 1)
    BY <2>1, SeqNumMonotone
  <2>3. /\ SeqNum(b, nReceived[a][b] + 1) \in Int
        /\ SeqNum(b, nReceived'[a][b] + 1) \in Int
        /\ seq_num[a][a] \in Int
    BY <2>1, SeqNumInt, ColumnType
  <2>4. seq_num[a][a] < SeqNum(b, nReceived'[a][b] + 1)
    BY <2>2, <2>3 DEF SeqNumBeforeGaps
  <2>5. CASE a = i
    <3>1. last < SeqNum(b, nReceived'[a][b] + 1)
      BY <1>1, <1>2, <1>5, <2>5, GapIsFirst
    <3> QED
      BY <1>7, <1>8, <2>4, <2>5, <3>1
  <2>6. CASE a # i
    BY <1>8, <2>4, <2>6
  <2> QED
    BY <2>5, <2>6
<1> QED
    BY <1>9, <1>10, <1>11 DEF SeqNumBeforeGaps

\* What the receive handler files was there, is the received message, or is
\* a skipped turn under its own sequence number.
LEMMA ReceivedIsFiled ==
    ASSUME TypeOK, NEW i \in Rank, NEW k \in Rank, NEW m \in Message,
           MessageReceived(i, k, m), NEW a \in Rank, NEW e \in locally_stable_messages'[a]
    PROVE  \/ e \in locally_stable_messages[a]
           \/ a = i /\ e = File(SeqNum(k, nReceived[i][k] + 1), m)
           \/ FiledNotBelow(e)
<1> DEFINE index == nReceived[i][k] + 1
<1>1. locally_stable_messages' = [locally_stable_messages EXCEPT ![i] =
          @ \cup {File(SeqNum(k, index), m)} \cup SkippedTurns(k, index + 1, m.pause)]
    BY DEF MessageReceived
<1>2. CASE a # i
    BY <1>1, <1>2 DEF TypeOK
<1>3. CASE a = i
  <2>1. locally_stable_messages'[i] = locally_stable_messages[i]
            \cup {File(SeqNum(k, index), m)} \cup SkippedTurns(k, index + 1, m.pause)
    BY <1>1 DEF TypeOK
  <2>2. CASE e \in SkippedTurns(k, index + 1, m.pause)
    <3>1. PICK idx \in index + 1 .. index + 1 + m.pause - 1 :
              e = File(SeqNum(k, idx), EmptyMessage(k, idx))
      BY <2>2 DEF SkippedTurns
    <3>2. /\ e.seq = SeqNum(k, idx)
          /\ e.msg.sender_rank = k /\ e.msg.index = idx
      BY <3>1 DEF File, EmptyMessage
    <3>3. idx \in Int
      OBVIOUS
    <3>4. SeqNum(k, idx) <= SeqNum(k, idx)
      BY <3>3, SeqNumInt
    <3> QED
      BY <3>2, <3>4 DEF FiledNotBelow
  <2> QED
    BY <1>3, <2>1, <2>2
<1> QED
    BY <1>2, <1>3

\* The parts of the invariant that the receive handler disturbs, whatever
\* else the step that runs it does.  The handler must be given a message that
\* may be filed under the next number of sender k.
LEMMA ReceiveSafe ==
    ASSUME IInv, NEW i \in Rank, NEW k \in Rank, NEW m \in Message,
           MessageReceived(i, k, m),
           FiledNotBelow(File(SeqNum(k, nReceived[i][k] + 1), m)),
           UNCHANGED <<stable_num, delivered_num, delivered>>
    PROVE  /\ CopiesTrail' /\ SeqNumBeforeGaps' /\ StableNumCorrect'
           /\ DeliveredIsKnownStable' /\ DeliveredIsReceived'
           /\ \A a \in Rank : \A e \in locally_stable_messages'[a] : FiledNotBelow(e)
<1> USE DEF IInv, Promises
<1>1. /\ \A a, b \in Rank : seq_num'[a][b] \in Int /\ seq_num[a][b] <= seq_num'[a][b]
      /\ \A a, b \in Rank : a # b => seq_num'[a][b] = seq_num[a][b]
      /\ SeqNumBeforeGaps'
    BY SeqNumGrows
<1>2. CopiesTrail'
  <2> SUFFICES ASSUME NEW a \in Rank, NEW b \in Rank
               PROVE  seq_num'[a][b] <= seq_num'[b][b] /\ stable_num'[a][b] <= stable_num'[b][b]
    BY DEF CopiesTrail
  <2>1. stable_num'[a][b] <= stable_num'[b][b]
    BY DEF CopiesTrail
  <2>2. seq_num'[a][b] <= seq_num'[b][b]
    <3>1. seq_num[a][b] <= seq_num[b][b] /\ seq_num[a][b] \in Int /\ seq_num[b][b] \in Int
      BY ColumnType DEF CopiesTrail
    <3>2. CASE a = b
      BY <1>1, <3>2
    <3>3. CASE a # b
      BY <1>1, <3>1, <3>3
    <3> QED
      BY <3>2, <3>3
  <2> QED
    BY <2>1, <2>2
<1>3. StableNumCorrect'
  <2> SUFFICES ASSUME NEW a \in Rank, NEW b \in Rank
               PROVE  stable_num'[a][a] <= seq_num'[b][b]
    BY DEF StableNumCorrect
  <2>1. stable_num[a][a] <= seq_num[b][b] /\ stable_num[a][a] \in Int /\ seq_num[b][b] \in Int
    BY ColumnType DEF StableNumCorrect
  <2> QED
    BY <1>1, <2>1
<1>4. DeliveredIsKnownStable'
    BY DEF DeliveredIsKnownStable
<1>5. DeliveredIsReceived'
  <2> SUFFICES ASSUME NEW a \in Rank, NEW b \in Rank, NEW n \in 1 .. Len(delivered[a])
               PROVE  delivered[a][n].index <= nReceived'[b][delivered[a][n].sender_rank]
    BY DEF DeliveredIsReceived
  <2>1. delivered[a][n] \in Upcall
    <3>1. delivered[a] \in Seq(Upcall)
      BY DEF TypeOK
    <3> QED
      BY <3>1
  <2>2. delivered[a][n].sender_rank \in Rank /\ delivered[a][n].index \in Int
    BY <2>1 DEF Upcall
  <2>3. delivered[a][n].index <= nReceived[b][delivered[a][n].sender_rank]
    BY DEF DeliveredIsReceived
  <2>4. nReceived[b][delivered[a][n].sender_rank] \in Int
    BY <2>2, ColumnType
  <2>5. /\ nReceived'[b][delivered[a][n].sender_rank] \in Int
        /\ nReceived[b][delivered[a][n].sender_rank]
               <= nReceived'[b][delivered[a][n].sender_rank]
    BY <2>2, CountsGrow
  <2> QED
    BY <2>2, <2>3, <2>4, <2>5
<1>6. ASSUME NEW a \in Rank, NEW e \in locally_stable_messages'[a]
      PROVE  FiledNotBelow(e)
  <2>1. \/ e \in locally_stable_messages[a]
        \/ a = i /\ e = File(SeqNum(k, nReceived[i][k] + 1), m)
        \/ FiledNotBelow(e)
    BY <1>6, ReceivedIsFiled
  <2>2. e \in locally_stable_messages[a] => FiledNotBelow(e)
    BY DEF Filed
  <2> QED
    BY <2>1, <2>2
<1> QED
    BY <1>1, <1>2, <1>3, <1>4, <1>5, <1>6

(***************************************************************************)
(* Every step keeps the promises.                                          *)
(***************************************************************************)
\* A step that leaves all columns and all messages alone keeps the invariant.
LEMMA NothingDisturbed ==
    ASSUME IInv,
           UNCHANGED <<nReceived, seq_num, stable_num, delivered_num, next_send,
                       pending_sends, current_send, current_receives,
                       locally_stable_messages, delivered>>
    PROVE  Promises'
BY DEF IInv, Promises, CopiesTrail, SeqNumBeforeGaps, StableNumCorrect,
       DeliveredIsKnownStable, OwnMessages, Filed, DeliveredIsReceived

\* A step of the sending side disturbs OwnMessages only.
LEMMA OnlySending ==
    ASSUME IInv, OwnMessages',
           UNCHANGED <<nReceived, seq_num, stable_num, delivered_num,
                       current_receives, locally_stable_messages, delivered>>
    PROVE  Promises'
BY DEF IInv, Promises, CopiesTrail, SeqNumBeforeGaps, StableNumCorrect,
       DeliveredIsKnownStable, Filed, DeliveredIsReceived

\* get_position allocates a message of its own.
LEMMA GetPositionSafe ==
    ASSUME IInv, NEW i \in Rank, NEW turns \in 0 .. MaxPause, GetPosition(i, turns)
    PROVE  Promises'
<1> DEFINE m == [sender_rank |-> i, index |-> future_message_index[i], size |-> 1,
                 pause |-> turns, body |-> future_message_index[i]]
<1>1. next_send' = [next_send EXCEPT ![i] = {m}]
    BY DEF GetPosition
<1>2. m.sender_rank = i
    OBVIOUS
<1> HIDE DEF m
<1>3. \A a \in Rank : \A x \in next_send'[a] : x.sender_rank = a
    BY <1>1, <1>2 DEF IInv, Promises, TypeOK, OwnMessages
<1>4. OwnMessages'
    BY <1>3 DEF IInv, Promises, OwnMessages, GetPosition, sstVars
<1> QED
    BY <1>4, OnlySending DEF GetPosition, sstVars

\* send queues a message of its own.
LEMMA SendSafe ==
    ASSUME IInv, NEW i \in Rank, Send(i)
    PROVE  Promises'
<1>1. PICK m \in next_send[i] : pending_sends' = [pending_sends EXCEPT ![i] = Append(@, m)]
    BY DEF Send
<1>2. m.sender_rank = i /\ m \in Message
    BY DEF IInv, Promises, TypeOK, OwnMessages
<1>3. \A a \in Rank : \A n \in 1 .. Len(pending_sends'[a]) :
          pending_sends'[a][n].sender_rank = a
  <2> SUFFICES ASSUME NEW a \in Rank, NEW n \in 1 .. Len(pending_sends'[a])
               PROVE  pending_sends'[a][n].sender_rank = a
    OBVIOUS
  <2>1. CASE a # i
    BY <1>1, <2>1 DEF IInv, Promises, TypeOK, OwnMessages
  <2>2. CASE a = i
    <3>1. pending_sends[i] \in Seq(Message)
      BY DEF IInv, Promises, TypeOK
    <3>2. pending_sends'[i] = Append(pending_sends[i], m)
      BY <1>1 DEF IInv, Promises, TypeOK
    <3>3. Len(pending_sends'[i]) = Len(pending_sends[i]) + 1
      BY <1>2, <3>1, <3>2
    <3>4. CASE n = Len(pending_sends[i]) + 1
      BY <1>2, <2>2, <3>1, <3>2, <3>4
    <3>5. CASE n \in 1 .. Len(pending_sends[i])
      BY <1>2, <2>2, <3>1, <3>2, <3>5 DEF IInv, Promises, OwnMessages
    <3> QED
      BY <2>2, <3>1, <3>3, <3>4, <3>5
  <2> QED
    BY <2>1, <2>2
<1>4. \A a \in Rank : \A x \in next_send'[a] : x.sender_rank = a
    BY DEF IInv, Promises, TypeOK, OwnMessages, Send
<1>5. OwnMessages'
    BY <1>3, <1>4 DEF IInv, Promises, OwnMessages, Send, sstVars
<1> QED
    BY <1>5, OnlySending DEF Send, sstVars, messageVars

\* The sender thread hands over a message only if all before it are counted.
LEMMA SenderStepSafe ==
    ASSUME IInv, NEW i \in Rank, SenderStep(i)
    PROVE  Promises'
<1> DEFINE m == Head(pending_sends[i])
<1>1. pending_sends[i] \in Seq(Message) /\ pending_sends[i] # <<>>
    BY DEF IInv, Promises, TypeOK, SenderStep, should_send
<1>2. m = pending_sends[i][1] /\ 1 \in 1 .. Len(pending_sends[i]) /\ m \in Message
    BY <1>1
<1>3. m.sender_rank = i
    BY <1>2 DEF IInv, Promises, OwnMessages
<1>4. m.index <= nReceived[i][i] + 1
  <2>1. nReceived[i][i] >= m.index - 1
    BY DEF SenderStep, should_send, PreviousSendDone
  <2>2. m.index \in Int /\ nReceived[i][i] \in Int
    BY <1>2, ColumnType DEF Message, IInv, Promises
  <2> QED
    BY <2>1, <2>2
<1>5. current_send' = [current_send EXCEPT ![i] = {m}]
    BY DEF SenderStep
<1>6. pending_sends' = [pending_sends EXCEPT ![i] = Tail(@)]
    BY DEF SenderStep
<1> HIDE DEF m
<1>7. \A a \in Rank : \A x \in current_send'[a] :
          x.sender_rank = a /\ x.index <= nReceived[a][a] + 1
    BY <1>3, <1>4, <1>5 DEF IInv, Promises, TypeOK, OwnMessages
<1>8. \A a \in Rank : \A n \in 1 .. Len(pending_sends'[a]) :
          pending_sends'[a][n].sender_rank = a
  <2> SUFFICES ASSUME NEW a \in Rank, NEW n \in 1 .. Len(pending_sends'[a])
               PROVE  pending_sends'[a][n].sender_rank = a
    OBVIOUS
  <2>1. CASE a # i
    BY <1>6, <2>1 DEF IInv, Promises, TypeOK, OwnMessages
  <2>2. CASE a = i
    <3>1. pending_sends'[i] = Tail(pending_sends[i])
      BY <1>6 DEF IInv, Promises, TypeOK
    <3>2. n + 1 \in 1 .. Len(pending_sends[i]) /\ pending_sends'[i][n] = pending_sends[i][n + 1]
      BY <1>1, <2>2, <3>1
    <3> QED
      BY <2>2, <3>2 DEF IInv, Promises, OwnMessages
  <2> QED
    BY <2>1, <2>2
<1>9. OwnMessages'
    BY <1>7, <1>8 DEF IInv, Promises, OwnMessages, SenderStep, sstVars
<1> QED
    BY <1>9, OnlySending DEF SenderStep, sstVars, messageVars

\* RDMC's next message gets the next number of its sender.
LEMMA RdmcIncomingSafe ==
    ASSUME IInv, NEW i \in Rank, NEW k \in Rank, RdmcIncoming(i, k)
    PROVE  Promises'
<1> DEFINE index == nReceived[i][k] + 1
           m == [Head(inflight[k][i]) EXCEPT !.sender_rank = k, !.index = index]
           new == File(SeqNum(k, index), m)
<1>1. current_receives' = [current_receives EXCEPT ![i] = @ \cup {new}]
    BY DEF RdmcIncoming
<1>2. FiledNotBelow(new)
  <2>1. inflight[k][i] \in Seq(Message) /\ inflight[k][i] # <<>>
    BY DEF RdmcIncoming, IncomingAt, IInv, Promises, TypeOK
  <2>2. Head(inflight[k][i]) \in Message
    BY <2>1
  <2>3. m.sender_rank = k /\ m.index = index
    BY <2>2 DEF Message
  <2>4. new.seq = SeqNum(k, index) /\ new.msg = m
    BY DEF File
  <2>5. index \in Int
    BY ColumnType DEF IInv, Promises
  <2>6. SeqNum(k, index) <= SeqNum(k, index)
    BY <2>5, SeqNumInt
  <2> QED
    BY <2>3, <2>4, <2>6 DEF FiledNotBelow
<1> HIDE DEF new
<1>3. Filed'
  <2> SUFFICES ASSUME NEW a \in Rank,
                      NEW e \in current_receives'[a] \cup locally_stable_messages'[a]
               PROVE  FiledNotBelow(e)
    BY DEF Filed, FiledNotBelow
  <2>1. current_receives'[a] \subseteq current_receives[a] \cup {new}
    BY <1>1 DEF IInv, TypeOK
  <2>2. locally_stable_messages' = locally_stable_messages
    BY DEF RdmcIncoming
  <2>3. \A x \in current_receives[a] \cup locally_stable_messages[a] : FiledNotBelow(x)
    BY DEF IInv, Promises, Filed
  <2> QED
    BY <1>2, <2>1, <2>2, <2>3
<1> QED
    BY <1>3 DEF RdmcIncoming, IInv, Promises, CopiesTrail, SeqNumBeforeGaps, StableNumCorrect,
           DeliveredIsKnownStable, OwnMessages, DeliveredIsReceived, sstVars, sendVars

\* The receive handler for a message of another member.
LEMMA RdmcReceiveSafe ==
    ASSUME IInv, NEW i \in Rank, NEW k \in Rank, RdmcReceive(i, k)
    PROVE  Promises'
<1>1. PICK e \in current_receives[i] :
          /\ e.seq = SeqNum(k, nReceived[i][k] + 1)
          /\ MessageReceived(i, k, e.msg)
          /\ current_receives' = [current_receives EXCEPT ![i] = @ \ {e}]
    BY DEF RdmcReceive
<1>2. e.msg \in Message
    BY DEF IInv, TypeOK, Entry
<1>3. FiledNotBelow(File(SeqNum(k, nReceived[i][k] + 1), e.msg))
  <2>1. FiledNotBelow(e)
    BY DEF IInv, Promises, Filed
  <2>2. /\ File(SeqNum(k, nReceived[i][k] + 1), e.msg).seq = e.seq
        /\ File(SeqNum(k, nReceived[i][k] + 1), e.msg).msg = e.msg
    BY <1>1 DEF File
  <2> QED
    BY <2>1, <2>2 DEF FiledNotBelow
<1>4. UNCHANGED <<stable_num, delivered_num, delivered>>
    BY DEF RdmcReceive
<1>5. /\ CopiesTrail' /\ SeqNumBeforeGaps' /\ StableNumCorrect'
      /\ DeliveredIsKnownStable' /\ DeliveredIsReceived'
      /\ \A a \in Rank : \A x \in locally_stable_messages'[a] : FiledNotBelow(x)
    BY <1>1, <1>2, <1>3, <1>4, ReceiveSafe
<1>6. \A a \in Rank : current_receives'[a] \subseteq current_receives[a]
    BY <1>1 DEF IInv, TypeOK
<1>7. Filed'
    BY <1>5, <1>6 DEF IInv, Promises, Filed, FiledNotBelow
<1>8. OwnMessages'
  <2> SUFFICES ASSUME NEW a \in Rank, NEW m \in current_send[a]
               PROVE  m.index <= nReceived'[a][a] + 1
    BY DEF IInv, Promises, OwnMessages, RdmcReceive, sendVars
  <2>1. m.index <= nReceived[a][a] + 1 /\ m.index \in Int
    BY DEF IInv, Promises, TypeOK, OwnMessages, Message
  <2>2. nReceived[a][a] \in Int /\ nReceived'[a][a] \in Int /\ nReceived[a][a] <= nReceived'[a][a]
    BY <1>1, <1>2, ColumnType, CountsGrow DEF IInv
  <2> QED
    BY <2>1, <2>2
<1> QED
    BY <1>5, <1>7, <1>8 DEF Promises

\* The receive handler for the member's own message.
LEMMA OwnReceiveSafe ==
    ASSUME IInv, NEW i \in Rank, OwnReceive(i)
    PROVE  Promises'
<1>1. PICK m \in current_send[i] : MessageReceived(i, i, m)
    BY DEF OwnReceive
<1>2. m \in Message
    BY DEF IInv, TypeOK
<1>3. FiledNotBelow(File(SeqNum(i, nReceived[i][i] + 1), m))
  <2>1. m.sender_rank = i /\ m.index <= nReceived[i][i] + 1
    BY DEF IInv, Promises, OwnMessages
  <2>2. m.index \in Int /\ nReceived[i][i] + 1 \in Int
    BY <1>2, ColumnType DEF IInv, Message
  <2>3. SeqNum(i, m.index) <= SeqNum(i, nReceived[i][i] + 1)
    BY <2>1, <2>2, SeqNumMonotone
  <2> QED
    BY <2>1, <2>3 DEF FiledNotBelow, File
<1>4. UNCHANGED <<stable_num, delivered_num, delivered>>
    BY DEF OwnReceive
<1>5. /\ CopiesTrail' /\ SeqNumBeforeGaps' /\ StableNumCorrect'
      /\ DeliveredIsKnownStable' /\ DeliveredIsReceived'
      /\ \A a \in Rank : \A x \in locally_stable_messages'[a] : FiledNotBelow(x)
    BY <1>1, <1>2, <1>3, <1>4, ReceiveSafe
<1>6. Filed'
    BY <1>5 DEF IInv, Promises, Filed, FiledNotBelow, OwnReceive
<1>7. OwnMessages'
  <2>1. current_send' = [current_send EXCEPT ![i] = {}]
    BY DEF OwnReceive
  <2> SUFFICES ASSUME NEW a \in Rank, NEW x \in current_send'[a]
               PROVE  x.sender_rank = a /\ x.index <= nReceived'[a][a] + 1
    BY DEF IInv, Promises, OwnMessages, OwnReceive
  <2>2. x \in current_send[a]
    BY <2>1 DEF IInv, TypeOK
  <2>3. x.sender_rank = a /\ x.index <= nReceived[a][a] + 1 /\ x.index \in Int
    BY <2>2 DEF IInv, Promises, TypeOK, OwnMessages, Message
  <2>4. nReceived[a][a] \in Int /\ nReceived'[a][a] \in Int /\ nReceived[a][a] <= nReceived'[a][a]
    BY <1>1, <1>2, ColumnType, CountsGrow DEF IInv
  <2> QED
    BY <2>3, <2>4
<1> QED
    BY <1>5, <1>6, <1>7 DEF Promises

\* The stability predicate raises stable_num to a value that is at most what
\* this member has seen of every row, and so at most what is in the row.
LEMMA StabilityTrigSafe ==
    ASSUME IInv, NEW i \in Rank, StabilityTrig(i)
    PROVE  Promises'
<1>1. PICK j \in Rank :
          /\ SmallestSeqNum(i, seq_num[i][j])
          /\ seq_num[i][j] > stable_num[i][i]
          /\ stable_num' = [stable_num EXCEPT ![i][i] = seq_num[i][j]]
    BY DEF StabilityTrig
<1>2. /\ stable_num'[i][i] = seq_num[i][j]
      /\ \A a, b \in Rank : a # i \/ b # i => stable_num'[a][b] = stable_num[a][b]
    BY <1>1 DEF IInv, TypeOK
<1>3. \A a \in Rank : stable_num[a][a] <= stable_num'[a][a] /\ stable_num'[a][a] \in Int
  <2> SUFFICES ASSUME NEW a \in Rank
               PROVE  stable_num[a][a] <= stable_num'[a][a] /\ stable_num'[a][a] \in Int
    OBVIOUS
  <2>1. stable_num[a][a] \in Int /\ stable_num[i][i] \in Int /\ seq_num[i][j] \in Int
    BY ColumnType DEF IInv
  <2> QED
    BY <1>1, <1>2, <2>1
<1>4. CopiesTrail'
  <2> SUFFICES ASSUME NEW a \in Rank, NEW b \in Rank
               PROVE  stable_num'[a][b] <= stable_num'[b][b]
    BY DEF IInv, Promises, CopiesTrail, StabilityTrig
  <2>1. /\ stable_num[a][b] <= stable_num[b][b]
        /\ stable_num[a][b] \in Int /\ stable_num[b][b] \in Int
    BY ColumnType DEF IInv, Promises, CopiesTrail
  <2>2. CASE a = b
    BY <1>3, <2>2
  <2>3. CASE a # b
    BY <1>2, <1>3, <2>1, <2>3
  <2> QED
    BY <2>2, <2>3
<1>5. StableNumCorrect'
  <2> SUFFICES ASSUME NEW a \in Rank, NEW b \in Rank
               PROVE  stable_num'[a][a] <= seq_num[b][b]
    BY DEF StableNumCorrect, StabilityTrig
  <2>1. CASE a = i
    <3>1. seq_num[i][j] <= seq_num[i][b] /\ seq_num[i][b] <= seq_num[b][b]
      BY <1>1 DEF SmallestSeqNum, IInv, Promises, CopiesTrail
    <3>2. seq_num[i][j] \in Int /\ seq_num[i][b] \in Int /\ seq_num[b][b] \in Int
      BY ColumnType DEF IInv
    <3> QED
      BY <1>2, <2>1, <3>1, <3>2
  <2>2. CASE a # i
    BY <1>2, <2>2 DEF IInv, Promises, StableNumCorrect
  <2> QED
    BY <2>1, <2>2
<1>6. DeliveredIsKnownStable'
  <2> SUFFICES ASSUME NEW a \in Rank, NEW b \in Rank
               PROVE  delivered_num[a][a] <= stable_num'[b][b]
    BY DEF DeliveredIsKnownStable, StabilityTrig
  <2>1. /\ delivered_num[a][a] <= stable_num[b][b]
        /\ delivered_num[a][a] \in Int /\ stable_num[b][b] \in Int
    BY ColumnType DEF IInv, Promises, DeliveredIsKnownStable
  <2> QED
    BY <1>3, <2>1
<1> QED
    BY <1>4, <1>5, <1>6 DEF IInv, Promises, SeqNumBeforeGaps, OwnMessages, Filed,
       DeliveredIsReceived, StabilityTrig, sendVars, messageVars

\* The delivery predicate: a message that every member has announced to be
\* stable has been counted by every member.
LEMMA DeliveryTrigSafe ==
    ASSUME IInv, NEW i \in Rank, DeliveryTrig(i)
    PROVE  Promises'
<1>1. PICK e \in locally_stable_messages[i] :
          /\ StableEverywhere(i, e.seq)
          /\ deliver_message(i, e.msg)
          /\ delivered_num' = [delivered_num EXCEPT ![i][i] = e.seq]
          /\ locally_stable_messages' =
                 [locally_stable_messages EXCEPT ![i] = @ \ {e}]
    BY DEF DeliveryTrig
<1> DEFINE k == e.msg.sender_rank
<1>2. e.seq \in Int /\ e.msg \in Message
    BY DEF IInv, TypeOK, Entry
<1>3. k \in Rank /\ e.msg.index \in Int
    BY <1>2 DEF Message
<1>4. \A j \in Rank : e.seq <= stable_num[j][j]
  <2> SUFFICES ASSUME NEW j \in Rank
               PROVE  e.seq <= stable_num[j][j]
    OBVIOUS
  <2>1. e.seq <= stable_num[i][j] /\ stable_num[i][j] <= stable_num[j][j]
    BY <1>1 DEF StableEverywhere, IInv, Promises, CopiesTrail
  <2>2. stable_num[i][j] \in Int /\ stable_num[j][j] \in Int
    BY ColumnType DEF IInv
  <2> QED
    BY <1>2, <2>1, <2>2
<1>5. \A j \in Rank : e.msg.index <= nReceived[j][k]
  <2> SUFFICES ASSUME NEW j \in Rank
               PROVE  e.msg.index <= nReceived[j][k]
    OBVIOUS
  <2>1. /\ SeqNum(k, e.msg.index) <= e.seq
        /\ e.seq <= stable_num[j][j]
        /\ stable_num[j][j] <= seq_num[j][j]
        /\ seq_num[j][j] < SeqNum(k, nReceived[j][k] + 1)
    BY <1>3, <1>4 DEF IInv, Promises, Filed, FiledNotBelow, StableNumCorrect, SeqNumBeforeGaps
  <2>2. nReceived[j][k] \in Int /\ stable_num[j][j] \in Int /\ seq_num[j][j] \in Int
    BY <1>3, ColumnType DEF IInv
  <2>3. SeqNum(k, e.msg.index) \in Int /\ SeqNum(k, nReceived[j][k] + 1) \in Int
    BY <1>3, <2>2, SeqNumInt
  <2>4. SeqNum(k, e.msg.index) < SeqNum(k, nReceived[j][k] + 1)
    BY <1>2, <2>1, <2>2, <2>3
  <2>5. e.msg.index < nReceived[j][k] + 1
    BY <1>3, <2>2, <2>4, SeqNumReflectsOrder
  <2> QED
    BY <1>3, <2>2, <2>5
<1>6. DeliveredIsKnownStable'
  <2> SUFFICES ASSUME NEW a \in Rank, NEW b \in Rank
               PROVE  delivered_num'[a][a] <= stable_num[b][b]
    BY DEF DeliveredIsKnownStable, DeliveryTrig
  <2>1. CASE a = i
    BY <1>1, <1>4, <2>1 DEF IInv, TypeOK
  <2>2. CASE a # i
    BY <1>1, <2>2 DEF IInv, Promises, TypeOK, DeliveredIsKnownStable
  <2> QED
    BY <2>1, <2>2
<1>7. DeliveredIsReceived'
  <2>1. \/ delivered' = delivered
        \/ delivered' = [delivered EXCEPT ![i] = Append(@, UpcallOf(e.msg))]
    BY <1>1 DEF deliver_message
  <2>2. CASE delivered' = delivered
    BY <2>2 DEF IInv, Promises, DeliveredIsReceived, DeliveryTrig
  <2>3. CASE delivered' = [delivered EXCEPT ![i] = Append(@, UpcallOf(e.msg))]
    <3> SUFFICES ASSUME NEW a \in Rank, NEW b \in Rank, NEW n \in 1 .. Len(delivered'[a])
                 PROVE  delivered'[a][n].index <= nReceived[b][delivered'[a][n].sender_rank]
      BY DEF DeliveredIsReceived, DeliveryTrig
    <3>1. CASE a # i
      BY <2>3, <3>1 DEF IInv, Promises, TypeOK, DeliveredIsReceived
    <3>2. CASE a = i
      <4>1. delivered[i] \in Seq(Upcall) /\ UpcallOf(e.msg) \in Upcall
        BY <1>2 DEF IInv, TypeOK, UpcallOf, Upcall, Message
      <4>2. delivered'[i] = Append(delivered[i], UpcallOf(e.msg))
        BY <2>3 DEF IInv, TypeOK
      <4>3. n \in 1 .. Len(delivered[i]) \/ n = Len(delivered[i]) + 1
        BY <3>2, <4>1, <4>2
      <4>4. CASE n \in 1 .. Len(delivered[i])
        <5>1. delivered'[a][n] = delivered[i][n]
          BY <3>2, <4>1, <4>2, <4>4
        <5> QED
          BY <3>2, <4>4, <5>1 DEF IInv, Promises, DeliveredIsReceived
      <4>5. CASE n = Len(delivered[i]) + 1
        <5>1. delivered'[a][n] = UpcallOf(e.msg)
          BY <3>2, <4>1, <4>2, <4>5
        <5>2. delivered'[a][n].index = e.msg.index /\ delivered'[a][n].sender_rank = k
          BY <5>1 DEF UpcallOf
        <5> QED
          BY <1>5, <5>2
      <4> QED
        BY <4>3, <4>4, <4>5
    <3> QED
      BY <3>1, <3>2
  <2> QED
    BY <2>1, <2>2, <2>3
<1>8. \A a \in Rank : locally_stable_messages'[a] \subseteq locally_stable_messages[a]
    BY <1>1 DEF IInv, TypeOK
<1>9. Filed'
    BY <1>8 DEF IInv, Promises, Filed, FiledNotBelow, DeliveryTrig
<1> QED
    BY <1>6, <1>7, <1>9 DEF IInv, Promises, CopiesTrail, SeqNumBeforeGaps,
       StableNumCorrect, OwnMessages, DeliveryTrig, sendVars

\* What Copied does to a column.
LEMMA CopiedValue ==
    ASSUME NEW x \in [Rank -> [Rank -> Number]], NEW i \in Rank, NEW j \in Rank
    PROVE  /\ Copied(x, i, j)[i][j] = x[j][j]
           /\ \A a, b \in Rank : a # i \/ b # j => Copied(x, i, j)[a][b] = x[a][b]
BY DEF Copied

\* A column arrives: the copy of another member's row becomes that row.
LEMMA ArrivalSafe ==
    ASSUME IInv, NEW i \in Rank, NEW j \in Rank,
           SeqNumArrives(i, j) \/ StableNumArrives(i, j) \/ DeliveredNumArrives(i, j)
    PROVE  Promises'
<1>1. i # j
    BY DEF SeqNumArrives, StableNumArrives, DeliveredNumArrives
<1>2. /\ \A a, b \in Rank : a # i \/ b # j => seq_num'[a][b] = seq_num[a][b]
      /\ seq_num'[i][j] \in {seq_num[i][j], seq_num[j][j]}
      /\ \A a, b \in Rank : a # i \/ b # j => stable_num'[a][b] = stable_num[a][b]
      /\ stable_num'[i][j] \in {stable_num[i][j], stable_num[j][j]}
      /\ \A a, b \in Rank : a # i \/ b # j => delivered_num'[a][b] = delivered_num[a][b]
  <2>1. /\ \A a, b \in Rank : a # i \/ b # j => seq_num'[a][b] = seq_num[a][b]
        /\ seq_num'[i][j] \in {seq_num[i][j], seq_num[j][j]}
    <3>1. seq_num \in [Rank -> [Rank -> Number]]
      BY DEF IInv, TypeOK
    <3>2. seq_num' = seq_num \/ seq_num' = Copied(seq_num, i, j)
      BY DEF SeqNumArrives, StableNumArrives, DeliveredNumArrives
    <3>3. CASE seq_num' = seq_num
      BY <3>3
    <3>4. CASE seq_num' = Copied(seq_num, i, j)
      BY <3>1, <3>4, CopiedValue
    <3> QED
      BY <3>2, <3>3, <3>4
  <2>2. /\ \A a, b \in Rank : a # i \/ b # j => stable_num'[a][b] = stable_num[a][b]
        /\ stable_num'[i][j] \in {stable_num[i][j], stable_num[j][j]}
    <3>1. stable_num \in [Rank -> [Rank -> Number]]
      BY DEF IInv, TypeOK
    <3>2. stable_num' = stable_num \/ stable_num' = Copied(stable_num, i, j)
      BY DEF SeqNumArrives, StableNumArrives, DeliveredNumArrives
    <3>3. CASE stable_num' = stable_num
      BY <3>3
    <3>4. CASE stable_num' = Copied(stable_num, i, j)
      BY <3>1, <3>4, CopiedValue
    <3> QED
      BY <3>2, <3>3, <3>4
  <2>3. /\ \A a, b \in Rank : a # i \/ b # j => delivered_num'[a][b] = delivered_num[a][b]
        /\ delivered_num'[i][j] \in {delivered_num[i][j], delivered_num[j][j]}
    <3>1. delivered_num \in [Rank -> [Rank -> Number]]
      BY DEF IInv, TypeOK
    <3>2. delivered_num' = delivered_num \/ delivered_num' = Copied(delivered_num, i, j)
      BY DEF SeqNumArrives, StableNumArrives, DeliveredNumArrives
    <3>3. CASE delivered_num' = delivered_num
      BY <3>3
    <3>4. CASE delivered_num' = Copied(delivered_num, i, j)
      BY <3>1, <3>4, CopiedValue
    <3> QED
      BY <3>2, <3>3, <3>4
  <2> QED
    BY <2>1, <2>2, <2>3
<1>3. \A a \in Rank : /\ seq_num'[a][a] = seq_num[a][a]
                      /\ stable_num'[a][a] = stable_num[a][a]
                      /\ delivered_num'[a][a] = delivered_num[a][a]
    BY <1>1, <1>2
<1>4. CopiesTrail'
  <2> SUFFICES ASSUME NEW a \in Rank, NEW b \in Rank
               PROVE  seq_num'[a][b] <= seq_num'[b][b] /\ stable_num'[a][b] <= stable_num'[b][b]
    BY DEF CopiesTrail
  <2>1. /\ seq_num[a][b] <= seq_num[b][b] /\ stable_num[a][b] <= stable_num[b][b]
        /\ seq_num[b][b] <= seq_num[b][b] /\ stable_num[b][b] <= stable_num[b][b]
    BY DEF IInv, Promises, CopiesTrail
  <2> QED
    BY <1>2, <1>3, <2>1
<1>5. UNCHANGED <<nReceived, next_send, pending_sends, current_send, current_receives,
                  locally_stable_messages, delivered>>
    BY DEF SeqNumArrives, StableNumArrives, DeliveredNumArrives, sendVars, messageVars
<1>6. SeqNumBeforeGaps' /\ StableNumCorrect' /\ DeliveredIsKnownStable'
    BY <1>3, <1>5 DEF IInv, Promises, SeqNumBeforeGaps, StableNumCorrect, DeliveredIsKnownStable
<1>7. OwnMessages' /\ Filed' /\ DeliveredIsReceived'
    BY <1>5 DEF IInv, Promises, OwnMessages, Filed, DeliveredIsReceived
<1> QED
    BY <1>4, <1>6, <1>7 DEF Promises

\* Every step keeps the invariant.
LEMMA InvariantStep == IInv /\ [Next]_vars => IInv'
<1> SUFFICES ASSUME IInv, [Next]_vars
             PROVE  IInv'
    OBVIOUS
<1>1. TypeOK'
    BY TypeStep DEF IInv
<1>2. ASSUME NEW i \in Rank, NEW turns \in 0 .. MaxPause, GetPosition(i, turns)
      PROVE  Promises'
    BY <1>2, GetPositionSafe
<1>3. ASSUME NEW i \in Rank, Send(i)
      PROVE  Promises'
    BY <1>3, SendSafe
<1>4. ASSUME NEW i \in Rank, SenderStep(i)
      PROVE  Promises'
    BY <1>4, SenderStepSafe
<1>5. ASSUME NEW i \in Rank, NEW k \in Rank, RdmcIncoming(i, k)
      PROVE  Promises'
    BY <1>5, RdmcIncomingSafe
<1>6. ASSUME NEW i \in Rank, NEW k \in Rank, RdmcReceive(i, k)
      PROVE  Promises'
    BY <1>6, RdmcReceiveSafe
<1>7. ASSUME NEW i \in Rank, OwnReceive(i)
      PROVE  Promises'
    BY <1>7, OwnReceiveSafe
<1>8. ASSUME NEW i \in Rank, StabilityTrig(i)
      PROVE  Promises'
    BY <1>8, StabilityTrigSafe
<1>9. ASSUME NEW i \in Rank, DeliveryTrig(i)
      PROVE  Promises'
    BY <1>9, DeliveryTrigSafe
<1>10. ASSUME NEW i \in Rank, FileWritten(i)
       PROVE  Promises'
    BY <1>10, NothingDisturbed DEF FileWritten, sendVars
<1>11. ASSUME NEW i \in Rank, NEW j \in Rank,
              SeqNumArrives(i, j) \/ StableNumArrives(i, j) \/ DeliveredNumArrives(i, j)
       PROVE  Promises'
    BY <1>11, ArrivalSafe
<1>12. ASSUME NEW i \in Rank, NEW j \in Rank, PersistedNumArrives(i, j)
       PROVE  Promises'
    BY <1>12, NothingDisturbed DEF PersistedNumArrives, sendVars, messageVars
<1>13. ASSUME NEW i \in Rank, Wedge(i)
       PROVE  Promises'
    BY <1>13, NothingDisturbed DEF Wedge, WedgeStep, sstVars, sendVars, messageVars
<1>14. ASSUME UNCHANGED vars
       PROVE  Promises'
  <2>1. UNCHANGED <<nReceived, seq_num, stable_num, delivered_num, next_send,
                    pending_sends, current_send, current_receives,
                    locally_stable_messages, delivered>>
    BY <1>14 DEF vars, sstVars, sendVars, messageVars
  <2> QED
    BY <2>1, NothingDisturbed
<1>15. Promises'
    BY <1>2, <1>3, <1>4, <1>5, <1>6, <1>7, <1>8, <1>9, <1>10, <1>11, <1>12, <1>13,
       <1>14 DEF Next
<1> QED
    BY <1>1, <1>15 DEF IInv

\* The invariant holds before the first message.
LEMMA InvariantInit == Init => IInv
<1> SUFFICES ASSUME Init
             PROVE  IInv
    OBVIOUS
<1>1. TypeOK
    BY TypeInit
<1>2. SeqNumBeforeGaps
  <2> SUFFICES ASSUME NEW i \in Rank, NEW k \in Rank
               PROVE  -1 < SeqNum(k, 0)
    BY DEF Init, initialize_sst_row, SeqNumBeforeGaps
  <2>1. N \in Nat /\ k \in Nat
    BY RankType
  <2> QED
    BY <2>1 DEF SeqNum
<1>3. CopiesTrail /\ StableNumCorrect /\ DeliveredIsKnownStable
    BY DEF Init, initialize_sst_row, CopiesTrail, StableNumCorrect, DeliveredIsKnownStable
<1>4. OwnMessages /\ Filed /\ DeliveredIsReceived
    BY DEF Init, OwnMessages, Filed, DeliveredIsReceived
<1> QED
    BY <1>1, <1>2, <1>3, <1>4 DEF IInv, Promises

(***************************************************************************)
(* The theorems.                                                           *)
(***************************************************************************)
\* The columns always keep their promises.
THEOREM InvariantCorrect == Spec => []IInv
<1> QED
    BY InvariantInit, InvariantStep, PTL DEF Spec

\* A number that seq_num has passed is not that of a missing message.
LEMMA SeqNumIsCorrect == IInv => SeqNumCorrect
<1> SUFFICES ASSUME IInv, NEW i \in Rank, NEW k \in Rank, NEW idx \in Index,
                    SeqNum(k, idx) <= seq_num[i][i]
             PROVE  idx <= nReceived[i][k]
    BY DEF SeqNumCorrect
<1>1. idx \in Int /\ nReceived[i][k] \in Int /\ seq_num[i][i] \in Int
    BY ColumnType DEF IInv, Index
<1>2. SeqNum(k, idx) \in Int /\ SeqNum(k, nReceived[i][k] + 1) \in Int
    BY <1>1, SeqNumInt
<1>3. seq_num[i][i] < SeqNum(k, nReceived[i][k] + 1)
    BY DEF IInv, Promises, SeqNumBeforeGaps
<1>4. SeqNum(k, idx) < SeqNum(k, nReceived[i][k] + 1)
    BY <1>1, <1>2, <1>3
<1>5. idx < nReceived[i][k] + 1
    BY <1>1, <1>4, SeqNumReflectsOrder
<1> QED
    BY <1>1, <1>5

\* derecho_row.h:24: whoever announces seq_num has received every message up
\* to it in the round-robin order, so seq_num never jumps over a gap.
THEOREM SeqNumSafety == Spec => []SeqNumCorrect
<1> QED
    BY SeqNumIsCorrect, InvariantCorrect, PTL

\* derecho_row.h:28: whoever announces stable_num is right about all members,
\* although it has only seen copies of their rows.
THEOREM StableNumSafety == Spec => []StableNumCorrect
<1>1. IInv => StableNumCorrect
    BY DEF IInv, Promises
<1> QED
    BY <1>1, InvariantCorrect, PTL

\* Nothing is delivered anywhere before every member has announced that it is
\* stable.
THEOREM KnownStableSafety == Spec => []DeliveredIsKnownStable
<1>1. IInv => DeliveredIsKnownStable
    BY DEF IInv, Promises
<1> QED
    BY <1>1, InvariantCorrect, PTL

\* A message that was handed to one application has been received by every
\* member: no failure of fewer than all members can lose it.
THEOREM DeliverySafety == Spec => []DeliveredIsReceived
<1>1. IInv => DeliveredIsReceived
    BY DEF IInv, Promises
<1> QED
    BY <1>1, InvariantCorrect, PTL

-----------------------------------------------------------------------------
(***************************************************************************)
(* Numbers: the inductive invariant.  A sender's messages form a chain,    *)
(* each with the number that follows the turns skipped by the one before   *)
(* it, from the next number a receiver will count to the next number       *)
(* get_position will give out.                                             *)
(***************************************************************************)
After(m) == m.body + m.pause + 1

\* q is a part of the chain that begins at first and ends before next.
Leads(q, first, next) ==
    /\ \A n \in 1 .. Len(q) - 1 : q[n + 1].body = After(q[n])
    /\ q = <<>> => first = next
    /\ q # <<>> => q[1].body = first /\ After(q[Len(q)]) = next

\* What the sender still has: handed[k] is the next number for RDMC, queued[k]
\* the next number for the queue.
SenderChain(handed, queued, k) ==
    /\ \A m \in current_send[k] : m.body = nReceived[k][k] + 1 /\ After(m) = handed[k]
    /\ current_send[k] = {} => nReceived[k][k] + 1 = handed[k]
    /\ Leads(pending_sends[k], handed[k], queued[k])
    /\ \A m \in next_send[k] : m.body = queued[k] /\ After(m) = future_message_index[k]
    /\ next_send[k] = {} => future_message_index[k] = queued[k]

\* What RDMC has for receiver i.
ReceiverChain(handed, i, k) ==
    /\ \A e \in current_receives[i] : e.msg.sender_rank = k =>
           /\ e.msg.body = nReceived[i][k] + 1
           /\ Leads(inflight[k][i], After(e.msg), handed[k])
    /\ (\A e \in current_receives[i] : e.msg.sender_rank # k)
           => Leads(inflight[k][i], nReceived[i][k] + 1, handed[k])

Chained(handed, queued) ==
    /\ \A k \in Rank : SenderChain(handed, queued, k)
    /\ \A i, k \in Rank : i # k => ReceiverChain(handed, i, k)

\* A sender's own messages have the numbers it gave them.
OwnNumbers ==
    \A k \in Rank :
        /\ \A m \in next_send[k] : m.index = m.body
        /\ \A n \in 1 .. Len(pending_sends[k]) :
               pending_sends[k][n].index = pending_sends[k][n].body
        /\ \A m \in current_send[k] : m.index = m.body

\* RDMC delivers the messages of one sender one at a time.
OneReceive ==
    \A i \in Rank : \A e, f \in current_receives[i] :
        e.msg.sender_rank = f.msg.sender_rank => e = f

\* A message filed under the number its sender gave it.
Numbered(e) ==
    e.msg.index = e.msg.body /\ e.seq = SeqNum(e.msg.sender_rank, e.msg.body)

Orderly ==
    /\ NumberingAgrees
    /\ OwnNumbers
    /\ OneReceive
    /\ \E handed, queued \in [Rank -> Int] : Chained(handed, queued)

OInv == IInv /\ Orderly

(***************************************************************************)
(* Chains and numbers.                                                     *)
(***************************************************************************)
\* Two messages have the same sequence number only if they are the same.
LEMMA SeqNumInjective ==
    ASSUME NEW k \in Rank, NEW j \in Rank, NEW a \in Int, NEW b \in Int,
           SeqNum(k, a) = SeqNum(j, b)
    PROVE  k = j /\ a = b
<1>1. ASSUME NEW k1 \in Rank, NEW k2 \in Rank, NEW x \in Int, NEW y \in Int, x < y
      PROVE  SeqNum(k1, x) < SeqNum(k2, y)
  <2>1. N \in Nat /\ k1 \in 0 .. N - 1 /\ k2 \in 0 .. N - 1
    BY RankType DEF Rank
  <2>2. (x + 1) * N <= y * N
    BY <1>1, <2>1, TimesKeepsOrder
  <2>3. (x + 1) * N = x * N + N /\ x * N \in Int /\ y * N \in Int
    BY <2>1
  <2> QED
    BY <2>1, <2>2, <2>3 DEF SeqNum
<1>2. SeqNum(k, a) \in Int /\ SeqNum(j, b) \in Int
    BY SeqNumInt
<1>3. ~ (a < b) /\ ~ (b < a)
    BY <1>1, <1>2
<1>4. a = b
    BY <1>3
<1>5. N \in Nat /\ k \in Nat /\ j \in Nat /\ a * N \in Int
    BY RankType
<1> QED
    BY <1>4, <1>5 DEF SeqNum

\* The number after a message is an integer.
LEMMA AfterType ==
    ASSUME NEW m \in Message
    PROVE  After(m) \in Int
BY BoundsAssumption DEF Message, After

\* Adding the next message at the end of a chain.
LEMMA LeadsAppend ==
    ASSUME NEW q \in Seq(Message), NEW m \in Message, NEW first \in Int, NEW next \in Int,
           Leads(q, first, next), m.body = next
    PROVE  Leads(Append(q, m), first, After(m))
<1> DEFINE p == Append(q, m)
<1>1. /\ p \in Seq(Message) /\ Len(p) = Len(q) + 1 /\ p[Len(q) + 1] = m /\ p # <<>>
      /\ \A n \in 1 .. Len(q) : p[n] = q[n]
      /\ Len(q) \in Nat /\ (q = <<>> <=> Len(q) = 0)
    OBVIOUS
<1> HIDE DEF p
<1>2. ASSUME NEW n \in 1 .. Len(p) - 1
      PROVE  p[n + 1].body = After(p[n])
  <2>1. CASE n = Len(q)
    <3>1. p[n + 1] = m /\ p[n] = q[Len(q)] /\ q # <<>>
      BY <1>1, <2>1
    <3> QED
      BY <3>1 DEF Leads
  <2>2. CASE n \in 1 .. Len(q) - 1
    <3>1. p[n] = q[n] /\ p[n + 1] = q[n + 1]
      BY <1>1, <2>2
    <3> QED
      BY <2>2, <3>1 DEF Leads
  <2> QED
    BY <1>1, <2>1, <2>2
<1>3. p[1].body = first
  <2>1. CASE q = <<>>
    BY <1>1, <2>1 DEF Leads
  <2>2. CASE q # <<>>
    BY <1>1, <2>2 DEF Leads
  <2> QED
    BY <2>1, <2>2
<1>4. After(p[Len(p)]) = After(m)
    BY <1>1
<1>5. Leads(p, first, After(m))
    BY <1>1, <1>2, <1>3, <1>4 DEF Leads
<1> QED
    BY <1>5 DEF p

\* Taking the first message from a chain.
LEMMA LeadsTail ==
    ASSUME NEW q \in Seq(Message), NEW first \in Int, NEW next \in Int,
           Leads(q, first, next), q # <<>>
    PROVE  Head(q).body = first /\ Leads(Tail(q), After(Head(q)), next)
<1> DEFINE p == Tail(q)
<1>1. /\ p \in Seq(Message) /\ Len(p) = Len(q) - 1 /\ Head(q) = q[1]
      /\ \A n \in 1 .. Len(p) : p[n] = q[n + 1]
      /\ Len(q) \in Nat
  <2>1. Len(q) \in Nat /\ Head(q) = q[1]
    OBVIOUS
  <2>2. p \in Seq(Message) /\ Len(p) = Len(q) - 1
    OBVIOUS
  <2>3. \A n \in 1 .. Len(p) : p[n] = q[n + 1]
    OBVIOUS
  <2> QED
    BY <2>1, <2>2, <2>3
<1>2. Len(q) > 0 /\ (p = <<>> <=> Len(q) = 1)
  <2>1. Len(q) # 0
    OBVIOUS
  <2> HIDE DEF p
  <2>2. p = <<>> <=> Len(p) = 0
    BY <1>1
  <2> QED
    BY <1>1, <2>1, <2>2
<1> HIDE DEF p
<1>3. ASSUME NEW n \in 1 .. Len(p) - 1
      PROVE  p[n + 1].body = After(p[n])
  <2>1. p[n] = q[n + 1] /\ p[n + 1] = q[n + 1 + 1] /\ n + 1 \in 1 .. Len(q) - 1
    BY <1>1
  <2> QED
    BY <2>1 DEF Leads
<1>4. p = <<>> => After(Head(q)) = next
    BY <1>1, <1>2 DEF Leads
<1>5. ASSUME p # <<>>
      PROVE  p[1].body = After(Head(q)) /\ After(p[Len(p)]) = next
  <2>1. p[1] = q[1 + 1] /\ 1 \in 1 .. Len(q) - 1 /\ p[Len(p)] = q[Len(q)]
    BY <1>1, <1>5, <1>2
  <2> QED
    BY <1>1, <2>1 DEF Leads
<1>6. Leads(p, After(Head(q)), next)
    BY <1>3, <1>4, <1>5 DEF Leads
<1>7. Head(q).body = first
    BY <1>1 DEF Leads
<1> QED
    BY <1>6, <1>7 DEF p

(***************************************************************************)
(* The parts of the chain that a step leaves alone.                        *)
(***************************************************************************)
\* What a sender has does not change when the step is about something else.
LEMMA SenderKept ==
    ASSUME NEW h \in [Rank -> Int], NEW q \in [Rank -> Int],
           NEW h2 \in [Rank -> Int], NEW q2 \in [Rank -> Int], NEW k \in Rank,
           SenderChain(h, q, k), h2[k] = h[k], q2[k] = q[k],
           nReceived'[k][k] = nReceived[k][k], current_send'[k] = current_send[k],
           pending_sends'[k] = pending_sends[k], next_send'[k] = next_send[k],
           future_message_index'[k] = future_message_index[k]
    PROVE  SenderChain(h2, q2, k)'
BY DEF SenderChain

\* Nor does what RDMC has for a receiver, when the step is about other senders.
LEMMA ReceiverKept ==
    ASSUME NEW h \in [Rank -> Int], NEW h2 \in [Rank -> Int],
           NEW i \in Rank, NEW k \in Rank,
           ReceiverChain(h, i, k), h2[k] = h[k],
           nReceived'[i][k] = nReceived[i][k], inflight'[k][i] = inflight[k][i],
           \A e \in current_receives'[i] :
               e.msg.sender_rank = k => e \in current_receives[i],
           \A e \in current_receives[i] :
               e.msg.sender_rank = k => e \in current_receives'[i]
    PROVE  ReceiverChain(h2, i, k)'
BY DEF ReceiverChain

\* The numbers stay right if whatever is filed anew has the right one.
LEMMA NumberingKept ==
    ASSUME NumberingAgrees, delivered' = delivered,
           \A a \in Rank : \A e \in current_receives'[a] :
               e \in current_receives[a] \/ Numbered(e),
           \A a \in Rank : \A e \in locally_stable_messages'[a] :
               \/ e \in locally_stable_messages[a]
               \/ Numbered(e),
           \A a \in Rank : non_persistent_messages'[a] \subseteq non_persistent_messages[a]
    PROVE  NumberingAgrees'
<1> SUFFICES ASSUME NEW a \in Rank
             PROVE  /\ \A e \in current_receives'[a] \cup locally_stable_messages'[a]
                                 \cup non_persistent_messages'[a] : Numbered(e)
                    /\ \A n \in 1 .. Len(delivered[a]) :
                           delivered[a][n].index = delivered[a][n].body
    BY DEF NumberingAgrees, Numbered
<1>1. \A e \in current_receives[a] \cup locally_stable_messages[a]
                \cup non_persistent_messages[a] : Numbered(e)
    BY DEF NumberingAgrees, Numbered
<1>2. \A n \in 1 .. Len(delivered[a]) : delivered[a][n].index = delivered[a][n].body
    BY DEF NumberingAgrees
<1> QED
    BY <1>1, <1>2

(***************************************************************************)
(* Every step keeps the order.                                             *)
(***************************************************************************)
\* A step that leaves all messages, and all counts, alone.
LEMMA OrderNotDisturbed ==
    ASSUME Orderly,
           UNCHANGED <<nReceived, sendVars, current_receives, locally_stable_messages,
                       non_persistent_messages, inflight, delivered>>
    PROVE  Orderly'
<1>1. NumberingAgrees' /\ OwnNumbers' /\ OneReceive'
    BY DEF Orderly, NumberingAgrees, OwnNumbers, OneReceive, sendVars
<1>2. PICK h, q \in [Rank -> Int] : Chained(h, q)
    BY DEF Orderly
<1>3. \A k \in Rank : SenderChain(h, q, k)'
    BY <1>2 DEF Chained, SenderChain, sendVars
<1>4. \A i, k \in Rank : i # k => ReceiverChain(h, i, k)'
    BY <1>2 DEF Chained, ReceiverChain
<1>5. Chained(h, q)'
    BY <1>3, <1>4 DEF Chained
<1> QED
    BY <1>1, <1>5 DEF Orderly

\* get_position gives the next number to the message it allocates.
LEMMA GetPositionOrder ==
    ASSUME OInv, NEW i \in Rank, NEW turns \in 0 .. MaxPause, GetPosition(i, turns)
    PROVE  Orderly'
<1> DEFINE m == [sender_rank |-> i, index |-> future_message_index[i], size |-> 1,
                 pause |-> turns, body |-> future_message_index[i]]
<1>1. PICK h, q \in [Rank -> Int] : Chained(h, q)
    BY DEF OInv, Orderly
<1>2. /\ next_send[i] = {} /\ next_send'[i] = {m}
      /\ future_message_index'[i] = NextTurn(future_message_index[i], turns)
      /\ \A k \in Rank \ {i} : /\ next_send'[k] = next_send[k]
                               /\ future_message_index'[k] = future_message_index[k]
    BY DEF GetPosition, OInv, IInv, TypeOK
<1>3. UNCHANGED <<nReceived, pending_sends, current_send, current_receives,
                  locally_stable_messages, non_persistent_messages, inflight, delivered>>
    BY DEF GetPosition, sstVars
<1>4. NumberingAgrees' /\ OneReceive'
    BY <1>3 DEF OInv, Orderly, NumberingAgrees, OneReceive
<1>5. m.index = m.body /\ m.body = future_message_index[i]
      /\ After(m) = future_message_index[i] + turns + 1
    BY DEF After
<1>6. OwnNumbers'
    BY <1>2, <1>3, <1>5 DEF OInv, Orderly, OwnNumbers
<1>7. SenderChain(h, q, i)'
  <2>1. SenderChain(h, q, i)
    BY <1>1 DEF Chained
  <2> QED
    BY <1>2, <1>3, <1>5, <2>1 DEF SenderChain, NextTurn
<1>8. \A k \in Rank : SenderChain(h, q, k)'
  <2> SUFFICES ASSUME NEW k \in Rank
               PROVE  SenderChain(h, q, k)'
    OBVIOUS
  <2>1. SenderChain(h, q, k)
    BY <1>1 DEF Chained
  <2>2. CASE k # i
    BY <1>2, <1>3, <2>1, <2>2, SenderKept
  <2> QED
    BY <1>7, <2>2
<1>9. \A a, k \in Rank : a # k => ReceiverChain(h, a, k)'
    BY <1>1, <1>3 DEF Chained, ReceiverChain
<1>10. Chained(h, q)'
    BY <1>8, <1>9 DEF Chained
<1> QED
    BY <1>4, <1>6, <1>10 DEF Orderly

\* send puts it at the end of the queue.
LEMMA SendOrder ==
    ASSUME OInv, NEW i \in Rank, Send(i)
    PROVE  Orderly'
<1>1. PICK h, q \in [Rank -> Int] : Chained(h, q)
    BY DEF OInv, Orderly
<1>2. PICK m \in next_send[i] : pending_sends' = [pending_sends EXCEPT ![i] = Append(@, m)]
    BY DEF Send
<1>3. /\ m \in Message /\ pending_sends[i] \in Seq(Message)
      /\ After(m) \in Int
  <2>1. m \in Message /\ pending_sends[i] \in Seq(Message)
    BY <1>2 DEF OInv, IInv, TypeOK
  <2> QED
    BY <2>1, AfterType
<1> DEFINE q2 == [q EXCEPT ![i] = After(m)]
<1>4. /\ q2 \in [Rank -> Int] /\ q2[i] = After(m)
      /\ \A k \in Rank \ {i} : q2[k] = q[k]
    BY <1>1, <1>3
<1> HIDE DEF q2
<1>5. /\ next_send'[i] = {} /\ pending_sends'[i] = Append(pending_sends[i], m)
      /\ \A k \in Rank \ {i} : /\ next_send'[k] = next_send[k]
                               /\ pending_sends'[k] = pending_sends[k]
    BY <1>2 DEF Send, OInv, IInv, TypeOK
<1>6. UNCHANGED <<nReceived, future_message_index, current_send, current_receives,
                  locally_stable_messages, non_persistent_messages, inflight, delivered>>
    BY DEF Send, sstVars, messageVars
<1>7. NumberingAgrees' /\ OneReceive'
    BY <1>6 DEF OInv, Orderly, NumberingAgrees, OneReceive
<1>8. OwnNumbers'
  <2> SUFFICES ASSUME NEW k \in Rank
               PROVE  /\ \A c \in next_send'[k] : c.index = c.body
                      /\ \A n \in 1 .. Len(pending_sends'[k]) :
                             pending_sends'[k][n].index = pending_sends'[k][n].body
                      /\ \A c \in current_send'[k] : c.index = c.body
    BY DEF OwnNumbers
  <2>1. /\ \A c \in next_send[k] : c.index = c.body
        /\ \A n \in 1 .. Len(pending_sends[k]) :
               pending_sends[k][n].index = pending_sends[k][n].body
        /\ \A c \in current_send[k] : c.index = c.body
    BY DEF OInv, Orderly, OwnNumbers
  <2>2. CASE k = i
    <3>1. m.index = m.body
      BY <1>2, <2>1, <2>2
    <3>2. \A n \in 1 .. Len(pending_sends'[i]) :
              \/ pending_sends'[i][n] = m
              \/ /\ n \in 1 .. Len(pending_sends[i])
                 /\ pending_sends'[i][n] = pending_sends[i][n]
      BY <1>3, <1>5
    <3> QED
      BY <1>5, <1>6, <2>1, <2>2, <3>1, <3>2
  <2>3. CASE k # i
    BY <1>5, <1>6, <2>1, <2>3
  <2> QED
    BY <2>2, <2>3
<1>9. SenderChain(h, q2, i)'
  <2>1. SenderChain(h, q, i)
    BY <1>1 DEF Chained
  <2>2. m.body = q[i] /\ After(m) = future_message_index[i]
        /\ Leads(pending_sends[i], h[i], q[i])
    BY <1>2, <2>1 DEF SenderChain
  <2>3. Leads(Append(pending_sends[i], m), h[i], After(m))
    BY <1>1, <1>3, <2>2, LeadsAppend
  <2> QED
    BY <1>4, <1>5, <1>6, <2>1, <2>2, <2>3 DEF SenderChain
<1>10. \A k \in Rank : SenderChain(h, q2, k)'
  <2> SUFFICES ASSUME NEW k \in Rank
               PROVE  SenderChain(h, q2, k)'
    OBVIOUS
  <2>1. SenderChain(h, q, k)
    BY <1>1 DEF Chained
  <2>2. CASE k # i
    BY <1>1, <1>4, <1>5, <1>6, <2>1, <2>2, SenderKept
  <2> QED
    BY <1>9, <2>2
<1>11. \A a, k \in Rank : a # k => ReceiverChain(h, a, k)'
    BY <1>1, <1>6 DEF Chained, ReceiverChain
<1>12. Chained(h, q2)'
    BY <1>10, <1>11 DEF Chained
<1> QED
    BY <1>4, <1>7, <1>8, <1>12 DEF Orderly

\* The sender thread hands the first message of the queue to RDMC: it has the
\* number that the receivers count next, because the last one has been counted.
LEMMA SenderStepOrder ==
    ASSUME OInv, NEW i \in Rank, SenderStep(i)
    PROVE  Orderly'
<1>1. PICK h, q \in [Rank -> Int] : Chained(h, q)
    BY DEF OInv, Orderly
<1>2. SenderChain(h, q, i)
    BY <1>1 DEF Chained
<1>3. pending_sends[i] # <<>> /\ pending_sends[i] \in Seq(Message)
    BY DEF SenderStep, should_send, OInv, IInv, TypeOK
<1>4. PICK m \in Message : m = Head(pending_sends[i])
  <2>1. Head(pending_sends[i]) \in Message
    BY <1>3
  <2> QED
    BY <2>1
<1>5. /\ m = pending_sends[i][1] /\ 1 \in 1 .. Len(pending_sends[i]) /\ m \in Message
      /\ Tail(pending_sends[i]) \in Seq(Message)
      /\ \A n \in 1 .. Len(Tail(pending_sends[i])) :
             /\ n + 1 \in 1 .. Len(pending_sends[i])
             /\ Tail(pending_sends[i])[n] = pending_sends[i][n + 1]
  <2>1. m = pending_sends[i][1] /\ 1 \in 1 .. Len(pending_sends[i])
    BY <1>3, <1>4
  <2>2. m \in Message /\ Tail(pending_sends[i]) \in Seq(Message)
    BY <1>3
  <2>3. \A n \in 1 .. Len(Tail(pending_sends[i])) :
            /\ n + 1 \in 1 .. Len(pending_sends[i])
            /\ Tail(pending_sends[i])[n] = pending_sends[i][n + 1]
    BY <1>3
  <2> QED
    BY <2>1, <2>2, <2>3
<1>6. m.body = h[i] /\ Leads(Tail(pending_sends[i]), After(m), q[i])
    BY <1>1, <1>2, <1>3, <1>4, LeadsTail DEF SenderChain
<1>7. m.index = m.body /\ nReceived[i][i] >= m.index - 1
    BY <1>5, <1>4 DEF SenderStep, should_send, PreviousSendDone, OInv, Orderly, OwnNumbers
<1>8. current_send[i] = {} /\ m.body = nReceived[i][i] + 1
  <2>1. nReceived[i][i] \in Int /\ h[i] \in Int
    BY <1>1, ColumnType DEF OInv, IInv
  <2>2. ASSUME NEW c \in current_send[i]
        PROVE  FALSE
    <3>1. c.body = nReceived[i][i] + 1 /\ c.body + c.pause + 1 = h[i]
      BY <1>2 DEF SenderChain, After
    <3>2. c.pause \in Nat
      BY BoundsAssumption DEF OInv, IInv, TypeOK, Message
    <3> QED
      BY <1>6, <1>7, <2>1, <3>1, <3>2
  <2>3. current_send[i] = {}
    BY <2>2
  <2> QED
    BY <1>2, <1>6, <2>3 DEF SenderChain
<1>9. After(m) \in Int
    BY <1>5, AfterType
<1> DEFINE h2 == [h EXCEPT ![i] = After(m)]
<1>10. h2 \in [Rank -> Int] /\ h2[i] = After(m) /\ \A k \in Rank \ {i} : h2[k] = h[k]
    BY <1>1, <1>9
<1> HIDE DEF h2
<1>11. /\ current_send'[i] = {m} /\ pending_sends'[i] = Tail(pending_sends[i])
       /\ \A k \in Rank \ {i} : /\ current_send'[k] = current_send[k]
                                /\ pending_sends'[k] = pending_sends[k]
                                /\ inflight'[k] = inflight[k]
       /\ \A a \in Rank \ {i} : inflight'[i][a] = Append(inflight[i][a], m)
    BY <1>4 DEF SenderStep, OInv, IInv, TypeOK
<1>12. UNCHANGED <<nReceived, future_message_index, next_send, current_receives,
                   locally_stable_messages, non_persistent_messages, delivered>>
    BY DEF SenderStep, sstVars, messageVars
<1>13. NumberingAgrees' /\ OneReceive'
    BY <1>12 DEF OInv, Orderly, NumberingAgrees, OneReceive
<1>14. OwnNumbers'
  <2> SUFFICES ASSUME NEW k \in Rank
               PROVE  /\ \A c \in next_send'[k] : c.index = c.body
                      /\ \A n \in 1 .. Len(pending_sends'[k]) :
                             pending_sends'[k][n].index = pending_sends'[k][n].body
                      /\ \A c \in current_send'[k] : c.index = c.body
    BY DEF OwnNumbers
  <2>1. /\ \A c \in next_send[k] : c.index = c.body
        /\ \A n \in 1 .. Len(pending_sends[k]) :
               pending_sends[k][n].index = pending_sends[k][n].body
        /\ \A c \in current_send[k] : c.index = c.body
    BY DEF OInv, Orderly, OwnNumbers
  <2>2. CASE k = i
    <3>1. ASSUME NEW n \in 1 .. Len(pending_sends'[i])
          PROVE  pending_sends'[i][n].index = pending_sends'[i][n].body
      <4>1. pending_sends'[i] = Tail(pending_sends[i])
        BY <1>11
      <4>2. /\ n + 1 \in 1 .. Len(pending_sends[i])
            /\ pending_sends'[i][n] = pending_sends[i][n + 1]
        BY <1>5, <4>1
      <4> QED
        BY <2>1, <2>2, <4>2
    <3> QED
      BY <1>7, <1>11, <1>12, <2>1, <2>2, <3>1
  <2>3. CASE k # i
    BY <1>11, <1>12, <2>1, <2>3
  <2> QED
    BY <2>2, <2>3
<1>15. \A k \in Rank : SenderChain(h2, q, k)'
  <2> SUFFICES ASSUME NEW k \in Rank
               PROVE  SenderChain(h2, q, k)'
    OBVIOUS
  <2>1. SenderChain(h, q, k)
    BY <1>1 DEF Chained
  <2>2. CASE k # i
    BY <1>1, <1>10, <1>11, <1>12, <2>1, <2>2, SenderKept
  <2>3. CASE k = i
    BY <1>6, <1>8, <1>10, <1>11, <1>12, <2>1, <2>3 DEF SenderChain
  <2> QED
    BY <2>2, <2>3
<1>16. ASSUME NEW a \in Rank, NEW k \in Rank, a # k
       PROVE  ReceiverChain(h2, a, k)'
  <2>1. ReceiverChain(h, a, k)
    BY <1>1, <1>16 DEF Chained
  <2>2. CASE k # i
    <3>1. /\ nReceived'[a][k] = nReceived[a][k] /\ inflight'[k][a] = inflight[k][a]
          /\ current_receives'[a] = current_receives[a] /\ h2[k] = h[k]
      BY <1>10, <1>11, <1>12, <2>2
    <3> QED
      BY <1>1, <1>10, <2>1, <3>1, ReceiverKept
  <2>3. CASE k = i
    <3>1. /\ inflight[i][a] \in Seq(Message) /\ inflight'[i][a] = Append(inflight[i][a], m)
          /\ h[i] \in Int
      BY <1>1, <1>11, <1>16, <2>3 DEF OInv, IInv, TypeOK
    <3>2. ASSUME NEW first \in Int, Leads(inflight[i][a], first, h[i])
          PROVE  Leads(inflight'[i][a], first, h2[i])
      BY <1>5, <1>6, <1>10, <3>1, <3>2, LeadsAppend
    <3>3. \A e \in current_receives[a] : e.msg \in Message
      BY DEF OInv, IInv, TypeOK, Entry
    <3>4. nReceived[a][i] + 1 \in Int
      BY ColumnType DEF OInv, IInv
    <3>5. ASSUME NEW e \in current_receives[a], e.msg.sender_rank = i
          PROVE  /\ e.msg.body = nReceived[a][i] + 1
                 /\ Leads(inflight'[i][a], After(e.msg), h2[i])
      <4>1. After(e.msg) \in Int
        BY <3>3, AfterType
      <4> QED
        BY <2>1, <2>3, <3>2, <3>5, <4>1 DEF ReceiverChain
    <3>6. ASSUME \A e \in current_receives[a] : e.msg.sender_rank # i
          PROVE  Leads(inflight'[i][a], nReceived[a][i] + 1, h2[i])
      BY <2>1, <2>3, <3>2, <3>4, <3>6 DEF ReceiverChain
    <3> QED
      BY <1>12, <2>3, <3>5, <3>6 DEF ReceiverChain
  <2> QED
    BY <2>2, <2>3
<1>17. Chained(h2, q)'
    BY <1>15, <1>16 DEF Chained
<1> QED
    BY <1>1, <1>10, <1>13, <1>14, <1>17 DEF Orderly

\* A message that RDMC begins to receive is the next of its sender: the number
\* that the receiver counts is the one the sender gave it.
LEMMA RdmcIncomingOrder ==
    ASSUME OInv, NEW i \in Rank, NEW k \in Rank, RdmcIncoming(i, k)
    PROVE  Orderly'
<1> DEFINE index == nReceived[i][k] + 1
<1>1. PICK h, q \in [Rank -> Int] : Chained(h, q)
    BY DEF OInv, Orderly
<1>2. /\ k # i /\ inflight[k][i] # <<>> /\ inflight[k][i] \in Seq(Message)
      /\ \A e \in current_receives[i] : e.msg.sender_rank # k
    BY DEF RdmcIncoming, IncomingAt, OInv, IInv, TypeOK
<1>3. Head(inflight[k][i]) \in Message /\ index \in Int
    BY <1>2, ColumnType DEF OInv, IInv
<1>4. PICK e : e = File(SeqNum(k, index), [Head(inflight[k][i]) EXCEPT
                       !.sender_rank = k, !.index = index])
    OBVIOUS
<1>5. /\ e.seq = SeqNum(k, index) /\ e.msg.sender_rank = k /\ e.msg.index = index
      /\ e.msg.body = Head(inflight[k][i]).body
      /\ e.msg.pause = Head(inflight[k][i]).pause
    BY <1>3, <1>4 DEF File, Message
<1>6. /\ Head(inflight[k][i]).body = index
      /\ Leads(Tail(inflight[k][i]), After(Head(inflight[k][i])), h[k])
  <2>1. ReceiverChain(h, i, k)
    BY <1>1, <1>2 DEF Chained
  <2>2. Leads(inflight[k][i], index, h[k]) /\ h[k] \in Int
    BY <1>1, <1>2, <2>1 DEF ReceiverChain
  <2> QED
    BY <1>2, <1>3, <2>2, LeadsTail
<1>7. After(e.msg) = After(Head(inflight[k][i]))
    BY <1>5 DEF After
<1>8. /\ current_receives'[i] = current_receives[i] \cup {e}
      /\ \A a \in Rank \ {i} : current_receives'[a] = current_receives[a]
      /\ inflight'[k][i] = Tail(inflight[k][i])
      /\ \A a, b \in Rank : a # i \/ b # k => inflight'[b][a] = inflight[b][a]
    BY <1>4 DEF RdmcIncoming, OInv, IInv, TypeOK
<1>9. UNCHANGED <<nReceived, sendVars, locally_stable_messages,
                  non_persistent_messages, delivered>>
    BY DEF RdmcIncoming, sstVars
<1> HIDE DEF index
<1>10. NumberingAgrees'
  <2>1. Numbered(e)
    BY <1>5, <1>6 DEF Numbered
  <2>2. \A a \in Rank : \A f \in current_receives'[a] : f \in current_receives[a] \/ f = e
    BY <1>8
  <2> QED
    BY <1>9, <2>1, <2>2, NumberingKept DEF OInv, Orderly
<1>11. OneReceive'
  <2> SUFFICES ASSUME NEW a \in Rank, NEW f \in current_receives'[a],
                      NEW g \in current_receives'[a],
                      f.msg.sender_rank = g.msg.sender_rank
               PROVE  f = g
    BY DEF OneReceive
  <2>1. f \in current_receives[a] /\ g \in current_receives[a] => f = g
    BY DEF OInv, Orderly, OneReceive
  <2>2. CASE a # i
    BY <1>8, <2>1, <2>2
  <2>3. CASE a = i
    BY <1>2, <1>5, <1>8, <2>1, <2>3
  <2> QED
    BY <2>2, <2>3
<1>12. OwnNumbers'
    BY <1>9 DEF OInv, Orderly, OwnNumbers, sendVars
<1>13. \A a \in Rank : SenderChain(h, q, a)'
    BY <1>1, <1>9 DEF Chained, SenderChain, sendVars
<1>14. ASSUME NEW a \in Rank, NEW b \in Rank, a # b
       PROVE  ReceiverChain(h, a, b)'
  <2>1. ReceiverChain(h, a, b)
    BY <1>1, <1>14 DEF Chained
  <2>2. CASE a # i \/ b # k
    <3>1. nReceived'[a][b] = nReceived[a][b] /\ inflight'[b][a] = inflight[b][a]
      BY <1>8, <1>9, <2>2
    <3>2. \A f \in current_receives'[a] :
              f.msg.sender_rank = b => f \in current_receives[a]
      BY <1>5, <1>8, <2>2
    <3>3. \A f \in current_receives[a] :
              f.msg.sender_rank = b => f \in current_receives'[a]
      BY <1>8
    <3> QED
      BY <1>1, <2>1, <3>1, <3>2, <3>3, ReceiverKept
  <2>3. CASE a = i /\ b = k
    <3>1. \A f \in current_receives'[i] : f.msg.sender_rank = k => f = e
      BY <1>2, <1>8
    <3>2. e \in current_receives'[i] /\ nReceived'[i][k] + 1 = index
      BY <1>8, <1>9 DEF index
    <3> QED
      BY <1>5, <1>6, <1>7, <1>8, <2>3, <3>1, <3>2 DEF ReceiverChain
  <2> QED
    BY <2>2, <2>3
<1>15. Chained(h, q)'
    BY <1>13, <1>14 DEF Chained
<1> QED
    BY <1>1, <1>10, <1>11, <1>12, <1>15 DEF Orderly

\* The receive handler counts the turns its sender skips, and files the message
\* and the skipped turns under their own numbers.
LEMMA ReceivedIsNumbered ==
    ASSUME TypeOK, NEW i \in Rank, NEW k \in Rank, NEW m \in Message,
           MessageReceived(i, k, m), m.sender_rank = k, m.index = m.body,
           m.body = nReceived[i][k] + 1
    PROVE  /\ nReceived'[i][k] + 1 = After(m)
           /\ \A a, b \in Rank : a # i \/ b # k => nReceived'[a][b] = nReceived[a][b]
           /\ \A a \in Rank : \A e \in locally_stable_messages'[a] :
                  e \in locally_stable_messages[a] \/ Numbered(e)
<1> DEFINE index == nReceived[i][k] + 1
           counts == [nReceived[i] EXCEPT ![k] = CountAfter(index, m)]
<1>1. nReceived[i][k] \in Int /\ m.pause \in Int
    BY ColumnType, BoundsAssumption DEF Message
<1>2. nReceived' = [nReceived EXCEPT ![i] = counts]
    BY DEF MessageReceived
<1>3. nReceived'[i][k] = index + m.pause
    BY <1>2 DEF TypeOK, CountAfter
<1>4. nReceived'[i][k] + 1 = After(m)
    BY <1>1, <1>3 DEF After
<1>5. \A a, b \in Rank : a # i \/ b # k => nReceived'[a][b] = nReceived[a][b]
    BY <1>2 DEF TypeOK
<1>6. ASSUME NEW a \in Rank, NEW e \in locally_stable_messages'[a],
             e \notin locally_stable_messages[a]
      PROVE  Numbered(e)
  <2>1. locally_stable_messages' = [locally_stable_messages EXCEPT ![i] =
            @ \cup {File(SeqNum(k, index), m)} \cup SkippedTurns(k, index + 1, m.pause)]
    BY DEF MessageReceived
  <2>2. \/ e = File(SeqNum(k, index), m)
        \/ e \in SkippedTurns(k, index + 1, m.pause)
    BY <1>6, <2>1 DEF TypeOK
  <2>3. CASE e = File(SeqNum(k, index), m)
    BY <2>3 DEF Numbered, File
  <2>4. CASE e \in SkippedTurns(k, index + 1, m.pause)
    <3>1. PICK idx \in index + 1 .. index + 1 + m.pause - 1 :
              e = File(SeqNum(k, idx), EmptyMessage(k, idx))
      BY <2>4 DEF SkippedTurns
    <3> QED
      BY <3>1 DEF Numbered, File, EmptyMessage
  <2> QED
    BY <2>2, <2>3, <2>4
<1> QED
    BY <1>4, <1>5, <1>6

\* The message that RDMC completes is the one that the handler looks for.
LEMMA RdmcReceiveOrder ==
    ASSUME OInv, NEW i \in Rank, NEW k \in Rank, RdmcReceive(i, k)
    PROVE  Orderly'
<1>1. PICK h, q \in [Rank -> Int] : Chained(h, q)
    BY DEF OInv, Orderly
<1>2. PICK e \in current_receives[i] :
          /\ e.seq = SeqNum(k, nReceived[i][k] + 1)
          /\ MessageReceived(i, k, e.msg)
          /\ current_receives' = [current_receives EXCEPT ![i] = @ \ {e}]
    BY DEF RdmcReceive
<1>3. k # i /\ TypeOK
    BY DEF RdmcReceive, OInv, IInv
<1>4. e.msg \in Message /\ e.msg.sender_rank \in Rank /\ e.msg.body \in Int
  <2>1. e.msg \in Message
    BY <1>2, <1>3 DEF TypeOK, Entry
  <2> QED
    BY <2>1 DEF Message
<1>5. e.msg.sender_rank = k /\ e.msg.index = e.msg.body
      /\ e.msg.body = nReceived[i][k] + 1
  <2>1. Numbered(e)
    BY <1>2 DEF OInv, Orderly, NumberingAgrees, Numbered
  <2>2. nReceived[i][k] + 1 \in Int
    BY <1>3, ColumnType
  <2> QED
    BY <1>2, <1>4, <2>1, <2>2, SeqNumInjective DEF Numbered
<1>6. /\ nReceived'[i][k] + 1 = After(e.msg)
      /\ \A a, b \in Rank : a # i \/ b # k => nReceived'[a][b] = nReceived[a][b]
      /\ \A a \in Rank : \A f \in locally_stable_messages'[a] :
             f \in locally_stable_messages[a] \/ Numbered(f)
    BY <1>2, <1>3, <1>4, <1>5, ReceivedIsNumbered
<1>7. /\ current_receives'[i] = current_receives[i] \ {e}
      /\ \A a \in Rank \ {i} : current_receives'[a] = current_receives[a]
    BY <1>2, <1>3 DEF TypeOK
<1>8. UNCHANGED <<sendVars, non_persistent_messages, inflight, delivered>>
    BY DEF RdmcReceive
<1>9. NumberingAgrees'
  <2>1. \A a \in Rank : \A f \in current_receives'[a] : f \in current_receives[a]
    BY <1>7
  <2> QED
    BY <1>6, <1>8, <2>1, NumberingKept DEF OInv, Orderly
<1>10. OneReceive' /\ OwnNumbers'
  <2>1. \A a \in Rank : current_receives'[a] \subseteq current_receives[a]
    BY <1>7
  <2>2. OneReceive'
    BY <2>1 DEF OInv, Orderly, OneReceive
  <2>3. OwnNumbers'
    BY <1>8 DEF OInv, Orderly, OwnNumbers, sendVars
  <2> QED
    BY <2>2, <2>3
<1>11. \A a \in Rank : SenderChain(h, q, a)'
  <2>1. \A a \in Rank : nReceived'[a][a] = nReceived[a][a]
    BY <1>3, <1>6
  <2> QED
    BY <1>1, <1>8, <2>1 DEF Chained, SenderChain, sendVars
<1>12. ASSUME NEW a \in Rank, NEW b \in Rank, a # b
       PROVE  ReceiverChain(h, a, b)'
  <2>1. ReceiverChain(h, a, b)
    BY <1>1, <1>12 DEF Chained
  <2>2. CASE a # i \/ b # k
    <3>1. nReceived'[a][b] = nReceived[a][b] /\ inflight'[b][a] = inflight[b][a]
      BY <1>6, <1>8, <2>2
    <3>2. \A f \in current_receives'[a] :
              f.msg.sender_rank = b => f \in current_receives[a]
      BY <1>7
    <3>3. \A f \in current_receives[a] :
              f.msg.sender_rank = b => f \in current_receives'[a]
      BY <1>5, <1>7, <2>2
    <3> QED
      BY <1>1, <2>1, <3>1, <3>2, <3>3, ReceiverKept
  <2>3. CASE a = i /\ b = k
    <3>1. \A f \in current_receives'[i] : f.msg.sender_rank # k
      BY <1>2, <1>5, <1>7 DEF OInv, Orderly, OneReceive
    <3>2. Leads(inflight[k][i], After(e.msg), h[k])
      BY <1>2, <1>5, <2>1, <2>3 DEF ReceiverChain
    <3> QED
      BY <1>6, <1>8, <2>3, <3>1, <3>2 DEF ReceiverChain
  <2> QED
    BY <2>2, <2>3
<1>13. Chained(h, q)'
    BY <1>11, <1>12 DEF Chained
<1> QED
    BY <1>1, <1>9, <1>10, <1>13 DEF Orderly

\* Nor can a sender count its own messages out of order.
LEMMA OwnReceiveOrder ==
    ASSUME OInv, NEW i \in Rank, OwnReceive(i)
    PROVE  Orderly'
<1>1. PICK h, q \in [Rank -> Int] : Chained(h, q)
    BY DEF OInv, Orderly
<1>2. PICK m \in current_send[i] : MessageReceived(i, i, m)
    BY DEF OwnReceive
<1>3. TypeOK /\ m \in Message
    BY <1>2 DEF OInv, IInv, TypeOK
<1>4. m.body = nReceived[i][i] + 1 /\ After(m) = h[i]
    BY <1>1, <1>2 DEF Chained, SenderChain
<1>5. m.sender_rank = i /\ m.index = m.body
    BY <1>2 DEF OInv, IInv, Promises, OwnMessages, Orderly, OwnNumbers
<1>6. /\ nReceived'[i][i] + 1 = After(m)
      /\ \A a, b \in Rank : a # i \/ b # i => nReceived'[a][b] = nReceived[a][b]
      /\ \A a \in Rank : \A f \in locally_stable_messages'[a] :
             f \in locally_stable_messages[a] \/ Numbered(f)
    BY <1>2, <1>3, <1>4, <1>5, ReceivedIsNumbered
<1>7. /\ current_send'[i] = {}
      /\ \A k \in Rank \ {i} : current_send'[k] = current_send[k]
    BY <1>3 DEF OwnReceive, TypeOK
<1>8. UNCHANGED <<future_message_index, next_send, pending_sends, current_receives,
                  non_persistent_messages, inflight, delivered>>
    BY DEF OwnReceive
<1>9. NumberingAgrees'
    BY <1>6, <1>8, NumberingKept DEF OInv, Orderly
<1>10. OneReceive' /\ OwnNumbers'
  <2>1. OneReceive'
    BY <1>8 DEF OInv, Orderly, OneReceive
  <2>2. \A k \in Rank : current_send'[k] \subseteq current_send[k]
    BY <1>7
  <2>3. OwnNumbers'
    BY <1>8, <2>2 DEF OInv, Orderly, OwnNumbers
  <2> QED
    BY <2>1, <2>3
<1>11. ASSUME NEW k \in Rank
       PROVE  SenderChain(h, q, k)'
  <2>1. SenderChain(h, q, k)
    BY <1>1 DEF Chained
  <2>2. CASE k # i
    BY <1>1, <1>6, <1>7, <1>8, <2>1, <2>2, SenderKept
  <2>3. CASE k = i
    BY <1>4, <1>6, <1>7, <1>8, <2>1, <2>3 DEF SenderChain
  <2> QED
    BY <2>2, <2>3
<1>12. \A a, k \in Rank : a # k => ReceiverChain(h, a, k)'
    BY <1>1, <1>6, <1>8 DEF Chained, ReceiverChain
<1>13. Chained(h, q)'
    BY <1>11, <1>12 DEF Chained
<1> QED
    BY <1>1, <1>9, <1>10, <1>13 DEF Orderly

\* A message keeps its number on its way to the application and to the disk.
LEMMA DeliveryTrigOrder ==
    ASSUME OInv, NEW i \in Rank, DeliveryTrig(i)
    PROVE  Orderly'
<1>1. PICK e \in locally_stable_messages[i] :
          /\ deliver_message(i, e.msg)
          /\ locally_stable_messages' = [locally_stable_messages EXCEPT ![i] = @ \ {e}]
    BY DEF DeliveryTrig
<1>2. UNCHANGED <<nReceived, sendVars, current_receives, inflight>>
    BY DEF DeliveryTrig
<1>3. Numbered(e)
    BY <1>1 DEF OInv, Orderly, NumberingAgrees, Numbered
<1>4. \A a \in Rank : \A f \in non_persistent_messages'[a] :
          f \in non_persistent_messages[a] \/ Numbered(f)
  <2>1. \/ UNCHANGED non_persistent_messages
        \/ non_persistent_messages' = [non_persistent_messages EXCEPT ![i] =
               @ \cup {File(SeqNum(e.msg.sender_rank, e.msg.index), e.msg)}]
    BY <1>1 DEF deliver_message
  <2>2. PICK f : f = File(SeqNum(e.msg.sender_rank, e.msg.index), e.msg)
    OBVIOUS
  <2>3. Numbered(f)
    BY <1>3, <2>2 DEF Numbered, File
  <2>4. \A a \in Rank : non_persistent_messages'[a] \subseteq non_persistent_messages[a] \cup {f}
    BY <2>1, <2>2 DEF OInv, IInv, TypeOK
  <2> QED
    BY <2>3, <2>4
<1>5. \A a \in Rank : \A n \in 1 .. Len(delivered'[a]) :
          delivered'[a][n].index = delivered'[a][n].body
  <2>1. \A a \in Rank : \A n \in 1 .. Len(delivered[a]) :
            delivered[a][n].index = delivered[a][n].body
    BY DEF OInv, Orderly, NumberingAgrees
  <2>2. CASE UNCHANGED delivered
    BY <2>1, <2>2
  <2>3. CASE delivered' = [delivered EXCEPT ![i] = Append(@, UpcallOf(e.msg))]
    <3>1. UpcallOf(e.msg).index = UpcallOf(e.msg).body
      BY <1>3 DEF UpcallOf, Numbered
    <3>2. delivered'[i] = Append(delivered[i], UpcallOf(e.msg))
          /\ \A a \in Rank \ {i} : delivered'[a] = delivered[a]
      <4>1. delivered \in [Rank -> Seq(Upcall)]
        BY DEF OInv, IInv, TypeOK
      <4> QED
        BY <2>3, <4>1
    <3>3. \A n \in 1 .. Len(delivered'[i]) :
              \/ delivered'[i][n] = UpcallOf(e.msg)
              \/ n \in 1 .. Len(delivered[i]) /\ delivered'[i][n] = delivered[i][n]
      <4>1. delivered[i] \in Seq(Upcall)
        BY DEF OInv, IInv, TypeOK
      <4> QED
        BY <3>2, <4>1
    <3>4. ASSUME NEW a \in Rank \ {i}, NEW n \in 1 .. Len(delivered'[a])
          PROVE  delivered'[a][n].index = delivered'[a][n].body
      BY <2>1, <3>2, <3>4
    <3>5. ASSUME NEW n \in 1 .. Len(delivered'[i])
          PROVE  delivered'[i][n].index = delivered'[i][n].body
      <4>1. CASE delivered'[i][n] = UpcallOf(e.msg)
        BY <3>1, <4>1
      <4>2. CASE n \in 1 .. Len(delivered[i]) /\ delivered'[i][n] = delivered[i][n]
        BY <2>1, <4>2
      <4> QED
        BY <3>3, <3>5, <4>1, <4>2
    <3> QED
      BY <3>4, <3>5
  <2>4. UNCHANGED delivered \/ delivered' = [delivered EXCEPT ![i] = Append(@, UpcallOf(e.msg))]
    BY <1>1 DEF deliver_message
  <2> QED
    BY <2>2, <2>3, <2>4
<1>6. NumberingAgrees'
  <2>1. \A a \in Rank : locally_stable_messages'[a] \subseteq locally_stable_messages[a]
    BY <1>1 DEF OInv, IInv, TypeOK
  <2>2. \A a \in Rank : \A f \in current_receives[a] \cup locally_stable_messages[a]
                                     \cup non_persistent_messages[a] : Numbered(f)
    BY DEF OInv, Orderly, NumberingAgrees, Numbered
  <2>3. \A a \in Rank : \A f \in current_receives'[a] \cup locally_stable_messages'[a]
                                     \cup non_persistent_messages'[a] : Numbered(f)
    BY <1>2, <1>4, <2>1, <2>2
  <2> QED
    BY <1>5, <2>3 DEF NumberingAgrees, Numbered
<1>7. OneReceive' /\ OwnNumbers'
    BY <1>2 DEF OInv, Orderly, OneReceive, OwnNumbers, sendVars
<1>8. PICK h, q \in [Rank -> Int] : Chained(h, q)
    BY DEF OInv, Orderly
<1>9. \A k \in Rank : SenderChain(h, q, k)'
    BY <1>2, <1>8 DEF Chained, SenderChain, sendVars
<1>10. \A a, k \in Rank : a # k => ReceiverChain(h, a, k)'
    BY <1>2, <1>8 DEF Chained, ReceiverChain
<1>11. Chained(h, q)'
    BY <1>9, <1>10 DEF Chained
<1> QED
    BY <1>6, <1>7, <1>8, <1>11 DEF Orderly

\* Nor does the disk change a number.
LEMMA FileWrittenOrder ==
    ASSUME OInv, NEW i \in Rank, FileWritten(i)
    PROVE  Orderly'
<1>1. UNCHANGED <<nReceived, sendVars, current_receives, locally_stable_messages,
                  inflight, delivered>>
    BY DEF FileWritten
<1>2. \A a \in Rank : non_persistent_messages'[a] \subseteq non_persistent_messages[a]
    BY DEF FileWritten, OInv, IInv, TypeOK
<1>3. NumberingAgrees'
    BY <1>1, <1>2, NumberingKept DEF OInv, Orderly
<1>4. OneReceive' /\ OwnNumbers'
    BY <1>1 DEF OInv, Orderly, OneReceive, OwnNumbers, sendVars
<1>5. PICK h, q \in [Rank -> Int] : Chained(h, q)
    BY DEF OInv, Orderly
<1>6. \A k \in Rank : SenderChain(h, q, k)'
    BY <1>1, <1>5 DEF Chained, SenderChain, sendVars
<1>7. \A a, k \in Rank : a # k => ReceiverChain(h, a, k)'
    BY <1>1, <1>5 DEF Chained, ReceiverChain
<1>8. Chained(h, q)'
    BY <1>6, <1>7 DEF Chained
<1> QED
    BY <1>3, <1>4, <1>5, <1>8 DEF Orderly

\* Every step keeps the invariant.
LEMMA OrderStep == OInv /\ [Next]_vars => OInv'
<1> SUFFICES ASSUME OInv, [Next]_vars
             PROVE  OInv'
    OBVIOUS
<1>1. IInv'
    BY InvariantStep DEF OInv
<1>2. ASSUME UNCHANGED <<nReceived, sendVars, current_receives, locally_stable_messages,
                         non_persistent_messages, inflight, delivered>>
      PROVE  Orderly'
    BY <1>2, OrderNotDisturbed DEF OInv
<1>3. ASSUME NEW i \in Rank, NEW turns \in 0 .. MaxPause, GetPosition(i, turns)
      PROVE  Orderly'
    BY <1>3, GetPositionOrder
<1>4. ASSUME NEW i \in Rank, Send(i)
      PROVE  Orderly'
    BY <1>4, SendOrder
<1>5. ASSUME NEW i \in Rank, SenderStep(i)
      PROVE  Orderly'
    BY <1>5, SenderStepOrder
<1>6. ASSUME NEW i \in Rank, NEW k \in Rank, RdmcIncoming(i, k)
      PROVE  Orderly'
    BY <1>6, RdmcIncomingOrder
<1>7. ASSUME NEW i \in Rank, NEW k \in Rank, RdmcReceive(i, k)
      PROVE  Orderly'
    BY <1>7, RdmcReceiveOrder
<1>8. ASSUME NEW i \in Rank, OwnReceive(i)
      PROVE  Orderly'
    BY <1>8, OwnReceiveOrder
<1>9. ASSUME NEW i \in Rank, StabilityTrig(i)
      PROVE  Orderly'
    BY <1>2, <1>9 DEF StabilityTrig, messageVars
<1>10. ASSUME NEW i \in Rank, DeliveryTrig(i)
       PROVE  Orderly'
    BY <1>10, DeliveryTrigOrder
<1>11. ASSUME NEW i \in Rank, FileWritten(i)
       PROVE  Orderly'
    BY <1>11, FileWrittenOrder
<1>12. ASSUME NEW i \in Rank, NEW j \in Rank,
              \/ SeqNumArrives(i, j) \/ StableNumArrives(i, j)
              \/ DeliveredNumArrives(i, j) \/ PersistedNumArrives(i, j)
       PROVE  Orderly'
    BY <1>2, <1>12 DEF SeqNumArrives, StableNumArrives, DeliveredNumArrives,
                       PersistedNumArrives, messageVars
<1>13. ASSUME NEW i \in Rank, Wedge(i)
       PROVE  Orderly'
    BY <1>2, <1>13 DEF Wedge, WedgeStep, sstVars, messageVars
<1>14. ASSUME UNCHANGED vars
       PROVE  Orderly'
    BY <1>2, <1>14 DEF vars, sstVars, messageVars
<1>15. Orderly'
    BY <1>3, <1>4, <1>5, <1>6, <1>7, <1>8, <1>9, <1>10, <1>11, <1>12, <1>13, <1>14
       DEF Next
<1> QED
    BY <1>1, <1>15 DEF OInv

\* The invariant holds before the first message: all chains are empty at 0.
LEMMA OrderInit == Init => OInv
<1> SUFFICES ASSUME Init
             PROVE  OInv
    OBVIOUS
<1>1. IInv
    BY InvariantInit
<1>2. NumberingAgrees /\ OwnNumbers /\ OneReceive
    BY DEF Init, NumberingAgrees, OwnNumbers, OneReceive
<1> DEFINE z == [k \in Rank |-> 0]
<1>3. z \in [Rank -> Int] /\ \A k \in Rank : z[k] = 0
    OBVIOUS
<1> HIDE DEF z
<1>4. Leads(<<>>, 0, 0)
    BY DEF Leads
<1>5. \A k \in Rank : SenderChain(z, z, k)
    BY <1>3, <1>4 DEF Init, initialize_sst_row, SenderChain
<1>6. \A i, k \in Rank : i # k => ReceiverChain(z, i, k)
    BY <1>3, <1>4 DEF Init, initialize_sst_row, ReceiverChain
<1>7. Chained(z, z)
    BY <1>5, <1>6 DEF Chained
<1> QED
    BY <1>1, <1>2, <1>3, <1>7 DEF OInv, Orderly

(***************************************************************************)
(* The numbers of messages.                                                *)
(***************************************************************************)
\* The number a receiver files a message under, by counting the messages and
\* the skipped turns of its sender, is the one the sender gave it.
THEOREM NumberingSafety == Spec => []NumberingAgrees
<1>1. OInv => NumberingAgrees
    BY DEF OInv, Orderly
<1>2. OInv /\ [Next]_vars => OInv'
    BY OrderStep
<1>3. Init => OInv
    BY OrderInit
<1> QED
    BY <1>1, <1>2, <1>3, PTL DEF Spec

-----------------------------------------------------------------------------
(***************************************************************************)
(* Columns as counters: the inductive invariant.                           *)
(***************************************************************************)
\* What waits for its delivery has been counted.
Counted ==
    \A i \in Rank : \A e \in locally_stable_messages[i] :
        e.msg.body <= nReceived[i][e.msg.sender_rank]

\* It is the only one with its number.
DistinctNumbers ==
    \A i \in Rank : \A e, f \in locally_stable_messages[i] : e.seq = f.seq => e = f

\* It comes after everything that has been delivered.
Undelivered ==
    \A i \in Rank : \A e \in locally_stable_messages[i] : delivered_num[i][i] < e.seq

\* No copy of the last two columns is ahead of the row it is a copy of.
LateCopiesTrail ==
    \A i, j \in Rank :
        /\ delivered_num[i][j] <= delivered_num[j][j]
        /\ persisted_num[i][j] <= persisted_num[j][j]

\* The FileWriter gets what has been delivered, in that order.
DiskFollows ==
    \A i \in Rank :
        /\ persisted_num[i][i] <= delivered_num[i][i]
        /\ \A n \in 1 .. Len(writes[i]) :
               persisted_num[i][i] < writes[i][n] /\ writes[i][n] <= delivered_num[i][i]
        /\ \A n, m \in 1 .. Len(writes[i]) : n < m => writes[i][n] < writes[i][m]

Columns ==
    /\ Counted
    /\ DistinctNumbers
    /\ Undelivered
    /\ LateCopiesTrail
    /\ DiskFollows

CInv == OInv /\ Columns

(***************************************************************************)
(* Types.                                                                  *)
(***************************************************************************)
\* The numbers of a message that is filed, and of one that is to be written.
LEMMA FiledType ==
    ASSUME TypeOK, NEW i \in Rank
    PROVE  /\ \A e \in locally_stable_messages[i] \cup non_persistent_messages[i] :
                  /\ e.seq \in Int /\ e.msg \in Message /\ e.msg.sender_rank \in Rank
                  /\ e.msg.body \in Int
           /\ writes[i] \in Seq(Nat)
           /\ \A n \in 1 .. Len(writes[i]) : writes[i][n] \in Int
           /\ \A j \in Rank : delivered_num[i][j] \in Int /\ persisted_num[i][j] \in Int
<1>1. ASSUME NEW e \in locally_stable_messages[i] \cup non_persistent_messages[i]
      PROVE  /\ e.seq \in Int /\ e.msg \in Message /\ e.msg.sender_rank \in Rank
             /\ e.msg.body \in Int
  <2>1. e \in Entry
    BY DEF TypeOK
  <2>2. e.seq \in Int /\ e.msg \in Message
    BY <2>1 DEF Entry
  <2> QED
    BY <2>2 DEF Message
<1>2. writes[i] \in Seq(Nat)
    BY DEF TypeOK
<1>3. \A n \in 1 .. Len(writes[i]) : writes[i][n] \in Int
    BY <1>2
<1>4. \A j \in Rank : delivered_num[i][j] \in Number /\ persisted_num[i][j] \in Number
    BY DEF TypeOK
<1> QED
    BY <1>1, <1>2, <1>3, <1>4 DEF Number

(***************************************************************************)
(* The receive handler.                                                    *)
(***************************************************************************)
\* m is the message that member i counts next of sender k.
IsNext(i, k, m) ==
    /\ m \in Message
    /\ m.sender_rank = k
    /\ m.index = m.body
    /\ m.body = nReceived[i][k] + 1

\* A message of another member that the handler gets is the next one.
LEMMA RdmcReceiveNext ==
    ASSUME OInv, NEW i \in Rank, NEW k \in Rank, RdmcReceive(i, k)
    PROVE  \E e \in current_receives[i] :
               /\ IsNext(i, k, e.msg) /\ MessageReceived(i, k, e.msg)
               /\ current_receives' = [current_receives EXCEPT ![i] = @ \ {e}]
<1>1. PICK e \in current_receives[i] :
          /\ e.seq = SeqNum(k, nReceived[i][k] + 1) /\ MessageReceived(i, k, e.msg)
          /\ current_receives' = [current_receives EXCEPT ![i] = @ \ {e}]
    BY DEF RdmcReceive
<1>2. e.msg \in Message
    BY <1>1 DEF OInv, IInv, TypeOK, Entry
<1>3. e.msg.sender_rank \in Rank /\ e.msg.body \in Int
    BY <1>2 DEF Message
<1>4. Numbered(e)
    BY <1>1 DEF OInv, Orderly, NumberingAgrees, Numbered
<1>5. nReceived[i][k] + 1 \in Int
    BY ColumnType DEF OInv, IInv
<1>6. IsNext(i, k, e.msg)
    BY <1>1, <1>2, <1>3, <1>4, <1>5, SeqNumInjective DEF IsNext, Numbered
<1> QED
    BY <1>1, <1>6

\* So is the one that a member has sent itself.
LEMMA OwnReceiveNext ==
    ASSUME OInv, NEW i \in Rank, OwnReceive(i)
    PROVE  \E m \in current_send[i] : IsNext(i, i, m) /\ MessageReceived(i, i, m)
<1>1. PICK m \in current_send[i] : MessageReceived(i, i, m)
    BY DEF OwnReceive
<1>2. m \in Message
    BY <1>1 DEF OInv, IInv, TypeOK
<1>3. m.body = nReceived[i][i] + 1
    BY <1>1 DEF OInv, Orderly, Chained, SenderChain
<1>4. m.sender_rank = i /\ m.index = m.body
    BY <1>1 DEF OInv, IInv, Promises, OwnMessages, Orderly, OwnNumbers
<1> QED
    BY <1>1, <1>2, <1>3, <1>4 DEF IsNext

\* What the handler files is new: one entry for each number it counts.
LEMMA FiledAnew ==
    ASSUME TypeOK, NEW i \in Rank, NEW k \in Rank, NEW m,
           IsNext(i, k, m), MessageReceived(i, k, m)
    PROVE  /\ \A a \in Rank \ {i} : locally_stable_messages'[a] = locally_stable_messages[a]
           /\ \A e \in locally_stable_messages'[i] :
                  \/ e \in locally_stable_messages[i]
                  \/ /\ Numbered(e) /\ e.msg.sender_rank = k /\ e.msg.body \in Int
                     /\ nReceived[i][k] < e.msg.body /\ e.msg.body <= nReceived'[i][k]
           /\ \A e, f \in locally_stable_messages'[i] :
                  \/ e \in locally_stable_messages[i]
                  \/ f \in locally_stable_messages[i]
                  \/ e.msg.body = f.msg.body => e = f
<1> DEFINE index == nReceived[i][k] + 1
           first == File(SeqNum(k, index), m)
           skipped == SkippedTurns(k, index + 1, m.pause)
<1>1. index \in Int /\ m.pause \in Nat /\ m.body = index /\ m.sender_rank = k
      /\ m.index = index
    BY ColumnType, BoundsAssumption DEF IsNext, Message
<1>2. nReceived'[i][k] = index + m.pause
    BY DEF MessageReceived, TypeOK, CountAfter
<1>3. locally_stable_messages' =
          [locally_stable_messages EXCEPT ![i] = @ \cup {first} \cup skipped]
    BY DEF MessageReceived
<1>4. /\ locally_stable_messages'[i] = locally_stable_messages[i] \cup {first} \cup skipped
      /\ \A a \in Rank \ {i} : locally_stable_messages'[a] = locally_stable_messages[a]
    BY <1>3 DEF TypeOK
<1>5. /\ first.msg.body = index /\ first.msg.sender_rank = k /\ Numbered(first)
    BY <1>1 DEF File, Numbered
<1>6. ASSUME NEW e \in skipped
      PROVE  \E idx \in index + 1 .. index + m.pause :
                 e = File(SeqNum(k, idx), EmptyMessage(k, idx))
    BY <1>1, <1>6 DEF SkippedTurns
<1>7. ASSUME NEW idx \in Int
      PROVE  /\ File(SeqNum(k, idx), EmptyMessage(k, idx)).msg.body = idx
             /\ File(SeqNum(k, idx), EmptyMessage(k, idx)).msg.sender_rank = k
             /\ Numbered(File(SeqNum(k, idx), EmptyMessage(k, idx)))
    BY DEF File, EmptyMessage, Numbered
<1> HIDE DEF first, skipped
<1>8. ASSUME NEW e \in skipped
      PROVE  /\ e.msg.sender_rank = k /\ Numbered(e) /\ e.msg.body \in Int
             /\ index < e.msg.body /\ e.msg.body <= index + m.pause
             /\ e = File(SeqNum(k, e.msg.body), EmptyMessage(k, e.msg.body))
  <2>1. PICK idx \in index + 1 .. index + m.pause :
            e = File(SeqNum(k, idx), EmptyMessage(k, idx))
    BY <1>6
  <2>2. idx \in Int /\ index < idx /\ idx <= index + m.pause
    BY <1>1
  <2> QED
    BY <1>7, <2>1, <2>2
<1>9. \A e \in locally_stable_messages'[i] :
          \/ e \in locally_stable_messages[i]
          \/ /\ Numbered(e) /\ e.msg.sender_rank = k /\ e.msg.body \in Int
             /\ nReceived[i][k] < e.msg.body /\ e.msg.body <= nReceived'[i][k]
  <2>1. nReceived[i][k] \in Int
    BY ColumnType
  <2> QED
    BY <1>1, <1>2, <1>4, <1>5, <1>8, <2>1
<1>10. \A e, f \in {first} \cup skipped : e.msg.body = f.msg.body => e = f
    BY <1>1, <1>5, <1>8
<1> QED
    BY <1>4, <1>9, <1>10

\* The handler adds only what comes after everything delivered.
LEMMA ReceiveColumns ==
    ASSUME CInv, NEW i \in Rank, NEW k \in Rank, NEW m, IsNext(i, k, m),
           MessageReceived(i, k, m), UNCHANGED <<delivered_num, persisted_num, writes>>
    PROVE  Columns'
<1> USE DEF CInv, OInv, IInv
<1>1. /\ \A a \in Rank \ {i} : locally_stable_messages'[a] = locally_stable_messages[a]
      /\ \A e \in locally_stable_messages'[i] :
             \/ e \in locally_stable_messages[i]
             \/ /\ Numbered(e) /\ e.msg.sender_rank = k /\ e.msg.body \in Int
                /\ nReceived[i][k] < e.msg.body /\ e.msg.body <= nReceived'[i][k]
      /\ \A e, f \in locally_stable_messages'[i] :
             \/ e \in locally_stable_messages[i]
             \/ f \in locally_stable_messages[i]
             \/ e.msg.body = f.msg.body => e = f
    BY FiledAnew
<1>2. \A a, b \in Rank : /\ nReceived'[a][b] \in Int /\ nReceived[a][b] \in Int
                         /\ nReceived[a][b] <= nReceived'[a][b]
    BY CountsGrow, ColumnType DEF IsNext
<1>3. Counted'
  <2> SUFFICES ASSUME NEW a \in Rank, NEW e \in locally_stable_messages'[a]
               PROVE  e.msg.body <= nReceived'[a][e.msg.sender_rank]
    BY DEF Counted
  <2>1. CASE e \in locally_stable_messages[a]
    <3>1. e.msg.sender_rank \in Rank /\ e.msg.body \in Int
      BY <2>1, FiledType
    <3>2. e.msg.body <= nReceived[a][e.msg.sender_rank]
      BY <2>1 DEF Columns, Counted
    <3> QED
      BY <1>2, <3>1, <3>2
  <2>2. CASE e \notin locally_stable_messages[a]
    BY <1>1, <2>2
  <2> QED
    BY <2>1, <2>2
<1>4. DistinctNumbers'
  <2> SUFFICES ASSUME NEW a \in Rank, NEW e \in locally_stable_messages'[a],
                      NEW f \in locally_stable_messages'[a], e.seq = f.seq
               PROVE  e = f
    BY DEF DistinctNumbers
  <2>1. \A x \in locally_stable_messages[a] :
            /\ Numbered(x) /\ x.msg.sender_rank \in Rank /\ x.msg.body \in Int
            /\ x.msg.body <= nReceived[a][x.msg.sender_rank]
    BY FiledType DEF Orderly, NumberingAgrees, Numbered, Columns, Counted
  <2>2. \A x \in locally_stable_messages'[a] :
            Numbered(x) /\ x.msg.sender_rank \in Rank /\ x.msg.body \in Int
    BY <1>1, <2>1
  <2>3. e.msg.sender_rank = f.msg.sender_rank /\ e.msg.body = f.msg.body
    BY <2>2, SeqNumInjective DEF Numbered
  <2>4. e \in locally_stable_messages[a] /\ f \in locally_stable_messages[a] => e = f
    BY DEF Columns, DistinctNumbers
  <2>5. CASE a # i
    BY <1>1, <2>4, <2>5
  <2>6. CASE a = i
    BY <1>1, <1>2, <2>1, <2>3, <2>4, <2>6
  <2> QED
    BY <2>5, <2>6
<1>5. Undelivered'
  <2> SUFFICES ASSUME NEW a \in Rank, NEW e \in locally_stable_messages'[a]
               PROVE  delivered_num[a][a] < e.seq
    BY DEF Undelivered
  <2>1. CASE e \in locally_stable_messages[a]
    BY <2>1 DEF Columns, Undelivered
  <2>2. CASE e \notin locally_stable_messages[a]
    <3>1. /\ a = i /\ Numbered(e) /\ e.msg.sender_rank = k /\ e.msg.body \in Int
          /\ nReceived[i][k] < e.msg.body
      BY <1>1, <2>2
    <3>2. /\ delivered_num[i][i] <= stable_num[i][i]
          /\ stable_num[i][i] <= seq_num[i][i]
          /\ seq_num[i][i] < SeqNum(k, nReceived[i][k] + 1)
      BY DEF Promises, DeliveredIsKnownStable, StableNumCorrect, SeqNumBeforeGaps
    <3>3. /\ nReceived[i][k] + 1 \in Int /\ nReceived[i][k] + 1 <= e.msg.body
      BY <1>2, <3>1
    <3>4. SeqNum(k, nReceived[i][k] + 1) <= SeqNum(k, e.msg.body)
      BY <3>1, <3>3, SeqNumMonotone
    <3>5. SeqNum(k, nReceived[i][k] + 1) \in Int /\ SeqNum(k, e.msg.body) \in Int
      BY <3>1, <3>3, SeqNumInt
    <3>6. delivered_num[i][i] \in Int /\ stable_num[i][i] \in Int /\ seq_num[i][i] \in Int
      BY ColumnType
    <3>7. e.seq = SeqNum(k, e.msg.body)
      BY <3>1 DEF Numbered
    <3> QED
      BY <3>1, <3>2, <3>4, <3>5, <3>6, <3>7
  <2> QED
    BY <2>1, <2>2
<1>6. LateCopiesTrail' /\ DiskFollows'
    BY DEF Columns, LateCopiesTrail, DiskFollows
<1> QED
    BY <1>3, <1>4, <1>5, <1>6 DEF Columns

(***************************************************************************)
(* Delivery, the disk and the SST.                                         *)
(***************************************************************************)
\* What is delivered comes before everything that waits, and goes to the disk
\* after everything that is on its way there.
LEMMA DeliveryTrigColumns ==
    ASSUME CInv, NEW i \in Rank, DeliveryTrig(i)
    PROVE  Columns' /\ delivered_num[i][i] < delivered_num'[i][i]
<1> USE DEF CInv, OInv, IInv
<1>1. PICK e \in locally_stable_messages[i] :
          /\ IsFirst(i, e)
          /\ deliver_message(i, e.msg)
          /\ delivered_num' = [delivered_num EXCEPT ![i][i] = e.seq]
          /\ locally_stable_messages' = [locally_stable_messages EXCEPT ![i] = @ \ {e}]
    BY DEF DeliveryTrig
<1>2. UNCHANGED <<nReceived, persisted_num>>
    BY DEF DeliveryTrig
<1>3. /\ locally_stable_messages'[i] = locally_stable_messages[i] \ {e}
      /\ \A a \in Rank \ {i} : locally_stable_messages'[a] = locally_stable_messages[a]
      /\ delivered_num'[i][i] = e.seq
      /\ \A a, b \in Rank : a # i \/ b # i => delivered_num'[a][b] = delivered_num[a][b]
    BY <1>1 DEF TypeOK
<1>4. delivered_num[i][i] < e.seq /\ e.seq \in Int /\ delivered_num[i][i] \in Int
    BY <1>1, FiledType DEF Columns, Undelivered
<1>5. Counted' /\ DistinctNumbers'
  <2>1. \A a \in Rank : locally_stable_messages'[a] \subseteq locally_stable_messages[a]
    BY <1>3
  <2> QED
    BY <1>2, <2>1 DEF Columns, Counted, DistinctNumbers
<1>6. Undelivered'
  <2> SUFFICES ASSUME NEW a \in Rank, NEW f \in locally_stable_messages'[a]
               PROVE  delivered_num'[a][a] < f.seq
    BY DEF Undelivered
  <2>1. CASE a # i
    BY <1>3, <2>1 DEF Columns, Undelivered
  <2>2. CASE a = i
    <3>1. f \in locally_stable_messages[i] /\ f # e
      BY <1>3, <2>2
    <3>2. e.seq <= f.seq /\ e.seq # f.seq
      BY <1>1, <3>1 DEF IsFirst, Columns, DistinctNumbers
    <3>3. f.seq \in Int
      BY <3>1, FiledType
    <3> QED
      BY <1>3, <1>4, <2>2, <3>2, <3>3
  <2> QED
    BY <2>1, <2>2
<1>7. LateCopiesTrail'
  <2> SUFFICES ASSUME NEW a \in Rank, NEW b \in Rank
               PROVE  /\ delivered_num'[a][b] <= delivered_num'[b][b]
                      /\ persisted_num'[a][b] <= persisted_num'[b][b]
    BY DEF LateCopiesTrail
  <2>1. /\ delivered_num[a][b] <= delivered_num[b][b]
        /\ persisted_num[a][b] <= persisted_num[b][b]
        /\ delivered_num[a][b] \in Int /\ delivered_num[b][b] \in Int
    BY FiledType DEF Columns, LateCopiesTrail
  <2>2. CASE b # i
    BY <1>2, <1>3, <2>1, <2>2
  <2>3. CASE b = i /\ a # i
    BY <1>2, <1>3, <1>4, <2>1, <2>3
  <2>4. CASE b = i /\ a = i
    BY <1>2, <1>3, <1>4, <2>1, <2>4
  <2> QED
    BY <2>2, <2>3, <2>4
<1>8. DiskFollows'
  <2>1. \/ UNCHANGED writes
        \/ writes' = [writes EXCEPT ![i] = Append(@, SeqNum(e.msg.sender_rank, e.msg.index))]
    BY <1>1 DEF deliver_message
  <2>2. SeqNum(e.msg.sender_rank, e.msg.index) = e.seq
    BY <1>1 DEF Orderly, NumberingAgrees
  <2>3. /\ writes'[i] = writes[i] \/ writes'[i] = Append(writes[i], e.seq)
        /\ \A a \in Rank \ {i} : writes'[a] = writes[a]
    BY <2>1, <2>2 DEF TypeOK
  <2> SUFFICES ASSUME NEW a \in Rank
               PROVE  /\ persisted_num'[a][a] <= delivered_num'[a][a]
                      /\ \A n \in 1 .. Len(writes'[a]) :
                             /\ persisted_num'[a][a] < writes'[a][n]
                             /\ writes'[a][n] <= delivered_num'[a][a]
                      /\ \A n, m \in 1 .. Len(writes'[a]) :
                             n < m => writes'[a][n] < writes'[a][m]
    BY DEF DiskFollows
  <2>4. /\ persisted_num[a][a] <= delivered_num[a][a]
        /\ \A n \in 1 .. Len(writes[a]) :
               persisted_num[a][a] < writes[a][n] /\ writes[a][n] <= delivered_num[a][a]
        /\ \A n, m \in 1 .. Len(writes[a]) : n < m => writes[a][n] < writes[a][m]
        /\ \A n \in 1 .. Len(writes[a]) : writes[a][n] \in Int
        /\ writes[a] \in Seq(Nat) /\ persisted_num[a][a] \in Int
    BY FiledType DEF Columns, DiskFollows
  <2>5. CASE a # i
    BY <1>2, <1>3, <2>3, <2>4, <2>5
  <2>6. CASE a = i
    <3>1. \A n \in 1 .. Len(writes[i]) : writes[i][n] < e.seq
      <4> DEFINE w == writes[i]
      <4>1. \A n \in 1 .. Len(w) : w[n] <= delivered_num[i][i] /\ w[n] \in Int
        BY <2>4, <2>6
      <4> HIDE DEF w
      <4> SUFFICES ASSUME NEW n \in 1 .. Len(w)
                   PROVE  w[n] < e.seq
        BY DEF w
      <4> QED
        BY <1>4, <4>1
    <3>2. persisted_num[i][i] < e.seq
      BY <1>4, <2>4, <2>6
    <3>3. CASE writes'[i] = writes[i]
      <4>1. \A n \in 1 .. Len(writes'[i]) :
                persisted_num[i][i] < writes'[i][n] /\ writes'[i][n] <= e.seq
        BY <1>4, <2>4, <2>6, <3>1, <3>3
      <4>2. \A n, m \in 1 .. Len(writes'[i]) : n < m => writes'[i][n] < writes'[i][m]
        BY <2>4, <2>6, <3>3
      <4>3. persisted_num[i][i] <= e.seq
        BY <1>4, <2>4, <2>6, <3>2
      <4> QED
        BY <1>2, <1>3, <2>6, <4>1, <4>2, <4>3
    <3>4. CASE writes'[i] = Append(writes[i], e.seq)
      <4>1. /\ Len(writes'[i]) = Len(writes[i]) + 1 /\ Len(writes[i]) \in Nat
            /\ writes'[i][Len(writes[i]) + 1] = e.seq
            /\ \A n \in 1 .. Len(writes[i]) : writes'[i][n] = writes[i][n]
        BY <2>4, <2>6, <3>4
      <4>2. \A n \in 1 .. Len(writes'[i]) : n \in 1 .. Len(writes[i]) \/ n = Len(writes[i]) + 1
        BY <4>1
      <4>3. \A n \in 1 .. Len(writes'[i]) :
                persisted_num[i][i] < writes'[i][n] /\ writes'[i][n] <= e.seq
        <5> SUFFICES ASSUME NEW n \in 1 .. Len(writes'[i])
                     PROVE  persisted_num[i][i] < writes'[i][n] /\ writes'[i][n] <= e.seq
          OBVIOUS
        <5>1. CASE n \in 1 .. Len(writes[i])
          <6>1. /\ writes'[i][n] = writes[i][n] /\ writes[i][n] \in Int
                /\ persisted_num[i][i] < writes[i][n] /\ writes[i][n] < e.seq
            BY <2>4, <2>6, <3>1, <4>1, <5>1
          <6> QED
            BY <1>4, <6>1
        <5>2. CASE n = Len(writes[i]) + 1
          BY <1>4, <3>2, <4>1, <5>2
        <5> QED
          BY <4>2, <5>1, <5>2
      <4>4. ASSUME NEW n \in 1 .. Len(writes'[i]), NEW m \in 1 .. Len(writes'[i]), n < m
            PROVE  writes'[i][n] < writes'[i][m]
        <5>1. n \in 1 .. Len(writes[i]) /\ writes'[i][n] = writes[i][n]
          BY <4>1, <4>4
        <5>2. CASE m \in 1 .. Len(writes[i])
          BY <2>4, <2>6, <4>1, <4>4, <5>1, <5>2
        <5>3. CASE m = Len(writes[i]) + 1
          BY <3>1, <4>1, <5>1, <5>3
        <5> QED
          BY <4>2, <5>2, <5>3
      <4>5. persisted_num[i][i] <= e.seq
        BY <1>4, <2>4, <2>6, <3>2
      <4> QED
        BY <1>2, <1>3, <2>6, <4>3, <4>4, <4>5
    <3> QED
      BY <2>3, <3>3, <3>4
  <2> QED
    BY <2>5, <2>6
<1> QED
    BY <1>3, <1>4, <1>5, <1>6, <1>7, <1>8 DEF Columns

\* What is on disk has been written after everything that was there before.
LEMMA FileWrittenColumns ==
    ASSUME CInv, NEW i \in Rank, FileWritten(i)
    PROVE  Columns' /\ persisted_num[i][i] < persisted_num'[i][i]
<1> USE DEF CInv, OInv, IInv
<1> DEFINE q == writes[i]
           p == Tail(writes[i])
<1>1. /\ q # <<>> /\ writes' = [writes EXCEPT ![i] = p]
      /\ persisted_num' = [persisted_num EXCEPT ![i][i] = Head(q)]
    BY DEF FileWritten, IsOldestWrite
<1>2. UNCHANGED <<nReceived, locally_stable_messages, delivered_num>>
    BY DEF FileWritten
<1>3. /\ writes'[i] = p
      /\ \A a \in Rank \ {i} : writes'[a] = writes[a]
      /\ persisted_num'[i][i] = Head(q)
      /\ \A a, b \in Rank : a # i \/ b # i => persisted_num'[a][b] = persisted_num[a][b]
    BY <1>1 DEF TypeOK
<1>4. q \in Seq(Nat)
    BY FiledType
<1>5. /\ Head(q) = q[1] /\ 1 \in 1 .. Len(q) /\ Len(q) \in Nat
      /\ Len(p) = Len(q) - 1
      /\ \A n \in 1 .. Len(p) : n + 1 \in 1 .. Len(q) /\ p[n] = q[n + 1]
  <2>1. Head(q) = q[1] /\ 1 \in 1 .. Len(q) /\ Len(q) \in Nat
    BY <1>1, <1>4
  <2>2. Len(p) = Len(q) - 1
    BY <1>1, <1>4
  <2>3. \A n \in 1 .. Len(p) : n + 1 \in 1 .. Len(q) /\ p[n] = q[n + 1]
    BY <1>1, <1>4, SMTT(40)
  <2> QED
    BY <2>1, <2>2, <2>3
<1>6. /\ \A n \in 1 .. Len(q) : /\ persisted_num[i][i] < q[n] /\ q[n] <= delivered_num[i][i]
                                /\ q[n] \in Int
      /\ \A n, m \in 1 .. Len(q) : n < m => q[n] < q[m]
    BY FiledType DEF Columns, DiskFollows
<1>7. /\ persisted_num[i][i] < Head(q) /\ Head(q) \in Int /\ Head(q) <= delivered_num[i][i]
      /\ persisted_num[i][i] \in Int
    BY <1>5, <1>6, FiledType
<1>8. Counted' /\ DistinctNumbers' /\ Undelivered'
    BY <1>2 DEF Columns, Counted, DistinctNumbers, Undelivered
<1>9. LateCopiesTrail'
  <2> SUFFICES ASSUME NEW a \in Rank, NEW b \in Rank
               PROVE  /\ delivered_num'[a][b] <= delivered_num'[b][b]
                      /\ persisted_num'[a][b] <= persisted_num'[b][b]
    BY DEF LateCopiesTrail
  <2>1. /\ delivered_num[a][b] <= delivered_num[b][b]
        /\ persisted_num[a][b] <= persisted_num[b][b]
        /\ persisted_num[a][b] \in Int /\ persisted_num[b][b] \in Int
    BY FiledType DEF Columns, LateCopiesTrail
  <2>2. CASE b # i
    BY <1>2, <1>3, <2>1, <2>2
  <2>3. CASE b = i /\ a # i
    BY <1>2, <1>3, <1>7, <2>1, <2>3
  <2>4. CASE b = i /\ a = i
    BY <1>2, <1>3, <1>7, <2>1, <2>4
  <2> QED
    BY <2>2, <2>3, <2>4
<1> HIDE DEF q, p
<1>10. /\ \A n \in 1 .. Len(p) : Head(q) < p[n] /\ p[n] <= delivered_num[i][i]
       /\ \A n, m \in 1 .. Len(p) : n < m => p[n] < p[m]
  <2>1. \A n \in 1 .. Len(p) : Head(q) < p[n] /\ p[n] <= delivered_num[i][i]
    <3> SUFFICES ASSUME NEW n \in 1 .. Len(p)
                 PROVE  Head(q) < p[n] /\ p[n] <= delivered_num[i][i]
      OBVIOUS
    <3>1. 1 < n + 1 /\ n + 1 \in 1 .. Len(q) /\ p[n] = q[n + 1]
      BY <1>5
    <3> QED
      BY <1>5, <1>6, <3>1
  <2>2. ASSUME NEW n \in 1 .. Len(p), NEW m \in 1 .. Len(p), n < m
        PROVE  p[n] < p[m]
    <3>1. n + 1 < m + 1 /\ n + 1 \in 1 .. Len(q) /\ m + 1 \in 1 .. Len(q)
      BY <1>5, <2>2
    <3> QED
      BY <1>5, <1>6, <3>1
  <2> QED
    BY <2>1, <2>2
<1>11. DiskFollows'
  <2> SUFFICES ASSUME NEW a \in Rank
               PROVE  /\ persisted_num'[a][a] <= delivered_num'[a][a]
                      /\ \A n \in 1 .. Len(writes'[a]) :
                             /\ persisted_num'[a][a] < writes'[a][n]
                             /\ writes'[a][n] <= delivered_num'[a][a]
                      /\ \A n, m \in 1 .. Len(writes'[a]) :
                             n < m => writes'[a][n] < writes'[a][m]
    BY DEF DiskFollows
  <2>1. CASE a # i
    BY <1>2, <1>3, <2>1 DEF Columns, DiskFollows
  <2>2. CASE a = i
    BY <1>2, <1>3, <1>7, <1>10, <2>2
  <2> QED
    BY <2>1, <2>2
<1> QED
    BY <1>3, <1>7, <1>8, <1>9, <1>11 DEF Columns

\* A copy that is refreshed is as new as the row, and no row changes.
LEMMA LateArrivalColumns ==
    ASSUME CInv, NEW i \in Rank, NEW j \in Rank,
           DeliveredNumArrives(i, j) \/ PersistedNumArrives(i, j)
    PROVE  /\ Columns'
           /\ \A a, b \in Rank : /\ delivered_num[a][b] <= delivered_num'[a][b]
                                 /\ persisted_num[a][b] <= persisted_num'[a][b]
<1> USE DEF CInv, OInv, IInv
<1>1. i # j
    BY DEF DeliveredNumArrives, PersistedNumArrives
<1>2. UNCHANGED <<nReceived, locally_stable_messages, writes>>
    BY DEF DeliveredNumArrives, PersistedNumArrives, messageVars
<1>3. \A a, b \in Rank :
          /\ delivered_num'[a][b] \in {delivered_num[a][b], delivered_num[b][b]}
          /\ persisted_num'[a][b] \in {persisted_num[a][b], persisted_num[b][b]}
  <2> SUFFICES ASSUME NEW a \in Rank, NEW b \in Rank
               PROVE  /\ delivered_num'[a][b] \in {delivered_num[a][b], delivered_num[b][b]}
                      /\ persisted_num'[a][b] \in {persisted_num[a][b], persisted_num[b][b]}
    OBVIOUS
  <2>1. delivered_num \in [Rank -> [Rank -> Number]] /\ persisted_num \in [Rank -> [Rank -> Number]]
    BY DEF TypeOK
  <2>2. delivered_num' = delivered_num \/ delivered_num' = Copied(delivered_num, i, j)
    BY DEF DeliveredNumArrives, PersistedNumArrives
  <2>3. persisted_num' = persisted_num \/ persisted_num' = Copied(persisted_num, i, j)
    BY DEF DeliveredNumArrives, PersistedNumArrives
  <2>4. delivered_num'[a][b] \in {delivered_num[a][b], delivered_num[b][b]}
    BY <2>1, <2>2 DEF Copied
  <2>5. persisted_num'[a][b] \in {persisted_num[a][b], persisted_num[b][b]}
    BY <2>1, <2>3 DEF Copied
  <2> QED
    BY <2>4, <2>5
<1>4. \A a, b \in Rank :
          /\ delivered_num[a][b] <= delivered_num[b][b]
          /\ persisted_num[a][b] <= persisted_num[b][b]
          /\ delivered_num[a][b] \in Int /\ persisted_num[a][b] \in Int
    BY FiledType DEF Columns, LateCopiesTrail
<1>5. \A a \in Rank : /\ delivered_num'[a][a] = delivered_num[a][a]
                      /\ persisted_num'[a][a] = persisted_num[a][a]
    BY <1>3
<1>6. LateCopiesTrail'
    BY <1>3, <1>4, <1>5 DEF LateCopiesTrail
<1>7. Counted' /\ DistinctNumbers' /\ Undelivered' /\ DiskFollows'
    BY <1>2, <1>5 DEF Columns, Counted, DistinctNumbers, Undelivered, DiskFollows
<1>8. \A a, b \in Rank : /\ delivered_num[a][b] <= delivered_num'[a][b]
                         /\ persisted_num[a][b] <= persisted_num'[a][b]
    BY <1>3, <1>4
<1> QED
    BY <1>6, <1>7, <1>8 DEF Columns

\* A step that leaves the counts, what is filed, the last two columns and the
\* FileWriter alone.
LEMMA ColumnsNotDisturbed ==
    ASSUME Columns,
           UNCHANGED <<nReceived, locally_stable_messages, delivered_num,
                       persisted_num, writes>>
    PROVE  Columns'
BY DEF Columns, Counted, DistinctNumbers, Undelivered, LateCopiesTrail, DiskFollows

(***************************************************************************)
(* Every step keeps the invariant, and no column goes back.                *)
(***************************************************************************)
NoColumnBack ==
    \A i, j \in Rank :
        /\ seq_num'[i][j] >= seq_num[i][j]
        /\ stable_num'[i][j] >= stable_num[i][j]
        /\ delivered_num'[i][j] >= delivered_num[i][j]
        /\ persisted_num'[i][j] >= persisted_num[i][j]

\* Steps that grow some columns and leave the others alone.
LEMMA ColumnsGrow ==
    ASSUME TypeOK,
           UNCHANGED seq_num \/ \A a, b \in Rank : seq_num[a][b] <= seq_num'[a][b],
           UNCHANGED stable_num \/ \A a, b \in Rank : stable_num[a][b] <= stable_num'[a][b],
           \/ UNCHANGED delivered_num
           \/ \A a, b \in Rank : delivered_num[a][b] <= delivered_num'[a][b],
           \/ UNCHANGED persisted_num
           \/ \A a, b \in Rank : persisted_num[a][b] <= persisted_num'[a][b]
    PROVE  NoColumnBack
<1> SUFFICES ASSUME NEW a \in Rank, NEW b \in Rank
             PROVE  /\ seq_num'[a][b] >= seq_num[a][b]
                    /\ stable_num'[a][b] >= stable_num[a][b]
                    /\ delivered_num'[a][b] >= delivered_num[a][b]
                    /\ persisted_num'[a][b] >= persisted_num[a][b]
    BY DEF NoColumnBack
<1>1. /\ seq_num[a][b] \in Int /\ stable_num[a][b] \in Int
      /\ delivered_num[a][b] \in Int /\ persisted_num[a][b] \in Int
    BY ColumnType, FiledType
<1>2. seq_num'[a][b] >= seq_num[a][b]
    BY <1>1
<1>3. stable_num'[a][b] >= stable_num[a][b]
    BY <1>1
<1>4. delivered_num'[a][b] >= delivered_num[a][b]
    BY <1>1
<1>5. persisted_num'[a][b] >= persisted_num[a][b]
    BY <1>1
<1> QED
    BY <1>2, <1>3, <1>4, <1>5

\* The receive handler.
LEMMA ReceiveKeeps ==
    ASSUME CInv, NEW i \in Rank, NEW k \in Rank,
           RdmcReceive(i, k) \/ (k = i /\ OwnReceive(i))
    PROVE  Columns' /\ NoColumnBack
<1>1. PICK m : IsNext(i, k, m) /\ MessageReceived(i, k, m)
    BY RdmcReceiveNext, OwnReceiveNext DEF CInv
<1>2. UNCHANGED <<stable_num, delivered_num, persisted_num, writes>>
    BY DEF RdmcReceive, OwnReceive
<1>3. Columns'
    BY <1>1, <1>2, ReceiveColumns
<1>4. TypeOK /\ SeqNumBeforeGaps
    BY DEF CInv, OInv, IInv, Promises
<1>5. \A a, b \in Rank : seq_num[a][b] <= seq_num'[a][b]
    BY <1>1, <1>4, SeqNumGrows DEF IsNext
<1> QED
    BY <1>2, <1>3, <1>4, <1>5, ColumnsGrow

\* The stability predicate, and the arrival of the first two columns.
LEMMA StabilityKeeps ==
    ASSUME CInv, NEW i \in Rank, NEW j \in Rank,
           StabilityTrig(i) \/ SeqNumArrives(i, j) \/ StableNumArrives(i, j)
    PROVE  Columns' /\ NoColumnBack
<1>1. TypeOK /\ CopiesTrail /\ Columns
    BY DEF CInv, OInv, IInv, Promises
<1>2. UNCHANGED <<nReceived, locally_stable_messages, delivered_num, persisted_num, writes>>
    BY DEF StabilityTrig, SeqNumArrives, StableNumArrives, messageVars
<1>3. Columns'
    BY <1>1, <1>2, ColumnsNotDisturbed
<1>4. \A a, b \in Rank : /\ seq_num[a][b] \in Int /\ stable_num[a][b] \in Int
                         /\ seq_num[a][b] <= seq_num[b][b]
                         /\ stable_num[a][b] <= stable_num[b][b]
    BY <1>1, ColumnType DEF CopiesTrail
<1>5. seq_num \in [Rank -> [Rank -> Number]] /\ stable_num \in [Rank -> [Rank -> Number]]
    BY <1>1 DEF TypeOK
<1>6. CASE StabilityTrig(i)
  <2>1. PICK k \in Rank : /\ seq_num[i][k] > stable_num[i][i]
                          /\ stable_num' = [stable_num EXCEPT ![i][i] = seq_num[i][k]]
    BY <1>6 DEF StabilityTrig
  <2>2. UNCHANGED seq_num
    BY <1>6 DEF StabilityTrig
  <2>3. ASSUME NEW a \in Rank, NEW b \in Rank
        PROVE  stable_num[a][b] <= stable_num'[a][b]
    <3>1. CASE a = i /\ b = i
      <4>1. stable_num'[i][i] = seq_num[i][k]
        BY <1>5, <2>1
      <4> QED
        BY <1>4, <2>1, <3>1, <4>1
    <3>2. CASE a # i \/ b # i
      <4>1. stable_num'[a][b] = stable_num[a][b]
        BY <1>5, <2>1, <3>2
      <4> QED
        BY <1>4, <4>1
    <3> QED
      BY <3>1, <3>2
  <2> QED
    BY <1>1, <1>2, <1>3, <2>2, <2>3, ColumnsGrow
<1>7. CASE SeqNumArrives(i, j)
  <2>1. seq_num' = Copied(seq_num, i, j) /\ UNCHANGED stable_num
    BY <1>7 DEF SeqNumArrives
  <2>2. ASSUME NEW a \in Rank, NEW b \in Rank
        PROVE  seq_num[a][b] <= seq_num'[a][b]
    <3>1. seq_num'[a][b] \in {seq_num[a][b], seq_num[b][b]}
      BY <1>5, <2>1 DEF Copied
    <3> QED
      BY <1>4, <3>1
  <2> QED
    BY <1>1, <1>2, <1>3, <2>1, <2>2, ColumnsGrow
<1>8. CASE StableNumArrives(i, j)
  <2>1. stable_num' = Copied(stable_num, i, j) /\ UNCHANGED seq_num
    BY <1>8 DEF StableNumArrives
  <2>2. ASSUME NEW a \in Rank, NEW b \in Rank
        PROVE  stable_num[a][b] <= stable_num'[a][b]
    <3>1. stable_num'[a][b] \in {stable_num[a][b], stable_num[b][b]}
      BY <1>5, <2>1 DEF Copied
    <3> QED
      BY <1>4, <3>1
  <2> QED
    BY <1>1, <1>2, <1>3, <2>1, <2>2, ColumnsGrow
<1> QED
    BY <1>6, <1>7, <1>8

\* Delivery, the disk, and the arrival of the last two columns.
LEMMA DeliveryKeeps ==
    ASSUME CInv, NEW i \in Rank, NEW j \in Rank,
           \/ DeliveryTrig(i) \/ FileWritten(i)
           \/ DeliveredNumArrives(i, j) \/ PersistedNumArrives(i, j)
    PROVE  Columns' /\ NoColumnBack
<1>1. TypeOK
    BY DEF CInv, OInv, IInv
<1>2. UNCHANGED <<seq_num, stable_num>>
    BY DEF DeliveryTrig, FileWritten, DeliveredNumArrives, PersistedNumArrives
<1>3. CASE DeliveryTrig(i)
  <2>1. Columns' /\ delivered_num[i][i] < delivered_num'[i][i]
    BY <1>3, DeliveryTrigColumns
  <2>2. UNCHANGED persisted_num
    BY <1>3 DEF DeliveryTrig
  <2>3. \A a, b \in Rank : a # i \/ b # i => delivered_num'[a][b] = delivered_num[a][b]
    BY <1>1, <1>3 DEF DeliveryTrig, TypeOK
  <2>4. PICK e \in locally_stable_messages[i] :
            delivered_num' = [delivered_num EXCEPT ![i][i] = e.seq]
    BY <1>3 DEF DeliveryTrig
  <2>5. delivered_num'[i][i] = e.seq /\ e.seq \in Int
    BY <1>1, <2>4, FiledType DEF TypeOK
  <2>6. \A a, b \in Rank : delivered_num[a][b] <= delivered_num'[a][b]
    BY <1>1, <2>1, <2>3, <2>5, FiledType, SMTT(40)
  <2> QED
    BY <1>1, <1>2, <2>1, <2>2, <2>6, ColumnsGrow
<1>4. CASE FileWritten(i)
  <2>1. Columns' /\ persisted_num[i][i] < persisted_num'[i][i]
    BY <1>4, FileWrittenColumns
  <2>2. UNCHANGED delivered_num
    BY <1>4 DEF FileWritten
  <2>3. PICK e \in non_persistent_messages[i] :
            persisted_num' = [persisted_num EXCEPT ![i][i] = e.seq]
    BY <1>4 DEF FileWritten
  <2>4. /\ persisted_num'[i][i] = e.seq /\ e.seq \in Int
        /\ \A a, b \in Rank : a # i \/ b # i => persisted_num'[a][b] = persisted_num[a][b]
    BY <1>1, <2>3, FiledType DEF TypeOK
  <2>5. \A a, b \in Rank : persisted_num[a][b] <= persisted_num'[a][b]
    BY <1>1, <2>1, <2>4, FiledType
  <2> QED
    BY <1>1, <1>2, <2>1, <2>2, <2>5, ColumnsGrow
<1>5. CASE DeliveredNumArrives(i, j) \/ PersistedNumArrives(i, j)
  <2>1. /\ Columns'
        /\ \A a, b \in Rank : /\ delivered_num[a][b] <= delivered_num'[a][b]
                              /\ persisted_num[a][b] <= persisted_num'[a][b]
    BY <1>5, LateArrivalColumns
  <2> QED
    BY <1>1, <1>2, <2>1, ColumnsGrow
<1> QED
    BY <1>3, <1>4, <1>5

\* Every step.
LEMMA ColumnsStep ==
    ASSUME CInv, [Next]_vars
    PROVE  Columns' /\ NoColumnBack
<1>1. ASSUME UNCHANGED <<nReceived, seq_num, stable_num, delivered_num, persisted_num,
                         locally_stable_messages, writes>>
      PROVE  Columns' /\ NoColumnBack
    BY <1>1, ColumnsNotDisturbed, ColumnsGrow DEF CInv, OInv, IInv
<1>2. ASSUME NEW i \in Rank, NEW turns \in 0 .. MaxPause, GetPosition(i, turns)
      PROVE  Columns' /\ NoColumnBack
    BY <1>1, <1>2 DEF GetPosition, sstVars
<1>3. ASSUME NEW i \in Rank, Send(i) \/ SenderStep(i) \/ Wedge(i)
      PROVE  Columns' /\ NoColumnBack
    BY <1>1, <1>3 DEF Send, SenderStep, Wedge, WedgeStep, sstVars, messageVars
<1>4. ASSUME NEW i \in Rank, NEW k \in Rank, RdmcIncoming(i, k)
      PROVE  Columns' /\ NoColumnBack
    BY <1>1, <1>4 DEF RdmcIncoming, sstVars
<1>5. ASSUME NEW i \in Rank, NEW k \in Rank, RdmcReceive(i, k)
      PROVE  Columns' /\ NoColumnBack
    BY <1>5, ReceiveKeeps
<1>6. ASSUME NEW i \in Rank, OwnReceive(i)
      PROVE  Columns' /\ NoColumnBack
    BY <1>6, ReceiveKeeps
<1>7. ASSUME NEW i \in Rank, NEW j \in Rank,
             StabilityTrig(i) \/ SeqNumArrives(i, j) \/ StableNumArrives(i, j)
      PROVE  Columns' /\ NoColumnBack
    BY <1>7, StabilityKeeps
<1>8. ASSUME NEW i \in Rank, NEW j \in Rank,
             \/ DeliveryTrig(i) \/ FileWritten(i)
             \/ DeliveredNumArrives(i, j) \/ PersistedNumArrives(i, j)
      PROVE  Columns' /\ NoColumnBack
    BY <1>8, DeliveryKeeps
<1>9. ASSUME UNCHANGED vars
      PROVE  Columns' /\ NoColumnBack
    BY <1>1, <1>9 DEF vars, sstVars, messageVars
<1> QED
    BY <1>2, <1>3, <1>4, <1>5, <1>6, <1>7, <1>8, <1>9 DEF Next

\* The invariant holds before the first message.
LEMMA ColumnsInit == Init => CInv
<1> SUFFICES ASSUME Init
             PROVE  CInv
    OBVIOUS
<1>1. OInv
    BY OrderInit
<1>2. Columns
    BY DEF Init, initialize_sst_row, Columns, Counted, DistinctNumbers, Undelivered,
           LateCopiesTrail, DiskFollows
<1> QED
    BY <1>1, <1>2 DEF CInv

\* The invariant always holds.
LEMMA ColumnsInvariant == Spec => []CInv
<1>1. CInv /\ [Next]_vars => CInv'
  <2> SUFFICES ASSUME CInv, [Next]_vars
               PROVE  CInv'
    OBVIOUS
  <2>1. OInv'
    BY OrderStep DEF CInv
  <2>2. Columns'
    BY ColumnsStep
  <2> QED
    BY <2>1, <2>2 DEF CInv
<1> QED
    BY <1>1, ColumnsInit, PTL DEF Spec

(***************************************************************************)
(* The columns.                                                            *)
(***************************************************************************)
\* No column that is read without a lock goes back, in a member's own row or in
\* a copy: what get_position or a trigger has tested stays true.
THEOREM NoRegression == Spec => ColumnsNeverRegress
<1>1. CInv /\ [Next]_vars => [NoColumnBack]_vars
    BY ColumnsStep
<1>2. Spec => [][NoColumnBack]_vars
    BY <1>1, ColumnsInvariant, PTL DEF Spec
<1> QED
    BY <1>2 DEF ColumnsNeverRegress, NoColumnBack

(***************************************************************************)
(* What is on disk is a prefix of what has been delivered.                 *)
(***************************************************************************)
NumberOf(u) == SeqNum(u.sender_rank, u.index)

\* The first d of the messages that member i has delivered are on disk, and the
\* FileWriter has the others.
OnDisk(i, d) ==
    /\ d \in Nat /\ Len(delivered[i]) = d + Len(writes[i])
    /\ \A n \in 1 .. Len(writes[i]) : writes[i][n] = NumberOf(delivered[i][d + n])
    /\ d = 0 => persisted_num[i][i] = -1
    /\ d # 0 => persisted_num[i][i] = NumberOf(delivered[i][d])

\* The messages that the FileWriter has are found by their numbers.
Findable(i) ==
    /\ \A e \in non_persistent_messages[i] :
           \E n \in 1 .. Len(writes[i]) : e.seq = writes[i][n]
    /\ \A n \in 1 .. Len(writes[i]) :
           \E e \in non_persistent_messages[i] : e.seq = writes[i][n]
    /\ \A e, f \in non_persistent_messages[i] : e.seq = f.seq => e = f

Backlog == \A i \in Rank : Persistent => Findable(i) /\ \E d \in Nat : OnDisk(i, d)

\* Only the delivery predicate and the FileWriter change any of it.
LEMMA BacklogKept ==
    ASSUME NEW i \in Rank, Persistent => Findable(i) /\ \E d \in Nat : OnDisk(i, d),
           delivered'[i] = delivered[i], writes'[i] = writes[i],
           persisted_num'[i][i] = persisted_num[i][i],
           non_persistent_messages'[i] = non_persistent_messages[i]
    PROVE  Persistent => Findable(i)' /\ \E d \in Nat : OnDisk(i, d)'
BY DEF Findable, OnDisk

\* A delivered message goes to the end of the queue, under a number that no
\* message on its way to the disk has.
LEMMA DeliveryBacklog ==
    ASSUME CInv, Backlog, NEW i \in Rank, DeliveryTrig(i)
    PROVE  Backlog'
<1> SUFFICES ASSUME NEW a \in Rank, Persistent
             PROVE  Findable(a)' /\ \E d \in Nat : OnDisk(a, d)'
    BY DEF Backlog
<1> USE DEF CInv, OInv, IInv
<1>1. PICK e \in locally_stable_messages[i] : deliver_message(i, e.msg)
    BY DEF DeliveryTrig
<1>2. UNCHANGED persisted_num
    BY DEF DeliveryTrig
<1>3. Findable(a) /\ \E d \in Nat : OnDisk(a, d)
    BY DEF Backlog
<1>4. CASE a # i \/ e.msg.size = 0
  <2>1. /\ delivered'[a] = delivered[a] /\ writes'[a] = writes[a]
        /\ non_persistent_messages'[a] = non_persistent_messages[a]
    <3>1. CASE e.msg.size = 0
      BY <1>1, <3>1 DEF deliver_message
    <3>2. CASE a # i /\ e.msg.size # 0
      <4>1. PICK u, key, f :
                /\ delivered' = [delivered EXCEPT ![i] = Append(@, u)]
                /\ writes' = [writes EXCEPT ![i] = Append(@, key)]
                /\ non_persistent_messages' =
                       [non_persistent_messages EXCEPT ![i] = @ \cup {f}]
        BY <1>1, <3>2 DEF deliver_message
      <4>2. delivered'[a] = delivered[a]
        BY <3>2, <4>1
      <4>3. writes'[a] = writes[a]
        BY <3>2, <4>1
      <4>4. non_persistent_messages'[a] = non_persistent_messages[a]
        BY <3>2, <4>1
      <4> QED
        BY <4>2, <4>3, <4>4
    <3> QED
      BY <1>4, <3>1, <3>2
  <2> QED
    BY <1>2, <1>3, <2>1, BacklogKept
<1>5. CASE a = i /\ e.msg.size # 0
  <2>1. PICK key : key = SeqNum(e.msg.sender_rank, e.msg.index)
    OBVIOUS
  <2>2. PICK u : u = UpcallOf(e.msg)
    OBVIOUS
  <2>3. PICK f : f = File(key, e.msg)
    OBVIOUS
  <2>4. NumberOf(u) = key /\ f.seq = key
    BY <2>1, <2>2, <2>3 DEF NumberOf, UpcallOf, File
  <2>5. /\ delivered'[i] = Append(delivered[i], u)
        /\ writes'[i] = Append(writes[i], key)
        /\ non_persistent_messages'[i] = non_persistent_messages[i] \cup {f}
    BY <1>1, <1>5, <2>1, <2>2, <2>3 DEF deliver_message, TypeOK
  <2>6. writes[i] \in Seq(Nat) /\ delivered[i] \in Seq(Upcall)
    BY DEF TypeOK
  <2>7. /\ Len(writes[i]) \in Nat /\ Len(writes'[i]) = Len(writes[i]) + 1
        /\ writes'[i][Len(writes[i]) + 1] = key
        /\ \A n \in 1 .. Len(writes[i]) : writes'[i][n] = writes[i][n]
    BY <2>5, <2>6
  <2>8. /\ Len(delivered[i]) \in Nat /\ Len(delivered'[i]) = Len(delivered[i]) + 1
        /\ delivered'[i][Len(delivered[i]) + 1] = u
        /\ \A n \in 1 .. Len(delivered[i]) : delivered'[i][n] = delivered[i][n]
    BY <2>5, <2>6
  <2>9. \A n \in 1 .. Len(writes'[i]) : n \in 1 .. Len(writes[i]) \/ n = Len(writes[i]) + 1
    BY <2>7
  <2>10. \A g \in non_persistent_messages[i] : g.seq # key
    <3> SUFFICES ASSUME NEW g \in non_persistent_messages[i]
                 PROVE  g.seq # key
      OBVIOUS
    <3>1. PICK n \in 1 .. Len(writes[i]) : g.seq = writes[i][n]
      BY <1>3, <1>5 DEF Findable
    <3>2. writes[i][n] <= delivered_num[i][i] /\ delivered_num[i][i] < e.seq
      BY DEF Columns, DiskFollows, Undelivered
    <3>3. e.seq = key
      BY <2>1 DEF Orderly, NumberingAgrees
    <3>4. writes[i][n] \in Int /\ delivered_num[i][i] \in Int /\ e.seq \in Int
      BY FiledType
    <3> QED
      BY <3>1, <3>2, <3>3, <3>4
  <2>11. Findable(i)'
    <3>1. ASSUME NEW g \in non_persistent_messages'[i]
          PROVE  \E n \in 1 .. Len(writes'[i]) : g.seq = writes'[i][n]
      <4>1. CASE g \in non_persistent_messages[i]
        <5>1. PICK n \in 1 .. Len(writes[i]) : g.seq = writes[i][n]
          BY <1>3, <1>5, <4>1 DEF Findable
        <5> QED
          BY <2>7, <5>1
      <4>2. CASE g = f
        BY <2>4, <2>7, <4>2
      <4> QED
        BY <2>5, <4>1, <4>2
    <3>2. ASSUME NEW n \in 1 .. Len(writes'[i])
          PROVE  \E g \in non_persistent_messages'[i] : g.seq = writes'[i][n]
      <4>1. CASE n \in 1 .. Len(writes[i])
        BY <1>3, <1>5, <2>5, <2>7, <4>1 DEF Findable
      <4>2. CASE n = Len(writes[i]) + 1
        BY <2>4, <2>5, <2>7, <4>2
      <4> QED
        BY <2>9, <4>1, <4>2
    <3>3. \A g, h \in non_persistent_messages'[i] : g.seq = h.seq => g = h
      BY <1>3, <1>5, <2>4, <2>5, <2>10 DEF Findable
    <3> QED
      BY <3>1, <3>2, <3>3 DEF Findable
  <2>12. PICK d \in Nat : OnDisk(i, d)
    BY <1>3, <1>5
  <2>13. OnDisk(i, d)'
    <3>1. /\ Len(delivered[i]) = d + Len(writes[i])
          /\ \A n \in 1 .. Len(writes[i]) : writes[i][n] = NumberOf(delivered[i][d + n])
          /\ d = 0 => persisted_num[i][i] = -1
          /\ d # 0 => persisted_num[i][i] = NumberOf(delivered[i][d])
      BY <2>12 DEF OnDisk
    <3>2. Len(delivered'[i]) = d + Len(writes'[i])
      BY <2>7, <2>8, <3>1
    <3>3. ASSUME NEW n \in 1 .. Len(writes'[i])
          PROVE  writes'[i][n] = NumberOf(delivered'[i][d + n])
      <4>1. CASE n \in 1 .. Len(writes[i])
        <5>1. d + n \in 1 .. Len(delivered[i])
          BY <2>7, <3>1, <4>1
        <5> QED
          BY <2>7, <2>8, <3>1, <4>1, <5>1
      <4>2. CASE n = Len(writes[i]) + 1
        <5>1. d + n = Len(delivered[i]) + 1
          BY <2>7, <3>1, <4>2
        <5> QED
          BY <2>4, <2>7, <2>8, <4>2, <5>1
      <4> QED
        BY <2>9, <4>1, <4>2
    <3>4. d # 0 => d \in 1 .. Len(delivered[i])
      BY <2>7, <3>1
    <3>5. d # 0 => persisted_num[i][i] = NumberOf(delivered'[i][d])
      BY <2>8, <3>1, <3>4
    <3> QED
      BY <1>2, <3>1, <3>2, <3>3, <3>5 DEF OnDisk, NumberOf
  <2> QED
    BY <1>5, <2>11, <2>13
<1> QED
    BY <1>4, <1>5

\* A message that is on disk leaves the front of the queue, and is the only one
\* that is found by its number.
LEMMA FileWrittenBacklog ==
    ASSUME CInv, Backlog, NEW i \in Rank, FileWritten(i)
    PROVE  Backlog'
<1> SUFFICES ASSUME NEW a \in Rank, Persistent
             PROVE  Findable(a)' /\ \E d \in Nat : OnDisk(a, d)'
    BY DEF Backlog
<1> USE DEF CInv, OInv, IInv
<1>1. PICK e \in non_persistent_messages[i] :
          /\ e.seq = Head(writes[i])
          /\ non_persistent_messages' = [non_persistent_messages EXCEPT ![i] = @ \ {e}]
          /\ persisted_num' = [persisted_num EXCEPT ![i][i] = e.seq]
    BY DEF FileWritten, IsOldestWrite
<1>2. /\ writes[i] # <<>> /\ writes' = [writes EXCEPT ![i] = Tail(@)]
      /\ delivered' = delivered
    BY DEF FileWritten
<1>3. Findable(a) /\ \E d \in Nat : OnDisk(a, d)
    BY DEF Backlog
<1>4. CASE a # i
  <2>1. /\ delivered'[a] = delivered[a] /\ writes'[a] = writes[a]
        /\ non_persistent_messages'[a] = non_persistent_messages[a]
        /\ persisted_num'[a][a] = persisted_num[a][a]
    BY <1>1, <1>2, <1>4 DEF TypeOK
  <2> QED
    BY <1>3, <2>1, BacklogKept
<1>5. CASE a = i
  <2>1. /\ writes'[i] = Tail(writes[i])
        /\ non_persistent_messages'[i] = non_persistent_messages[i] \ {e}
        /\ persisted_num'[i][i] = e.seq
    BY <1>1, <1>2 DEF TypeOK
  <2>2. writes[i] \in Seq(Nat)
    BY DEF TypeOK
  <2>3. Head(writes[i]) = writes[i][1] /\ 1 \in 1 .. Len(writes[i]) /\ Len(writes[i]) \in Nat
    BY <1>2, <2>2
  <2>4. Len(writes'[i]) = Len(writes[i]) - 1
    <3>1. Len(Tail(writes[i])) = Len(writes[i]) - 1
      BY <1>2, <2>2
    <3> QED
      BY <2>1, <3>1
  <2>5. \A n \in 1 .. Len(writes'[i]) :
            n + 1 \in 1 .. Len(writes[i]) /\ writes'[i][n] = writes[i][n + 1]
    <3>1. \A n \in 1 .. Len(Tail(writes[i])) :
              n + 1 \in 1 .. Len(writes[i]) /\ Tail(writes[i])[n] = writes[i][n + 1]
      BY <1>2, <2>2
    <3> QED
      BY <2>1, <3>1
  <2>6. \A n \in 1 .. Len(writes[i]) : n = 1 \/ n - 1 \in 1 .. Len(writes'[i])
    BY <2>3, <2>4
  <2>7. Findable(i)'
    <3>1. ASSUME NEW g \in non_persistent_messages'[i]
          PROVE  \E n \in 1 .. Len(writes'[i]) : g.seq = writes'[i][n]
      <4>1. g \in non_persistent_messages[i] /\ g # e
        BY <2>1
      <4>2. PICK n \in 1 .. Len(writes[i]) : g.seq = writes[i][n]
        BY <1>3, <1>5, <4>1 DEF Findable
      <4>3. n # 1
        BY <1>1, <1>3, <1>5, <2>3, <4>1, <4>2 DEF Findable
      <4>4. n - 1 \in 1 .. Len(writes'[i]) /\ writes'[i][n - 1] = writes[i][n]
        BY <2>5, <2>6, <4>3
      <4> QED
        BY <4>2, <4>4
    <3>2. ASSUME NEW n \in 1 .. Len(writes'[i])
          PROVE  \E g \in non_persistent_messages'[i] : g.seq = writes'[i][n]
      <4>1. n + 1 \in 1 .. Len(writes[i]) /\ writes'[i][n] = writes[i][n + 1] /\ 1 < n + 1
        BY <2>5
      <4>2. PICK g \in non_persistent_messages[i] : g.seq = writes[i][n + 1]
        BY <1>3, <1>5, <4>1 DEF Findable
      <4>3. /\ writes[i][1] < writes[i][n + 1]
            /\ writes[i][1] \in Int /\ writes[i][n + 1] \in Int
        BY <2>3, <4>1, FiledType DEF Columns, DiskFollows
      <4>4. g # e
        BY <1>1, <2>3, <4>2, <4>3
      <4> QED
        BY <2>1, <4>1, <4>2, <4>4
    <3>3. \A g, h \in non_persistent_messages'[i] : g.seq = h.seq => g = h
      BY <1>3, <1>5, <2>1 DEF Findable
    <3> QED
      BY <3>1, <3>2, <3>3 DEF Findable
  <2>8. PICK d \in Nat : OnDisk(i, d)
    BY <1>3, <1>5
  <2>9. OnDisk(i, d + 1)'
    <3>1. /\ Len(delivered[i]) = d + Len(writes[i])
          /\ \A n \in 1 .. Len(writes[i]) : writes[i][n] = NumberOf(delivered[i][d + n])
      BY <2>8 DEF OnDisk
    <3>2. Len(delivered'[i]) = (d + 1) + Len(writes'[i])
      <4>1. delivered'[i] = delivered[i] /\ Len(delivered[i]) = d + Len(writes[i])
        BY <1>2, <3>1
      <4>2. Len(delivered'[i]) = d + Len(writes[i])
        BY <4>1
      <4>3. PICK l \in Nat : l = Len(writes[i])
        BY <2>3
      <4>4. Len(writes'[i]) = l - 1
        BY <2>4, <4>3
      <4>5. Len(delivered'[i]) = d + l
        BY <4>2, <4>3
      <4>6. d + l = (d + 1) + (l - 1)
        OBVIOUS
      <4> QED
        BY <4>4, <4>5, <4>6
    <3>3. ASSUME NEW n \in 1 .. Len(writes'[i])
          PROVE  writes'[i][n] = NumberOf(delivered'[i][(d + 1) + n])
      <4>1. n + 1 \in 1 .. Len(writes[i]) /\ writes'[i][n] = writes[i][n + 1]
        BY <2>5
      <4>2. d + (n + 1) = (d + 1) + n
        OBVIOUS
      <4> QED
        BY <1>2, <3>1, <4>1, <4>2
    <3>4. persisted_num'[i][i] = NumberOf(delivered'[i][d + 1])
      BY <1>1, <1>2, <2>1, <2>3, <3>1
    <3>5. d + 1 \in Nat /\ d + 1 # 0
      OBVIOUS
    <3> QED
      BY <3>2, <3>3, <3>4, <3>5 DEF OnDisk, NumberOf
  <2> QED
    BY <1>5, <2>7, <2>9
<1> QED
    BY <1>4, <1>5

\* Every step.
LEMMA BacklogStep ==
    ASSUME CInv, Backlog, [Next]_vars
    PROVE  Backlog'
<1>1. ASSUME UNCHANGED <<delivered, writes, non_persistent_messages>>,
             \A a \in Rank : persisted_num'[a][a] = persisted_num[a][a]
      PROVE  Backlog'
    BY <1>1, BacklogKept DEF Backlog
<1>2. ASSUME UNCHANGED <<delivered, writes, non_persistent_messages, persisted_num>>
      PROVE  Backlog'
    BY <1>1, <1>2
<1>3. ASSUME NEW i \in Rank, NEW turns \in 0 .. MaxPause, GetPosition(i, turns)
      PROVE  Backlog'
    BY <1>2, <1>3 DEF GetPosition, sstVars
<1>4. ASSUME NEW i \in Rank,
             \/ Send(i) \/ SenderStep(i) \/ OwnReceive(i) \/ StabilityTrig(i) \/ Wedge(i)
      PROVE  Backlog'
    BY <1>2, <1>4 DEF Send, SenderStep, OwnReceive, StabilityTrig, Wedge, WedgeStep,
                      sstVars, messageVars
<1>5. ASSUME NEW i \in Rank, NEW k \in Rank, RdmcIncoming(i, k) \/ RdmcReceive(i, k)
      PROVE  Backlog'
    BY <1>2, <1>5 DEF RdmcIncoming, RdmcReceive, sstVars
<1>6. ASSUME NEW i \in Rank, DeliveryTrig(i)
      PROVE  Backlog'
    BY <1>6, DeliveryBacklog
<1>7. ASSUME NEW i \in Rank, FileWritten(i)
      PROVE  Backlog'
    BY <1>7, FileWrittenBacklog
<1>8. ASSUME NEW i \in Rank, NEW j \in Rank,
             SeqNumArrives(i, j) \/ StableNumArrives(i, j) \/ DeliveredNumArrives(i, j)
      PROVE  Backlog'
    BY <1>2, <1>8 DEF SeqNumArrives, StableNumArrives, DeliveredNumArrives, messageVars
<1>9. ASSUME NEW i \in Rank, NEW j \in Rank, PersistedNumArrives(i, j)
      PROVE  Backlog'
  <2>1. \A a \in Rank : persisted_num'[a][a] = persisted_num[a][a]
    BY <1>9 DEF PersistedNumArrives, Copied, CInv, OInv, IInv, TypeOK
  <2> QED
    BY <1>1, <1>9, <2>1 DEF PersistedNumArrives, messageVars
<1>10. ASSUME UNCHANGED vars
       PROVE  Backlog'
    BY <1>2, <1>10 DEF vars, sstVars, messageVars
<1> QED
    BY <1>3, <1>4, <1>5, <1>6, <1>7, <1>8, <1>9, <1>10 DEF Next

\* What the queue and the map say is what persisted_num promises.
LEMMA BacklogIsPrefix == CInv /\ Backlog => PersistedPrefix
<1> SUFFICES ASSUME CInv, Backlog, NEW i \in Rank, Persistent
             PROVE  \E n \in 0 .. Len(delivered[i]) :
                        /\ persisted_num[i][i] = IF n = 0 THEN -1
                                                 ELSE NumberOf(delivered[i][n])
                        /\ {e.seq : e \in non_persistent_messages[i]} =
                               {NumberOf(delivered[i][m]) : m \in n + 1 .. Len(delivered[i])}
    BY DEF PersistedPrefix, NumberOf
<1>1. Findable(i)
    BY DEF Backlog
<1>2. PICK d \in Nat : OnDisk(i, d)
    BY DEF Backlog
<1>3. Len(writes[i]) \in Nat /\ Len(delivered[i]) = d + Len(writes[i])
  <2>1. writes[i] \in Seq(Nat)
    BY DEF CInv, OInv, IInv, TypeOK
  <2> QED
    BY <1>2, <2>1 DEF OnDisk
<1>4. d \in 0 .. Len(delivered[i])
    BY <1>3
<1>5. persisted_num[i][i] = IF d = 0 THEN -1 ELSE NumberOf(delivered[i][d])
    BY <1>2 DEF OnDisk
<1>6. ASSUME NEW e \in non_persistent_messages[i]
      PROVE  \E m \in d + 1 .. Len(delivered[i]) : e.seq = NumberOf(delivered[i][m])
  <2>1. PICK n \in 1 .. Len(writes[i]) : e.seq = writes[i][n]
    BY <1>1 DEF Findable
  <2>2. d + n \in d + 1 .. Len(delivered[i]) /\ e.seq = NumberOf(delivered[i][d + n])
    BY <1>2, <1>3, <2>1 DEF OnDisk
  <2> QED
    BY <2>2
<1>7. ASSUME NEW m \in d + 1 .. Len(delivered[i])
      PROVE  \E e \in non_persistent_messages[i] : e.seq = NumberOf(delivered[i][m])
  <2>1. m - d \in 1 .. Len(writes[i]) /\ d + (m - d) = m
    BY <1>3
  <2>2. writes[i][m - d] = NumberOf(delivered[i][m])
    BY <1>2, <2>1 DEF OnDisk
  <2> QED
    BY <1>1, <2>1, <2>2 DEF Findable
<1>8. {e.seq : e \in non_persistent_messages[i]} =
          {NumberOf(delivered[i][m]) : m \in d + 1 .. Len(delivered[i])}
    BY <1>6, <1>7
<1> QED
    BY <1>4, <1>5, <1>8

\* derecho_row.h:37: persisted_num is the number of the last delivered message on
\* disk, all before it are on disk too, and the others wait in the order of delivery.
THEOREM PersistenceSafety == Spec => []PersistedPrefix
<1>1. Init => Backlog
    BY DEF Init, initialize_sst_row, Backlog, Findable, OnDisk
<1>2. CInv /\ Backlog /\ [Next]_vars => Backlog'
    BY BacklogStep
<1>3. CInv /\ Backlog => PersistedPrefix
    BY BacklogIsPrefix
<1> QED
    BY <1>1, <1>2, <1>3, ColumnsInvariant, PTL DEF Spec

=============================================================================
