------------------------ MODULE DerechoGroupAtomicProofs ------------------------
(***************************************************************************)
(* DerechoGroup implements AtomicMulticast: every member sees one and the  *)
(* same sequence of upcalls, with the messages of each sender in order and *)
(* without gaps; and every message buffer is free or in exactly one place, *)
(* with one free for whatever RDMC brings.  For any number of members, any *)
(* window and any bounds, whoever is wedged and whenever.                  *)
(***************************************************************************)
EXTENDS DerechoGroupSafetyProofs, FiniteSetTheorems, SequenceTheorems

(***************************************************************************)
(* The inductive invariant.  sent[k] is what member k has sent; it is a    *)
(* history variable, and each part ties it to what the handlers look at.   *)
(***************************************************************************)
\* b is the number of a message that k has sent.
IsSent(k, b) == \E n \in 1 .. Len(sent[k]) : sent[k][n] = b

\* Member k will send no message with a number below x any more.
BeforeNext(k, x) ==
    /\ next_send[k] = {} => x <= future_message_index[k]
    /\ \A m \in next_send[k] : x <= m.body

\* What is on its way from k: queued, being sent, inside RDMC, or being received.
UnderWay(k) ==
    current_send[k]
        \cup {pending_sends[k][n] : n \in 1 .. Len(pending_sends[k])}
        \cup (UNION {{inflight[k][i][n] : n \in 1 .. Len(inflight[k][i])} : i \in Rank})
        \cup (UNION {{e.msg : e \in {f \in current_receives[i] : f.msg.sender_rank = k}} :
                         i \in Rank})

\* m has content, k has sent it, and nothing from the turns that it skips.
Announced(k, m) ==
    /\ m.size = 1
    /\ IsSent(k, m.body)
    /\ \A n \in 1 .. Len(sent[k]) : sent[k][n] <= m.body \/ After(m) <= sent[k][n]
    /\ BeforeNext(k, After(m))

\* Messages are sent in the order of their numbers.
SentInOrder ==
    \A k \in Rank :
        /\ \A n, m \in 1 .. Len(sent[k]) : n < m => sent[k][n] < sent[k][m]
        /\ \A n \in 1 .. Len(sent[k]) : BeforeNext(k, sent[k][n] + 1)
        /\ \A m \in next_send[k] : m.size = 1 /\ m.body \in Index

\* What receivers will count is what the sender has sent.
AllAnnounced == \A k \in Rank : \A m \in UnderWay(k) : Announced(k, m)

\* Of what has been counted and not yet delivered, the messages with content
\* are those that have been sent; the others stand for skipped turns.
ContentIsSent ==
    \A i \in Rank : \A e \in locally_stable_messages[i] :
        e.msg.size # 0 <=> IsSent(e.msg.sender_rank, e.msg.body)

\* Member i has given message b of k to its application.
Given(i, k, b) ==
    \E n \in 1 .. Len(delivered[i]) :
        delivered[i][n].sender_rank = k /\ delivered[i][n].body = b

Waiting(i, k, b) ==
    \E e \in locally_stable_messages[i] : e.msg.sender_rank = k /\ e.msg.body = b

\* A message that has been counted waits for its delivery or has been given to
\* the application, and nobody counts what has not been sent.
CountedIsKept ==
    \A i, k \in Rank :
        /\ BeforeNext(k, nReceived[i][k] + 1)
        /\ \A n \in 1 .. Len(sent[k]) : sent[k][n] <= nReceived[i][k] =>
               Given(i, k, sent[k][n]) \/ Waiting(i, k, sent[k][n])

\* Every member delivers in the round-robin order, and only what was sent.
GivenInOrder ==
    \A i \in Rank :
        /\ \A n, m \in 1 .. Len(delivered[i]) :
               n < m => NumberOf(delivered[i][n]) < NumberOf(delivered[i][m])
        /\ \A n \in 1 .. Len(delivered[i]) :
               /\ NumberOf(delivered[i][n]) <= delivered_num[i][i]
               /\ IsSent(delivered[i][n].sender_rank, delivered[i][n].body)

\* What two members have both delivered, they have delivered in one order.
CommonOrder ==
    \A i, j \in Rank : \A n \in 1 .. Len(delivered[i]) :
        n <= Len(delivered[j]) => delivered[i][n] = delivered[j][n]

\* The messages of k among the upcalls of i are the first that k has sent.
SeenFrom(i, k) == {n \in 1 .. Len(delivered[i]) : delivered[i][n].sender_rank = k}

NoGaps ==
    \A i, k \in Rank :
        /\ Cardinality(SeenFrom(i, k)) <= Len(sent[k])
        /\ \A n \in 1 .. Len(sent[k]) :
               n <= Cardinality(SeenFrom(i, k)) <=> Given(i, k, sent[k][n])

History ==
    /\ SentInOrder
    /\ AllAnnounced
    /\ ContentIsSent
    /\ CountedIsKept
    /\ GivenInOrder
    /\ CommonOrder
    /\ NoGaps

HInv == CInv /\ History

(***************************************************************************)
(* Types, and what the history variable sent is made of.                   *)
(***************************************************************************)
\* The numbers that the parts of the invariant compare are integers.
LEMMA HistoryType ==
    ASSUME TypeOK, NEW k \in Rank
    PROVE  /\ sent[k] \in Seq(Nat) /\ Len(sent[k]) \in Nat
           /\ \A n \in 1 .. Len(sent[k]) : sent[k][n] \in Int
           /\ future_message_index[k] \in Int
           /\ \A m \in next_send[k] : m \in Message /\ m.body \in Int
           /\ delivered[k] \in Seq(Upcall) /\ Len(delivered[k]) \in Nat
           /\ \A n \in 1 .. Len(delivered[k]) :
                  /\ delivered[k][n].sender_rank \in Rank
                  /\ delivered[k][n].index \in Int /\ delivered[k][n].body \in Int
                  /\ NumberOf(delivered[k][n]) \in Int
<1>1. sent[k] \in Seq(Nat) /\ delivered[k] \in Seq(Upcall)
    BY DEF TypeOK
<1>2. future_message_index[k] \in Int
    BY BoundsAssumption DEF TypeOK
<1>3. \A m \in next_send[k] : m \in Message /\ m.body \in Int
    BY DEF TypeOK, Message
<1>4. ASSUME NEW n \in 1 .. Len(delivered[k])
      PROVE  /\ delivered[k][n].sender_rank \in Rank
             /\ delivered[k][n].index \in Int /\ delivered[k][n].body \in Int
             /\ NumberOf(delivered[k][n]) \in Int
  <2>1. delivered[k][n] \in Upcall
    BY <1>1
  <2>2. /\ delivered[k][n].sender_rank \in Rank
        /\ delivered[k][n].index \in Int /\ delivered[k][n].body \in Int
    BY <2>1 DEF Upcall
  <2> QED
    BY <2>2, SeqNumInt DEF NumberOf
<1>5. \A n \in 1 .. Len(sent[k]) : sent[k][n] \in Int
    BY <1>1
<1> QED
    BY <1>1, <1>2, <1>3, <1>4, <1>5

\* The number after a message under way is an integer, too.
LEMMA UnderWayType ==
    ASSUME TypeOK, NEW k \in Rank, NEW m \in UnderWay(k)
    PROVE  m \in Message /\ m.body \in Int /\ After(m) \in Int /\ m.body < After(m)
<1>1. m \in Message
  <2>1. CASE m \in current_send[k]
    BY <2>1 DEF TypeOK
  <2>2. ASSUME NEW n \in 1 .. Len(pending_sends[k]), m = pending_sends[k][n]
        PROVE  m \in Message
    <3>1. pending_sends[k] \in Seq(Message)
      BY DEF TypeOK
    <3> QED
      BY <2>2, <3>1
  <2>3. ASSUME NEW i \in Rank, NEW n \in 1 .. Len(inflight[k][i]), m = inflight[k][i][n]
        PROVE  m \in Message
    <3>1. inflight[k][i] \in Seq(Message)
      BY DEF TypeOK
    <3> QED
      BY <2>3, <3>1
  <2>4. ASSUME NEW i \in Rank, NEW e \in current_receives[i], m = e.msg
        PROVE  m \in Message
    BY <2>4 DEF TypeOK, Entry
  <2> QED
    BY <2>1, <2>2, <2>3, <2>4 DEF UnderWay
<1> QED
    BY <1>1, BoundsAssumption DEF Message, After

\* A message that one step has brought from one place to another is the same
\* message to the invariant.
Same(m, m0) == m.size = m0.size /\ m.body = m0.body /\ m.pause = m0.pause

\* What a step moves, it has found under way.
LEMMA UnderWayMoves ==
    ASSUME TypeOK, NEW k \in Rank,
           /\ \A m \in current_send'[k] : m \in UnderWay(k)
           /\ \A n \in 1 .. Len(pending_sends'[k]) : pending_sends'[k][n] \in UnderWay(k)
           /\ \A i \in Rank : \A n \in 1 .. Len(inflight'[k][i]) :
                  inflight'[k][i][n] \in UnderWay(k)
           /\ \A i \in Rank : \A e \in current_receives'[i] : e.msg.sender_rank = k =>
                  \E m0 \in UnderWay(k) : Same(e.msg, m0)
    PROVE  \A m \in UnderWay(k)' : \E m0 \in UnderWay(k) : Same(m, m0)
<1> SUFFICES ASSUME NEW m \in UnderWay(k)'
             PROVE  \E m0 \in UnderWay(k) : Same(m, m0)
    OBVIOUS
<1>1. \/ m \in current_send'[k]
      \/ \E n \in 1 .. Len(pending_sends'[k]) : m = pending_sends'[k][n]
      \/ \E i \in Rank : \E n \in 1 .. Len(inflight'[k][i]) : m = inflight'[k][i][n]
      \/ \E i \in Rank : \E e \in current_receives'[i] : e.msg.sender_rank = k /\ m = e.msg
    BY DEF UnderWay
<1>2. m \in UnderWay(k) => Same(m, m)
    BY DEF Same
<1> QED
    BY <1>1, <1>2

\* What is under way is where the definition looks for it.
LEMMA UnderWayFound ==
    ASSUME NEW k \in Rank
    PROVE  /\ \A m \in current_send[k] : m \in UnderWay(k)
           /\ \A n \in 1 .. Len(pending_sends[k]) : pending_sends[k][n] \in UnderWay(k)
           /\ \A i \in Rank : \A n \in 1 .. Len(inflight[k][i]) :
                  inflight[k][i][n] \in UnderWay(k)
           /\ \A i \in Rank : \A e \in current_receives[i] :
                  e.msg.sender_rank = k => e.msg \in UnderWay(k)
<1>1. \A i \in Rank : \A e \in current_receives[i] :
          e.msg.sender_rank = k => e.msg \in UnderWay(k)
    BY DEF UnderWay
<1>2. \A i \in Rank : \A n \in 1 .. Len(inflight[k][i]) : inflight[k][i][n] \in UnderWay(k)
    BY DEF UnderWay
<1> QED
    BY <1>1, <1>2 DEF UnderWay

(***************************************************************************)
(* Steps that neither send, count nor deliver a message.                   *)
(***************************************************************************)
\* A member has been given finitely many messages.
LEMMA SeenFinite ==
    ASSUME TypeOK, NEW i \in Rank, NEW k \in Rank
    PROVE  IsFiniteSet(SeenFrom(i, k)) /\ Cardinality(SeenFrom(i, k)) \in Nat
<1>1. Len(delivered[i]) \in Int
    BY HistoryType
<1>2. IsFiniteSet(1 .. Len(delivered[i]))
    BY <1>1, FS_Interval
<1>3. SeenFrom(i, k) \subseteq 1 .. Len(delivered[i])
    BY DEF SeenFrom
<1>4. IsFiniteSet(SeenFrom(i, k))
    BY <1>2, <1>3, FS_Subset
<1> QED
    BY <1>4, FS_CardinalityType

\* What the applications have been given is a matter of two variables.
LEMMA NoGapsKept ==
    ASSUME NoGaps, UNCHANGED <<sent, delivered>>
    PROVE  NoGaps'
<1>1. \A i, k \in Rank : SeenFrom(i, k)' = SeenFrom(i, k)
    BY DEF SeenFrom
<1>2. \A i, k \in Rank : \A b : Given(i, k, b)' <=> Given(i, k, b)
    BY DEF Given
<1>3. ASSUME NEW i \in Rank, NEW k \in Rank
      PROVE  /\ Cardinality(SeenFrom(i, k)') <= Len(sent'[k])
             /\ \A n \in 1 .. Len(sent'[k]) :
                    n <= Cardinality(SeenFrom(i, k)') <=> Given(i, k, sent[k][n])'
  <2>1. /\ Cardinality(SeenFrom(i, k)) <= Len(sent[k])
        /\ \A n \in 1 .. Len(sent[k]) :
               n <= Cardinality(SeenFrom(i, k)) <=> Given(i, k, sent[k][n])
    BY DEF NoGaps
  <2>2. sent' = sent
    OBVIOUS
  <2> QED
    BY <1>1, <1>2, <2>1, <2>2
<1> QED
    BY <1>3 DEF NoGaps

\* Moving messages about disturbs nothing.
LEMMA HistoryMoved ==
    ASSUME HInv,
           UNCHANGED <<sent, next_send, future_message_index, nReceived,
                       locally_stable_messages, delivered>>,
           \A i \in Rank : delivered_num'[i][i] = delivered_num[i][i],
           \A k \in Rank : \A m \in UnderWay(k)' : \E m0 \in UnderWay(k) : Same(m, m0)
    PROVE  History'
<1> USE DEF HInv, History
<1>1. SentInOrder'
    BY DEF SentInOrder, BeforeNext
<1>2. AllAnnounced'
  <2> SUFFICES ASSUME NEW k \in Rank, NEW m \in UnderWay(k)'
               PROVE  Announced(k, m)'
    BY DEF AllAnnounced
  <2>1. PICK m0 \in UnderWay(k) : Same(m, m0)
    OBVIOUS
  <2>2. Announced(k, m0)
    BY DEF AllAnnounced
  <2> QED
    BY <2>1, <2>2 DEF Announced, Same, IsSent, BeforeNext, After
<1>3. ContentIsSent'
    BY DEF ContentIsSent, IsSent
<1>4. CountedIsKept'
    BY DEF CountedIsKept, BeforeNext, Given, Waiting
<1>5. GivenInOrder'
    BY DEF GivenInOrder, IsSent
<1>6. CommonOrder'
    BY DEF CommonOrder
<1>7. NoGaps'
    BY NoGapsKept
<1> QED
    BY <1>1, <1>2, <1>3, <1>4, <1>5, <1>6, <1>7

\* Neither the triggers, nor the disk, nor the SST, nor wedge moves a message.
LEMMA HistoryNotDisturbed ==
    ASSUME HInv,
           UNCHANGED <<sent, sendVars, nReceived, current_receives, inflight,
                       locally_stable_messages, delivered>>,
           \A i \in Rank : delivered_num'[i][i] = delivered_num[i][i]
    PROVE  History'
<1>1. \A k \in Rank : \A m \in UnderWay(k)' : \E m0 \in UnderWay(k) : Same(m, m0)
  <2> SUFFICES ASSUME NEW k \in Rank, NEW m \in UnderWay(k)'
               PROVE  m \in UnderWay(k)
    BY DEF Same
  <2> QED
    BY DEF UnderWay, sendVars
<1> QED
    BY <1>1, HistoryMoved DEF sendVars

\* Where the elements of the tail of a queue come from.
LEMMA TailElement ==
    ASSUME NEW q \in Seq(Message), q # <<>>, NEW t, t = Tail(q), NEW n \in 1 .. Len(t)
    PROVE  n + 1 \in 1 .. Len(q) /\ t[n] = q[n + 1]
<1>1. Len(t) = Len(q) - 1 /\ Len(q) \in Nat
    OBVIOUS
<1>2. n \in 1 .. Len(q) - 1
    BY <1>1
<1>3. Tail(q)[n] = q[n + 1]
    BY <1>1
<1> QED
    BY <1>1, <1>2, <1>3

\* The sender thread takes a message from the queue to RDMC.
LEMMA SenderStepHistory ==
    ASSUME HInv, NEW i \in Rank, SenderStep(i)
    PROVE  History'
<1> USE DEF HInv, CInv, OInv, IInv
<1>1. /\ current_send' = [current_send EXCEPT ![i] = {Head(pending_sends[i])}]
      /\ inflight' = [inflight EXCEPT ![i] = [j \in Rank |->
             IF j = i THEN @[j] ELSE Append(@[j], Head(pending_sends[i]))]]
      /\ pending_sends' = [pending_sends EXCEPT ![i] = Tail(@)]
      /\ pending_sends[i] # <<>>
    BY DEF SenderStep, should_send
<1>2. UNCHANGED <<sent, next_send, future_message_index, nReceived, current_receives,
                  locally_stable_messages, delivered, delivered_num>>
    BY DEF SenderStep, sstVars, messageVars
<1>3. PICK m : m = Head(pending_sends[i])
    OBVIOUS
<1>4. /\ pending_sends[i] \in Seq(Message)
      /\ \A j \in Rank : inflight[i][j] \in Seq(Message)
    BY DEF TypeOK
<1>5. 1 \in 1 .. Len(pending_sends[i]) /\ m = pending_sends[i][1]
    BY <1>1, <1>3, <1>4
<1>6. m \in UnderWay(i)
    BY <1>5, UnderWayFound
<1>7. ASSUME NEW k \in Rank, NEW x \in current_send'[k]
      PROVE  x \in UnderWay(k)
  <2>1. CASE k = i
    BY <1>1, <1>3, <1>6, <1>7, <2>1 DEF TypeOK
  <2>2. CASE k # i
    BY <1>1, <1>7, <2>2, UnderWayFound DEF TypeOK
  <2> QED
    BY <2>1, <2>2
<1>8. ASSUME NEW k \in Rank, NEW n \in 1 .. Len(pending_sends'[k])
      PROVE  pending_sends'[k][n] \in UnderWay(k)
  <2>1. CASE k = i
    <3>1. pending_sends'[i] = Tail(pending_sends[i])
      BY <1>1 DEF TypeOK
    <3>2. PICK q, t : q = pending_sends[i] /\ t = pending_sends'[i]
      OBVIOUS
    <3>3. q \in Seq(Message) /\ q # <<>> /\ t = Tail(q) /\ n \in 1 .. Len(t)
      BY <1>1, <1>4, <1>8, <2>1, <3>1, <3>2
    <3>4. n + 1 \in 1 .. Len(q) /\ t[n] = q[n + 1]
      BY <3>3, TailElement
    <3> QED
      BY <2>1, <3>2, <3>4, UnderWayFound
  <2>2. CASE k # i
    <3>1. pending_sends'[k] = pending_sends[k]
      BY <1>1, <2>2 DEF TypeOK
    <3> QED
      BY <1>8, <3>1, UnderWayFound
  <2> QED
    BY <2>1, <2>2
<1>9. ASSUME NEW k \in Rank, NEW j \in Rank, NEW n \in 1 .. Len(inflight'[k][j])
      PROVE  inflight'[k][j][n] \in UnderWay(k)
  <2>1. CASE k = i /\ j # i
    <3>1. inflight'[i][j] = Append(inflight[i][j], m)
      BY <1>1, <1>3, <2>1 DEF TypeOK
    <3>2. CASE n = Len(inflight[i][j]) + 1
      BY <1>4, <1>6, <2>1, <3>1, <3>2
    <3>3. CASE n # Len(inflight[i][j]) + 1
      <4>1. n \in 1 .. Len(inflight[i][j]) /\ inflight'[i][j][n] = inflight[i][j][n]
        BY <1>4, <1>9, <2>1, <3>1, <3>3
      <4> QED
        BY <2>1, <4>1, UnderWayFound
    <3> QED
      BY <3>2, <3>3
  <2>2. CASE ~ (k = i /\ j # i)
    <3>1. inflight'[k][j] = inflight[k][j]
      BY <1>1, <2>2 DEF TypeOK
    <3> QED
      BY <1>9, <3>1, UnderWayFound
  <2> QED
    BY <2>1, <2>2
<1>10. ASSUME NEW k \in Rank, NEW j \in Rank, NEW e \in current_receives'[j],
              e.msg.sender_rank = k
       PROVE  \E m0 \in UnderWay(k) : Same(e.msg, m0)
  <2>1. e.msg \in UnderWay(k)
    BY <1>2, <1>10, UnderWayFound
  <2> QED
    BY <2>1 DEF Same
<1>11. \A k \in Rank : \A x \in UnderWay(k)' : \E m0 \in UnderWay(k) : Same(x, m0)
  <2> TAKE k \in Rank
  <2>1. /\ \A x \in current_send'[k] : x \in UnderWay(k)
        /\ \A n \in 1 .. Len(pending_sends'[k]) : pending_sends'[k][n] \in UnderWay(k)
    BY <1>7, <1>8
  <2>2. \A j \in Rank : \A n \in 1 .. Len(inflight'[k][j]) : inflight'[k][j][n] \in UnderWay(k)
    BY <1>9
  <2>3. \A j \in Rank : \A e \in current_receives'[j] : e.msg.sender_rank = k =>
            \E m0 \in UnderWay(k) : Same(e.msg, m0)
    BY <1>10
  <2> QED
    BY <2>1, <2>2, <2>3, UnderWayMoves
<1> QED
    BY <1>2, <1>11, HistoryMoved

\* RDMC begins to deliver a message.
LEMMA RdmcIncomingHistory ==
    ASSUME HInv, NEW i \in Rank, NEW k \in Rank, RdmcIncoming(i, k)
    PROVE  History'
<1> USE DEF HInv, CInv, OInv, IInv
<1>1. PICK index, m :
          /\ m = [Head(inflight[k][i]) EXCEPT !.sender_rank = k, !.index = index]
          /\ current_receives' =
                 [current_receives EXCEPT ![i] = @ \cup {File(SeqNum(k, index), m)}]
    BY DEF RdmcIncoming
<1>2. /\ inflight' = [inflight EXCEPT ![k][i] = Tail(@)]
      /\ inflight[k][i] # <<>>
    BY DEF RdmcIncoming, IncomingAt
<1>3. UNCHANGED <<sent, sendVars, nReceived, locally_stable_messages, delivered,
                  delivered_num>>
    BY DEF RdmcIncoming, sstVars
<1>4. inflight[k][i] \in Seq(Message)
    BY DEF TypeOK
<1>5. PICK m1 : m1 = Head(inflight[k][i])
    OBVIOUS
<1>6. 1 \in 1 .. Len(inflight[k][i]) /\ m1 = inflight[k][i][1] /\ m1 \in Message
    BY <1>2, <1>4, <1>5
<1>7. m1 \in UnderWay(k)
    BY <1>6, UnderWayFound
<1>8. Same(m, m1) /\ m.sender_rank = k
    BY <1>1, <1>5, <1>6 DEF Same, Message
<1>9. ASSUME NEW a \in Rank, NEW j \in Rank, NEW n \in 1 .. Len(inflight'[a][j])
      PROVE  inflight'[a][j][n] \in UnderWay(a)
  <2>1. CASE a = k /\ j = i
    <3>1. inflight'[k][i] = Tail(inflight[k][i])
      BY <1>2 DEF TypeOK
    <3>2. n + 1 \in 1 .. Len(inflight[k][i]) /\ inflight'[k][i][n] = inflight[k][i][n + 1]
      BY <1>2, <1>4, <1>9, <2>1, <3>1, TailElement
    <3> QED
      BY <2>1, <3>2, UnderWayFound
  <2>2. CASE ~ (a = k /\ j = i)
    <3>1. inflight'[a][j] = inflight[a][j]
      BY <1>2, <2>2 DEF TypeOK
    <3> QED
      BY <1>9, <3>1, UnderWayFound
  <2> QED
    BY <2>1, <2>2
<1>10. ASSUME NEW a \in Rank, NEW j \in Rank, NEW e \in current_receives'[j],
              e.msg.sender_rank = a
       PROVE  \E m0 \in UnderWay(a) : Same(e.msg, m0)
  <2>1. e \in current_receives[j] \/ e = File(SeqNum(k, index), m)
    BY <1>1, <1>10 DEF TypeOK
  <2>2. CASE e \in current_receives[j]
    <3>1. e.msg \in UnderWay(a)
      BY <1>10, <2>2, UnderWayFound
    <3> QED
      BY <3>1 DEF Same
  <2>3. CASE e = File(SeqNum(k, index), m)
    <3>1. e.msg = m /\ a = k
      BY <1>8, <1>10, <2>3 DEF File
    <3> QED
      BY <1>7, <1>8, <3>1
  <2> QED
    BY <2>1, <2>2, <2>3
<1>11. \A a \in Rank : \A x \in UnderWay(a)' : \E m0 \in UnderWay(a) : Same(x, m0)
  <2> TAKE a \in Rank
  <2>1. /\ \A x \in current_send'[a] : x \in UnderWay(a)
        /\ \A n \in 1 .. Len(pending_sends'[a]) : pending_sends'[a][n] \in UnderWay(a)
    BY <1>3, UnderWayFound DEF sendVars
  <2>2. \A j \in Rank : \A n \in 1 .. Len(inflight'[a][j]) : inflight'[a][j][n] \in UnderWay(a)
    BY <1>9
  <2>3. \A j \in Rank : \A e \in current_receives'[j] : e.msg.sender_rank = a =>
            \E m0 \in UnderWay(a) : Same(e.msg, m0)
    BY <1>10
  <2> QED
    BY <2>1, <2>2, <2>3, UnderWayMoves
<1> QED
    BY <1>3, <1>11, HistoryMoved DEF sendVars

(***************************************************************************)
(* Allocating and sending.                                                 *)
(***************************************************************************)
\* get_position gives out the next number.
LEMMA GetPositionHistory ==
    ASSUME HInv, NEW i \in Rank, NEW turns \in 0 .. MaxPause, GetPosition(i, turns)
    PROVE  History'
<1> USE DEF HInv, CInv, OInv, IInv, History
<1>1. PICK m :
          /\ next_send' = [next_send EXCEPT ![i] = {m}]
          /\ m.body = future_message_index[i] /\ m.size = 1
  <2>1. PICK m :
            m = [sender_rank |-> i, index |-> future_message_index[i], size |-> 1,
                 pause |-> turns, body |-> future_message_index[i]]
    OBVIOUS
  <2>2. next_send' = [next_send EXCEPT ![i] = {m}]
    BY <2>1 DEF GetPosition
  <2>3. m.body = future_message_index[i] /\ m.size = 1
    BY <2>1
  <2> QED
    BY <2>2, <2>3
<1>2. next_send[i] = {} /\ future_message_index[i] \in Index
  <2>1. future_message_index[i] \in 0 .. MaxIndex + 1
    BY DEF TypeOK
  <2>2. next_send[i] = {} /\ future_message_index[i] + turns <= MaxIndex
    BY DEF GetPosition
  <2> QED
    BY <2>1, <2>2, BoundsAssumption DEF Index
<1>3. UNCHANGED <<sent, pending_sends, current_send, nReceived, current_receives,
                  locally_stable_messages, inflight, delivered, delivered_num>>
    BY DEF GetPosition, sstVars
<1>4. ASSUME NEW k \in Rank
      PROVE  \/ k = i /\ next_send'[k] = {m}
             \/ /\ next_send'[k] = next_send[k]
                /\ future_message_index'[k] = future_message_index[k]
    BY <1>1 DEF GetPosition, TypeOK
<1>5. ASSUME NEW k \in Rank, NEW x, BeforeNext(k, x)
      PROVE  BeforeNext(k, x)'
  <2>1. CASE k = i /\ next_send'[k] = {m}
    BY <1>1, <1>2, <1>5, <2>1 DEF BeforeNext
  <2>2. CASE /\ next_send'[k] = next_send[k]
             /\ future_message_index'[k] = future_message_index[k]
    BY <1>5, <2>2 DEF BeforeNext
  <2> QED
    BY <1>4, <2>1, <2>2
<1>6. SentInOrder'
  <2>1. \A k \in Rank : \A x \in next_send'[k] : x.size = 1 /\ x.body \in Index
    BY <1>1, <1>2, <1>4 DEF SentInOrder
  <2> QED
    BY <1>3, <1>5, <2>1 DEF SentInOrder
<1>7. AllAnnounced'
  <2> SUFFICES ASSUME NEW k \in Rank, NEW x \in UnderWay(k)'
               PROVE  Announced(k, x)'
    BY DEF AllAnnounced
  <2>1. x \in UnderWay(k)
    BY <1>3 DEF UnderWay
  <2>2. Announced(k, x)
    BY <2>1 DEF AllAnnounced
  <2> QED
    BY <1>3, <1>5, <2>2 DEF Announced, IsSent
<1>8. ContentIsSent'
    BY <1>3 DEF ContentIsSent, IsSent
<1>9. CountedIsKept'
  <2>1. \A a, k \in Rank : BeforeNext(k, nReceived[a][k] + 1)'
    BY <1>3, <1>5 DEF CountedIsKept
  <2> QED
    BY <1>3, <2>1 DEF CountedIsKept, Given, Waiting
<1>10. GivenInOrder'
    BY <1>3 DEF GivenInOrder, IsSent
<1>11. CommonOrder'
    BY <1>3 DEF CommonOrder
<1>12. NoGaps'
    BY <1>3, NoGapsKept
<1> QED
    BY <1>6, <1>7, <1>8, <1>9, <1>10, <1>11, <1>12

\* What send does to the history, to the queue and to the next number.
LEMMA SendIs ==
    ASSUME HInv, NEW i \in Rank, Send(i)
    PROVE  \E m \in next_send[i] :
               /\ m \in Message /\ m.body \in Index /\ m.size = 1
               /\ After(m) = future_message_index[i]
               /\ sent' = [sent EXCEPT ![i] = Append(@, m.body)]
               /\ pending_sends' = [pending_sends EXCEPT ![i] = Append(@, m)]
               /\ next_send' = [next_send EXCEPT ![i] = {}]
<1> USE DEF HInv, CInv, OInv, IInv, History
<1>1. PICK m \in next_send[i] :
          /\ pending_sends' = [pending_sends EXCEPT ![i] = Append(@, m)]
          /\ sent' = [sent EXCEPT ![i] = Append(@, m.body)]
    BY DEF Send
<1>2. m \in Message /\ m.body \in Index /\ m.size = 1
    BY HistoryType DEF SentInOrder
<1>3. After(m) = future_message_index[i]
    BY DEF Orderly, Chained, SenderChain
<1> QED
    BY <1>1, <1>2, <1>3 DEF Send

\* A message that is sent now is the last one of its sender.
LEMMA SentGrows ==
    ASSUME TypeOK, NEW i \in Rank, NEW b \in Nat,
           sent' = [sent EXCEPT ![i] = Append(@, b)]
    PROVE  /\ \A k \in Rank \ {i} : sent'[k] = sent[k]
           /\ Len(sent'[i]) = Len(sent[i]) + 1 /\ sent'[i][Len(sent[i]) + 1] = b
           /\ \A n \in 1 .. Len(sent[i]) : sent'[i][n] = sent[i][n]
           /\ \A k \in Rank : \A x : IsSent(k, x)' <=> (IsSent(k, x) \/ (k = i /\ x = b))
<1>1. sent \in [Rank -> Seq(Nat)] /\ Len(sent[i]) \in Nat
    BY DEF TypeOK
<1>2. \A k \in Rank \ {i} : sent'[k] = sent[k]
    BY <1>1
<1>3. sent'[i] = Append(sent[i], b)
    BY <1>1
<1>4. /\ Len(sent'[i]) = Len(sent[i]) + 1 /\ sent'[i][Len(sent[i]) + 1] = b
      /\ \A n \in 1 .. Len(sent[i]) : sent'[i][n] = sent[i][n]
    BY <1>1, <1>3
<1>5. ASSUME NEW k \in Rank, NEW x
      PROVE  IsSent(k, x)' <=> (IsSent(k, x) \/ (k = i /\ x = b))
  <2>1. CASE k = i
    <3>1. IsSent(i, x)' => IsSent(i, x) \/ x = b
      BY <1>1, <1>4 DEF IsSent
    <3>2. IsSent(i, x) \/ x = b => IsSent(i, x)'
      BY <1>1, <1>4 DEF IsSent
    <3> QED
      BY <2>1, <3>1, <3>2
  <2>2. CASE k # i
    BY <1>2, <2>2 DEF IsSent
  <2> QED
    BY <2>1, <2>2
<1> QED
    BY <1>2, <1>4, <1>5

\* send makes the allocated message the last one of the history.
LEMMA SendHistory ==
    ASSUME HInv, NEW i \in Rank, Send(i)
    PROVE  History'
<1> USE DEF HInv, CInv, OInv, IInv, History
<1>1. PICK m \in next_send[i] :
          /\ m \in Message /\ m.body \in Index /\ m.size = 1
          /\ After(m) = future_message_index[i]
          /\ sent' = [sent EXCEPT ![i] = Append(@, m.body)]
          /\ pending_sends' = [pending_sends EXCEPT ![i] = Append(@, m)]
          /\ next_send' = [next_send EXCEPT ![i] = {}]
    BY SendIs
<1>2. UNCHANGED <<future_message_index, current_send, nReceived, current_receives,
                  locally_stable_messages, inflight, delivered, delivered_num>>
    BY DEF Send, sstVars, messageVars
<1>3. m.body \in Nat /\ m.pause \in Nat /\ m.body < After(m) /\ After(m) \in Int
    BY <1>1, BoundsAssumption DEF Message, After
<1>4. /\ \A k \in Rank \ {i} : sent'[k] = sent[k]
      /\ Len(sent'[i]) = Len(sent[i]) + 1 /\ sent'[i][Len(sent[i]) + 1] = m.body
      /\ \A n \in 1 .. Len(sent[i]) : sent'[i][n] = sent[i][n]
      /\ \A k \in Rank : \A x : IsSent(k, x)' <=> (IsSent(k, x) \/ (k = i /\ x = m.body))
    BY <1>1, <1>3, SentGrows
<1>5. next_send'[i] = {} /\ \A k \in Rank \ {i} : next_send'[k] = next_send[k]
    BY <1>1 DEF TypeOK
<1>6. ASSUME NEW k \in Rank, NEW x \in Int, BeforeNext(k, x)
      PROVE  BeforeNext(k, x)'
  <2>1. CASE k = i
    <3>1. x <= m.body
      BY <1>1, <1>6, <2>1 DEF BeforeNext
    <3>2. x <= future_message_index'[i]
      BY <1>1, <1>2, <1>3, <3>1
    <3> QED
      BY <1>5, <2>1, <3>2 DEF BeforeNext
  <2>2. CASE k # i
    BY <1>2, <1>5, <1>6, <2>2 DEF BeforeNext
  <2> QED
    BY <2>1, <2>2
<1>7. ASSUME NEW x \in Int, BeforeNext(i, x)
      PROVE  x <= m.body
    BY <1>1, <1>7 DEF BeforeNext
<1>8. BeforeNext(i, m.body + 1)' /\ BeforeNext(i, After(m))'
    BY <1>1, <1>2, <1>3, <1>5 DEF BeforeNext
<1>9. /\ Len(sent[i]) \in Nat /\ \A n \in 1 .. Len(sent[i]) : sent[i][n] \in Int
      /\ \A n \in 1 .. Len(sent[i]) : sent[i][n] < m.body
  <2>1. Len(sent[i]) \in Nat /\ \A n \in 1 .. Len(sent[i]) : sent[i][n] \in Int
    BY HistoryType
  <2>2. ASSUME NEW n \in 1 .. Len(sent[i])
        PROVE  sent[i][n] < m.body
    <3>1. BeforeNext(i, sent[i][n] + 1)
      BY DEF SentInOrder
    <3>2. sent[i][n] + 1 <= m.body
      BY <1>7, <2>1, <3>1
    <3> QED
      BY <1>3, <2>1, <3>2
  <2> QED
    BY <2>1, <2>2
<1>10. \A a \in Rank : nReceived[a][i] \in Int /\ nReceived[a][i] < m.body
  <2> TAKE a \in Rank
  <2>1. nReceived[a][i] \in Int
    BY ColumnType
  <2>2. BeforeNext(i, nReceived[a][i] + 1)
    BY DEF CountedIsKept
  <2>3. nReceived[a][i] + 1 <= m.body
    BY <1>7, <2>1, <2>2
  <2> QED
    BY <1>3, <2>1, <2>3
<1>11. SentInOrder'
  <2>1. ASSUME NEW k \in Rank
        PROVE  \A n, p \in 1 .. Len(sent'[k]) : n < p => sent'[k][n] < sent'[k][p]
    <3>1. CASE k = i
      <4> SUFFICES ASSUME NEW n \in 1 .. Len(sent'[i]), NEW p \in 1 .. Len(sent'[i]), n < p
                   PROVE  sent'[i][n] < sent'[i][p]
        BY <3>1
      <4>1. n \in 1 .. Len(sent[i]) /\ sent'[i][n] = sent[i][n]
        BY <1>4, <1>9
      <4>2. CASE p = Len(sent[i]) + 1
        BY <1>4, <1>9, <4>1, <4>2
      <4>3. CASE p # Len(sent[i]) + 1
        <5>1. p \in 1 .. Len(sent[i]) /\ sent'[i][p] = sent[i][p]
          BY <1>4, <1>9, <4>3
        <5> QED
          BY <4>1, <5>1 DEF SentInOrder
      <4> QED
        BY <4>2, <4>3
    <3>2. CASE k # i
      BY <1>4, <3>2 DEF SentInOrder
    <3> QED
      BY <3>1, <3>2
  <2>2. ASSUME NEW k \in Rank, NEW n \in 1 .. Len(sent'[k])
        PROVE  BeforeNext(k, sent[k][n] + 1)'
    <3>1. CASE k = i /\ n = Len(sent[i]) + 1
      <4>1. sent'[k][n] + 1 = m.body + 1
        BY <1>4, <3>1
      <4> QED
        BY <1>8, <3>1, <4>1 DEF BeforeNext
    <3>2. CASE ~ (k = i /\ n = Len(sent[i]) + 1)
      <4>1. n \in 1 .. Len(sent[k]) /\ sent'[k][n] = sent[k][n]
        BY <1>4, <1>9, <2>2, <3>2
      <4>2. BeforeNext(k, sent[k][n] + 1) /\ sent[k][n] + 1 \in Int
        BY <4>1, HistoryType DEF SentInOrder
      <4>3. sent'[k][n] + 1 = sent[k][n] + 1
        BY <4>1
      <4> QED
        BY <1>6, <4>2, <4>3 DEF BeforeNext
    <3> QED
      BY <3>1, <3>2
  <2>3. \A k \in Rank : \A x \in next_send'[k] : x.size = 1 /\ x.body \in Index
    BY <1>5 DEF SentInOrder
  <2> QED
    BY <2>1, <2>2, <2>3 DEF SentInOrder
<1>12. AllAnnounced'
  <2> SUFFICES ASSUME NEW k \in Rank, NEW x \in UnderWay(k)'
               PROVE  Announced(k, x)'
    BY DEF AllAnnounced
  <2>1. x \in UnderWay(k) \/ (k = i /\ x = m)
    <3>1. ASSUME NEW n \in 1 .. Len(pending_sends'[k]), x = pending_sends'[k][n]
          PROVE  x \in UnderWay(k) \/ (k = i /\ x = m)
      <4>1. pending_sends[k] \in Seq(Message) /\ Len(pending_sends[k]) \in Nat
        BY DEF TypeOK
      <4>2. CASE k # i
        <5>1. pending_sends'[k] = pending_sends[k]
          BY <1>1, <4>2 DEF TypeOK
        <5> QED
          BY <3>1, <5>1, UnderWayFound
      <4>3. CASE k = i
        <5>1. pending_sends'[k] = Append(pending_sends[k], m)
          BY <1>1, <4>3 DEF TypeOK
        <5>2. CASE n = Len(pending_sends[k]) + 1
          BY <3>1, <4>1, <4>3, <5>1, <5>2
        <5>3. CASE n # Len(pending_sends[k]) + 1
          <6>1. n \in 1 .. Len(pending_sends[k]) /\ x = pending_sends[k][n]
            BY <3>1, <4>1, <5>1, <5>3
          <6> QED
            BY <6>1, UnderWayFound
        <5> QED
          BY <5>2, <5>3
      <4> QED
        BY <4>2, <4>3
    <3>2. \/ x \in current_send'[k]
          \/ \E n \in 1 .. Len(pending_sends'[k]) : x = pending_sends'[k][n]
          \/ \E j \in Rank : \E n \in 1 .. Len(inflight'[k][j]) : x = inflight'[k][j][n]
          \/ \E j \in Rank : \E e \in current_receives'[j] :
                 e.msg.sender_rank = k /\ x = e.msg
      BY DEF UnderWay
    <3> QED
      BY <1>2, <3>1, <3>2, UnderWayFound
  <2>2. CASE x \in UnderWay(k)
    <3>1. Announced(k, x)
      BY <2>2 DEF AllAnnounced
    <3>2. x.body \in Int /\ After(x) \in Int /\ x.body < After(x)
      BY <2>2, UnderWayType
    <3>3. BeforeNext(k, After(x))'
      BY <1>6, <3>1, <3>2 DEF Announced
    <3>4. IsSent(k, x.body)'
      BY <1>4, <3>1 DEF Announced
    <3>5. ASSUME NEW n \in 1 .. Len(sent'[k])
          PROVE  sent'[k][n] <= x.body \/ After(x) <= sent'[k][n]
      <4>1. CASE k = i /\ n = Len(sent[i]) + 1
        <5>1. After(x) <= m.body
          BY <1>7, <3>1, <3>2, <4>1 DEF Announced
        <5> QED
          BY <1>4, <4>1, <5>1
      <4>2. CASE ~ (k = i /\ n = Len(sent[i]) + 1)
        <5>1. n \in 1 .. Len(sent[k]) /\ sent'[k][n] = sent[k][n]
          BY <1>4, <1>9, <3>5, <4>2
        <5> QED
          BY <3>1, <5>1 DEF Announced
      <4> QED
        BY <4>1, <4>2
    <3>6. x.size = 1
      BY <3>1 DEF Announced
    <3> QED
      BY <3>3, <3>4, <3>5, <3>6 DEF Announced, After
  <2>3. CASE k = i /\ x = m
    <3>1. ASSUME NEW n \in 1 .. Len(sent'[i])
          PROVE  sent'[i][n] <= m.body
      <4>1. CASE n = Len(sent[i]) + 1
        BY <1>3, <1>4, <4>1
      <4>2. CASE n # Len(sent[i]) + 1
        <5>1. n \in 1 .. Len(sent[i]) /\ sent'[i][n] = sent[i][n]
          BY <1>4, <1>9, <4>2
        <5> QED
          BY <1>3, <1>9, <5>1
      <4> QED
        BY <4>1, <4>2
    <3>2. IsSent(i, m.body)'
      BY <1>4
    <3> QED
      BY <1>1, <1>8, <2>3, <3>1, <3>2 DEF Announced, After
  <2> QED
    BY <2>1, <2>2, <2>3
<1>13. ContentIsSent'
  <2> SUFFICES ASSUME NEW a \in Rank, NEW e \in locally_stable_messages[a]
               PROVE  e.msg.size # 0 <=> IsSent(e.msg.sender_rank, e.msg.body)'
    BY <1>2 DEF ContentIsSent
  <2>1. e.msg.sender_rank \in Rank /\ e.msg.body \in Int
    BY FiledType
  <2>2. e.msg.body <= nReceived[a][e.msg.sender_rank]
    BY DEF Columns, Counted
  <2>3. ~ (e.msg.sender_rank = i /\ e.msg.body = m.body)
    BY <1>3, <1>10, <2>1, <2>2
  <2>4. IsSent(e.msg.sender_rank, e.msg.body)' <=> IsSent(e.msg.sender_rank, e.msg.body)
    BY <1>4, <2>1, <2>3
  <2> QED
    BY <2>4 DEF ContentIsSent
<1>14. CountedIsKept'
  <2>1. ASSUME NEW a \in Rank, NEW k \in Rank
        PROVE  BeforeNext(k, nReceived[a][k] + 1)'
    <3>1. nReceived[a][k] + 1 \in Int /\ BeforeNext(k, nReceived[a][k] + 1)
      BY ColumnType DEF CountedIsKept
    <3>2. nReceived'[a][k] + 1 = nReceived[a][k] + 1
      BY <1>2
    <3> QED
      BY <1>6, <3>1, <3>2 DEF BeforeNext
  <2>2. ASSUME NEW a \in Rank, NEW k \in Rank, NEW n \in 1 .. Len(sent'[k]),
               sent'[k][n] <= nReceived'[a][k]
        PROVE  Given(a, k, sent[k][n])' \/ Waiting(a, k, sent[k][n])'
    <3>1. ~ (k = i /\ n = Len(sent[i]) + 1)
      BY <1>2, <1>3, <1>4, <1>10, <2>2
    <3>2. n \in 1 .. Len(sent[k]) /\ sent'[k][n] = sent[k][n]
      BY <1>4, <1>9, <2>2, <3>1
    <3>3. Given(a, k, sent[k][n]) \/ Waiting(a, k, sent[k][n])
      BY <1>2, <2>2, <3>2 DEF CountedIsKept
    <3> QED
      BY <1>2, <3>2, <3>3 DEF Given, Waiting
  <2> QED
    BY <2>1, <2>2 DEF CountedIsKept
<1>15. GivenInOrder'
  <2>1. \A k \in Rank : \A b : IsSent(k, b) => \E n \in 1 .. Len(sent'[k]) : sent'[k][n] = b
    BY <1>4 DEF IsSent
  <2>2. ASSUME NEW a \in Rank, NEW n \in 1 .. Len(delivered[a])
        PROVE  \E p \in 1 .. Len(sent'[delivered[a][n].sender_rank]) :
                   sent'[delivered[a][n].sender_rank][p] = delivered[a][n].body
    <3>1. delivered[a][n].sender_rank \in Rank
      BY HistoryType
    <3>2. IsSent(delivered[a][n].sender_rank, delivered[a][n].body)
      BY DEF GivenInOrder
    <3> QED
      BY <2>1, <3>1, <3>2
  <2> QED
    BY <1>2, <2>2 DEF GivenInOrder, IsSent
<1>16. CommonOrder'
    BY <1>2 DEF CommonOrder
<1>17. NoGaps'
  <2> SUFFICES ASSUME NEW a \in Rank, NEW k \in Rank
               PROVE  /\ Cardinality(SeenFrom(a, k)) <= Len(sent'[k])
                      /\ \A n \in 1 .. Len(sent'[k]) :
                             n <= Cardinality(SeenFrom(a, k)) <=> Given(a, k, sent'[k][n])
    BY <1>2 DEF NoGaps, SeenFrom, Given
  <2>1. /\ Cardinality(SeenFrom(a, k)) <= Len(sent[k])
        /\ \A n \in 1 .. Len(sent[k]) :
               n <= Cardinality(SeenFrom(a, k)) <=> Given(a, k, sent[k][n])
    BY DEF NoGaps
  <2>2. Cardinality(SeenFrom(a, k)) \in Nat
    BY SeenFinite
  <2>3. CASE k # i
    BY <1>4, <2>1, <2>3
  <2>4. CASE k = i
    <3>1. ~ Given(a, i, m.body)
      <4> SUFFICES ASSUME NEW n \in 1 .. Len(delivered[a]),
                          delivered[a][n].sender_rank = i, delivered[a][n].body = m.body
                   PROVE  FALSE
        BY DEF Given
      <4>1. IsSent(i, m.body)
        BY DEF GivenInOrder
      <4> QED
        BY <1>3, <1>9, <4>1 DEF IsSent
    <3>2. Cardinality(SeenFrom(a, i)) <= Len(sent'[i])
      BY <1>4, <1>9, <2>1, <2>2, <2>4
    <3>3. ASSUME NEW n \in 1 .. Len(sent'[i])
          PROVE  n <= Cardinality(SeenFrom(a, i)) <=> Given(a, i, sent'[i][n])
      <4>1. CASE n = Len(sent[i]) + 1
        <5>1. ~ (n <= Cardinality(SeenFrom(a, i)))
          BY <1>9, <2>1, <2>2, <2>4, <4>1
        <5> QED
          BY <1>4, <3>1, <4>1, <5>1
      <4>2. CASE n # Len(sent[i]) + 1
        <5>1. n \in 1 .. Len(sent[i]) /\ sent'[i][n] = sent[i][n]
          BY <1>4, <1>9, <4>2
        <5> QED
          BY <2>1, <2>4, <5>1
      <4> QED
        BY <4>1, <4>2
    <3> QED
      BY <2>4, <3>2, <3>3
  <2> QED
    BY <2>3, <2>4
<1> QED
    BY <1>11, <1>12, <1>13, <1>14, <1>15, <1>16, <1>17

(***************************************************************************)
(* Counting.                                                               *)
(***************************************************************************)
\* What the receive handler files: the message, and one entry of size 0 for
\* each turn that it announces as skipped.
LEMMA FiledIs ==
    ASSUME TypeOK, NEW i \in Rank, NEW k \in Rank, NEW m,
           IsNext(i, k, m), MessageReceived(i, k, m)
    PROVE  /\ nReceived'[i][k] + 1 = After(m)
           /\ \A a, b \in Rank : (a # i \/ b # k) => nReceived'[a][b] = nReceived[a][b]
           /\ \A a \in Rank : locally_stable_messages[a] \subseteq locally_stable_messages'[a]
           /\ \A a \in Rank \ {i} : locally_stable_messages'[a] = locally_stable_messages[a]
           /\ Waiting(i, k, m.body)'
           /\ \A e \in locally_stable_messages'[i] :
                  \/ e \in locally_stable_messages[i]
                  \/ e.msg = m
                  \/ /\ e.msg.sender_rank = k /\ e.msg.size = 0 /\ e.msg.body \in Int
                     /\ m.body < e.msg.body /\ e.msg.body < After(m)
<1> DEFINE index == nReceived[i][k] + 1
           first == File(SeqNum(k, index), m)
           skipped == SkippedTurns(k, index + 1, m.pause)
<1>1. index \in Int /\ m.pause \in Nat /\ m.body = index /\ m.sender_rank = k
    BY ColumnType, BoundsAssumption DEF IsNext, Message
<1>2. nReceived' = [nReceived EXCEPT ![i] = [nReceived[i] EXCEPT ![k] = CountAfter(index, m)]]
    BY DEF MessageReceived
<1>3. nReceived'[i][k] + 1 = After(m)
    BY <1>1, <1>2 DEF TypeOK, CountAfter, After
<1>4. \A a, b \in Rank : (a # i \/ b # k) => nReceived'[a][b] = nReceived[a][b]
    BY <1>2 DEF TypeOK
<1>5. /\ locally_stable_messages'[i] = locally_stable_messages[i] \cup {first} \cup skipped
      /\ \A a \in Rank \ {i} : locally_stable_messages'[a] = locally_stable_messages[a]
    BY DEF MessageReceived, TypeOK
<1>6. first.msg = m
    BY DEF File
<1>7. ASSUME NEW e \in skipped
      PROVE  /\ e.msg.sender_rank = k /\ e.msg.size = 0 /\ e.msg.body \in Int
             /\ m.body < e.msg.body /\ e.msg.body < After(m)
  <2>1. PICK idx \in index + 1 .. index + m.pause :
            e = File(SeqNum(k, idx), EmptyMessage(k, idx))
    BY <1>1, <1>7 DEF SkippedTurns
  <2>2. e.msg.sender_rank = k /\ e.msg.size = 0 /\ e.msg.body = idx
    BY <2>1 DEF File, EmptyMessage
  <2> QED
    BY <1>1, <2>2 DEF After
<1> HIDE DEF first, skipped
<1>8. Waiting(i, k, m.body)'
    BY <1>1, <1>5, <1>6 DEF Waiting
<1> QED
    BY <1>3, <1>4, <1>5, <1>6, <1>7, <1>8

\* The receive handler counts what the sender has announced.
LEMMA ReceiveHistory ==
    ASSUME HInv, NEW i \in Rank, NEW k \in Rank, NEW m \in UnderWay(k),
           IsNext(i, k, m), MessageReceived(i, k, m),
           UNCHANGED <<sent, next_send, future_message_index, delivered, delivered_num>>,
           \A a \in Rank : \A x \in UnderWay(a)' : x \in UnderWay(a)
    PROVE  History'
<1> USE DEF HInv, CInv, OInv, IInv, History
<1>1. /\ nReceived'[i][k] + 1 = After(m)
      /\ \A a, b \in Rank : (a # i \/ b # k) => nReceived'[a][b] = nReceived[a][b]
      /\ \A a \in Rank : locally_stable_messages[a] \subseteq locally_stable_messages'[a]
      /\ \A a \in Rank \ {i} : locally_stable_messages'[a] = locally_stable_messages[a]
      /\ Waiting(i, k, m.body)'
      /\ \A e \in locally_stable_messages'[i] :
             \/ e \in locally_stable_messages[i]
             \/ e.msg = m
             \/ /\ e.msg.sender_rank = k /\ e.msg.size = 0 /\ e.msg.body \in Int
                /\ m.body < e.msg.body /\ e.msg.body < After(m)
    BY FiledIs
<1>2. Announced(k, m)
    BY DEF AllAnnounced
<1>3. m.body \in Int /\ After(m) \in Int /\ m.body < After(m)
    BY UnderWayType
<1>4. m.sender_rank = k /\ m.body = nReceived[i][k] + 1
    BY DEF IsNext
<1>5. SentInOrder'
    BY DEF SentInOrder, BeforeNext
<1>6. AllAnnounced'
  <2> SUFFICES ASSUME NEW a \in Rank, NEW x \in UnderWay(a)'
               PROVE  Announced(a, x)'
    BY DEF AllAnnounced
  <2>1. Announced(a, x)
    BY DEF AllAnnounced
  <2> QED
    BY <2>1 DEF Announced, IsSent, BeforeNext
<1>7. ContentIsSent'
  <2> SUFFICES ASSUME NEW a \in Rank, NEW e \in locally_stable_messages'[a]
               PROVE  e.msg.size # 0 <=> IsSent(e.msg.sender_rank, e.msg.body)
    BY DEF ContentIsSent, IsSent
  <2>1. CASE e \in locally_stable_messages[a]
    BY <2>1 DEF ContentIsSent
  <2>2. CASE a = i /\ e.msg = m
    BY <1>2, <1>4, <2>2 DEF Announced
  <2>3. CASE /\ a = i /\ e.msg.sender_rank = k /\ e.msg.size = 0 /\ e.msg.body \in Int
             /\ m.body < e.msg.body /\ e.msg.body < After(m)
    <3>1. ~ IsSent(k, e.msg.body)
      <4> SUFFICES ASSUME NEW n \in 1 .. Len(sent[k]), sent[k][n] = e.msg.body
                   PROVE  FALSE
        BY DEF IsSent
      <4>1. sent[k][n] <= m.body \/ After(m) <= sent[k][n]
        BY <1>2 DEF Announced
      <4> QED
        BY <1>3, <2>3, <4>1
    <3> QED
      BY <2>3, <3>1
  <2> QED
    BY <1>1, <2>1, <2>2, <2>3
<1>8. CountedIsKept'
  <2>1. ASSUME NEW a \in Rank, NEW b \in Rank
        PROVE  BeforeNext(b, nReceived[a][b] + 1)'
    <3>1. CASE a = i /\ b = k
      <4>1. BeforeNext(k, After(m))
        BY <1>2 DEF Announced
      <4> QED
        BY <1>1, <3>1, <4>1 DEF BeforeNext
    <3>2. CASE a # i \/ b # k
      <4>1. nReceived'[a][b] = nReceived[a][b]
        BY <1>1, <3>2
      <4>2. BeforeNext(b, nReceived[a][b] + 1)
        BY DEF CountedIsKept
      <4> QED
        BY <4>1, <4>2 DEF BeforeNext
    <3> QED
      BY <3>1, <3>2
  <2>2. ASSUME NEW a \in Rank, NEW b \in Rank, NEW n \in 1 .. Len(sent[b]),
               sent[b][n] <= nReceived'[a][b]
        PROVE  Given(a, b, sent[b][n]) \/ Waiting(a, b, sent[b][n])'
    <3>1. CASE sent[b][n] <= nReceived[a][b]
      <4>1. Given(a, b, sent[b][n]) \/ Waiting(a, b, sent[b][n])
        BY <3>1 DEF CountedIsKept
      <4> QED
        BY <1>1, <4>1 DEF Waiting
    <3>2. CASE ~ (sent[b][n] <= nReceived[a][b])
      <4>1. a = i /\ b = k
        BY <1>1, <2>2, <3>2
      <4>2. sent[k][n] \in Int /\ nReceived[i][k] \in Int /\ nReceived'[i][k] \in Int
        <5>1. nReceived[i][k] \in Int /\ sent[k][n] \in Int
          BY <4>1, ColumnType, HistoryType
        <5>2. nReceived'[i][k] = After(m) - 1
          <6>1. nReceived' = [nReceived EXCEPT ![i] =
                    [nReceived[i] EXCEPT ![k] = CountAfter(nReceived[i][k] + 1, m)]]
            BY DEF MessageReceived
          <6>2. nReceived'[i][k] = nReceived[i][k] + 1 + m.pause
            BY <6>1 DEF TypeOK, CountAfter
          <6>3. m.pause \in Int
            BY BoundsAssumption DEF IsNext, Message
          <6> QED
            BY <1>4, <5>1, <6>2, <6>3 DEF After
        <5> QED
          BY <1>3, <5>1, <5>2
      <4>3. sent[k][n] <= m.body \/ After(m) <= sent[k][n]
        BY <1>2, <4>1 DEF Announced
      <4>4. sent[k][n] = m.body
        BY <1>1, <1>3, <1>4, <2>2, <3>2, <4>1, <4>2, <4>3
      <4> QED
        BY <1>1, <4>1, <4>4 DEF Waiting
    <3> QED
      BY <3>1, <3>2
  <2> QED
    BY <2>1, <2>2 DEF CountedIsKept, Given, Waiting
<1>9. GivenInOrder'
    BY DEF GivenInOrder, IsSent
<1>10. CommonOrder'
    BY DEF CommonOrder
<1>11. NoGaps'
    BY NoGapsKept
<1> QED
    BY <1>5, <1>6, <1>7, <1>8, <1>9, <1>10, <1>11

\* The handler for another member's message and that for the own one.
LEMMA ReceivesHistory ==
    ASSUME HInv, NEW i \in Rank, NEW k \in Rank,
           RdmcReceive(i, k) \/ (k = i /\ OwnReceive(i))
    PROVE  History'
<1> USE DEF HInv, CInv, OInv, IInv, History
<1>1. CASE RdmcReceive(i, k)
  <2>1. PICK e \in current_receives[i] :
            /\ IsNext(i, k, e.msg) /\ MessageReceived(i, k, e.msg)
            /\ current_receives' = [current_receives EXCEPT ![i] = @ \ {e}]
    BY <1>1, RdmcReceiveNext
  <2>2. UNCHANGED <<sent, sendVars, inflight, delivered, delivered_num>>
    BY <1>1 DEF RdmcReceive
  <2>3. e.msg \in UnderWay(k)
    BY <2>1, UnderWayFound DEF IsNext
  <2>4. \A a \in Rank : current_receives'[a] \subseteq current_receives[a]
    BY <2>1 DEF TypeOK
  <2>5. \A a \in Rank : \A x \in UnderWay(a)' : x \in UnderWay(a)
    BY <2>2, <2>4 DEF UnderWay, sendVars
  <2> QED
    BY <2>1, <2>2, <2>3, <2>5, ReceiveHistory DEF sendVars
<1>2. CASE k = i /\ OwnReceive(i)
  <2>1. PICK m \in current_send[i] : IsNext(i, i, m) /\ MessageReceived(i, i, m)
    BY <1>2, OwnReceiveNext
  <2>2. UNCHANGED <<sent, next_send, future_message_index, pending_sends, inflight,
                    current_receives, delivered, delivered_num>>
    BY <1>2 DEF OwnReceive
  <2>3. m \in UnderWay(i)
    BY <2>1, UnderWayFound
  <2>4. \A a \in Rank : current_send'[a] \subseteq current_send[a]
    BY <1>2 DEF OwnReceive, TypeOK
  <2>5. \A a \in Rank : \A x \in UnderWay(a)' : x \in UnderWay(a)
    BY <2>2, <2>4 DEF UnderWay
  <2> QED
    BY <1>2, <2>1, <2>2, <2>3, <2>5, ReceiveHistory
<1> QED
    BY <1>1, <1>2

(***************************************************************************)
(* Delivering.                                                             *)
(***************************************************************************)
\* What comes up to seq_num has been counted, and is not lost.
LEMMA ReceivedIsKept ==
    ASSUME HInv, NEW r \in Rank, NEW a \in Rank, NEW n \in 1 .. Len(sent[a]),
           SeqNum(a, sent[a][n]) <= seq_num[r][r]
    PROVE  Given(r, a, sent[a][n]) \/ Waiting(r, a, sent[a][n])
<1> USE DEF HInv, CInv, OInv, IInv, History
<1>1. sent[a][n] \in Int /\ nReceived[r][a] \in Int /\ seq_num[r][r] \in Int
    BY ColumnType, HistoryType
<1>2. seq_num[r][r] < SeqNum(a, nReceived[r][a] + 1)
    BY DEF Promises, SeqNumBeforeGaps
<1>3. SeqNum(a, sent[a][n]) \in Int /\ SeqNum(a, nReceived[r][a] + 1) \in Int
  <2>1. SeqNum(a, sent[a][n]) \in Int
    BY <1>1, SeqNumInt
  <2>2. nReceived[r][a] + 1 \in Int
    BY <1>1
  <2>3. SeqNum(a, nReceived[r][a] + 1) \in Int
    BY <2>2, SeqNumInt
  <2> QED
    BY <2>1, <2>3
<1>4. SeqNum(a, sent[a][n]) < SeqNum(a, nReceived[r][a] + 1)
    BY <1>1, <1>2, <1>3
<1>5. sent[a][n] < nReceived[r][a] + 1
    BY <1>1, <1>4, SeqNumReflectsOrder
<1>6. sent[a][n] <= nReceived[r][a]
    BY <1>1, <1>5
<1> QED
    BY <1>6 DEF CountedIsKept

\* An entry that waits has the number of its message.
LEMMA WaitingNumber ==
    ASSUME HInv, NEW r \in Rank, NEW e \in locally_stable_messages[r]
    PROVE  /\ e.seq = SeqNum(e.msg.sender_rank, e.msg.body) /\ e.msg.index = e.msg.body
           /\ e.seq \in Int /\ e.msg.sender_rank \in Rank /\ e.msg.body \in Int
           /\ delivered_num[r][r] < e.seq
<1> USE DEF HInv, CInv, OInv, IInv, History
<1>1. Numbered(e)
    BY DEF Orderly, NumberingAgrees, Numbered
<1>2. e.seq \in Int /\ e.msg.sender_rank \in Rank /\ e.msg.body \in Int
    BY FiledType
<1> QED
    BY <1>1, <1>2 DEF Numbered, Columns, Undelivered

\* A member has given its application everything up to its delivered_num.
LEMMA UpToDelivered ==
    ASSUME HInv, NEW r \in Rank, NEW a \in Rank, NEW n \in 1 .. Len(sent[a]),
           SeqNum(a, sent[a][n]) <= delivered_num[r][r]
    PROVE  Given(r, a, sent[a][n])
<1> USE DEF HInv, CInv, OInv, IInv, History
<1>1. delivered_num[r][r] <= stable_num[r][r] /\ stable_num[r][r] <= seq_num[r][r]
    BY DEF Promises, DeliveredIsKnownStable, StableNumCorrect
<1>2. /\ delivered_num[r][r] \in Int /\ stable_num[r][r] \in Int /\ seq_num[r][r] \in Int
      /\ sent[a][n] \in Int
    BY ColumnType, HistoryType
<1>3. SeqNum(a, sent[a][n]) \in Int
    BY <1>2, SeqNumInt
<1>4. SeqNum(a, sent[a][n]) <= seq_num[r][r]
    BY <1>1, <1>2, <1>3
<1>5. ~ Waiting(r, a, sent[a][n])
  <2> SUFFICES ASSUME NEW e \in locally_stable_messages[r], e.msg.sender_rank = a,
                      e.msg.body = sent[a][n]
               PROVE  FALSE
    BY DEF Waiting
  <2>1. e.seq = SeqNum(a, sent[a][n]) /\ delivered_num[r][r] < e.seq
    BY WaitingNumber
  <2> QED
    BY <1>2, <1>3, <2>1
<1> QED
    BY <1>4, <1>5, ReceivedIsKept

\* e is what the delivery predicate of member i hands to the application.
IsDelivered(i, e) ==
    /\ e \in locally_stable_messages[i]
    /\ IsFirst(i, e)
    /\ StableEverywhere(i, e.seq)

\* Everything before it has been given already.
LEMMA UpToDelivery ==
    ASSUME HInv, NEW i \in Rank, NEW e, IsDelivered(i, e),
           NEW a \in Rank, NEW n \in 1 .. Len(sent[a]), SeqNum(a, sent[a][n]) < e.seq
    PROVE  Given(i, a, sent[a][n])
<1> USE DEF HInv, CInv, OInv, IInv, History
<1>1. e.seq <= stable_num[i][i] /\ stable_num[i][i] <= seq_num[i][i]
    BY DEF Promises, StableNumCorrect, IsDelivered, StableEverywhere
<1>2. /\ stable_num[i][i] \in Int /\ seq_num[i][i] \in Int /\ sent[a][n] \in Int
      /\ e.seq \in Int
    BY ColumnType, HistoryType, WaitingNumber DEF IsDelivered
<1>3. SeqNum(a, sent[a][n]) \in Int
    BY <1>2, SeqNumInt
<1>4. SeqNum(a, sent[a][n]) <= seq_num[i][i]
    BY <1>1, <1>2, <1>3
<1>5. ~ Waiting(i, a, sent[a][n])
  <2> SUFFICES ASSUME NEW f \in locally_stable_messages[i], f.msg.sender_rank = a,
                      f.msg.body = sent[a][n]
               PROVE  FALSE
    BY DEF Waiting
  <2>1. f.seq = SeqNum(a, sent[a][n])
    BY WaitingNumber
  <2>2. e.seq <= f.seq
    BY DEF IsDelivered, IsFirst
  <2> QED
    BY <1>2, <1>3, <2>1, <2>2
<1> QED
    BY <1>4, <1>5, ReceivedIsKept

\* An upcall has the number of its message, and its message was sent.
LEMMA UpcallNumber ==
    ASSUME HInv, NEW r \in Rank, NEW n \in 1 .. Len(delivered[r])
    PROVE  /\ delivered[r][n].sender_rank \in Rank /\ delivered[r][n].body \in Int
           /\ delivered[r][n].index = delivered[r][n].body
           /\ NumberOf(delivered[r][n]) =
                  SeqNum(delivered[r][n].sender_rank, delivered[r][n].body)
           /\ NumberOf(delivered[r][n]) \in Int
           /\ NumberOf(delivered[r][n]) <= delivered_num[r][r]
           /\ \E p \in 1 .. Len(sent[delivered[r][n].sender_rank]) :
                  sent[delivered[r][n].sender_rank][p] = delivered[r][n].body
<1> USE DEF HInv, CInv, OInv, IInv, History
<1>1. delivered[r][n].index = delivered[r][n].body
    BY DEF Orderly, NumberingAgrees
<1>2. /\ delivered[r][n].sender_rank \in Rank /\ delivered[r][n].body \in Int
      /\ NumberOf(delivered[r][n]) \in Int
    BY HistoryType
<1> QED
    BY <1>1, <1>2 DEF NumberOf, GivenInOrder, IsSent

\* Every member that is further ahead was given this message at this place.
LEMMA SamePlace ==
    ASSUME HInv, NEW i \in Rank, NEW e, IsDelivered(i, e),
           IsSent(e.msg.sender_rank, e.msg.body),
           NEW r \in Rank, NEW place, place = Len(delivered[i]) + 1, place <= Len(delivered[r])
    PROVE  delivered[r][place] = UpcallOf(e.msg)
<1> USE DEF HInv, CInv, OInv, IInv, History
<1>1. Len(delivered[i]) \in Nat /\ Len(delivered[r]) \in Nat /\ delivered[r] \in Seq(Upcall)
    BY HistoryType
<1>2. place \in 1 .. Len(delivered[r])
    BY <1>1
<1>3. /\ e.seq = SeqNum(e.msg.sender_rank, e.msg.body) /\ e.msg.index = e.msg.body
      /\ e.seq \in Int /\ e.msg.sender_rank \in Rank /\ e.msg.body \in Int
      /\ delivered_num[i][i] < e.seq
    BY WaitingNumber DEF IsDelivered
<1>4. delivered_num[i][i] \in Int /\ delivered_num[r][r] \in Int
    BY FiledType
<1>5. PICK v : v = delivered[r][place]
    OBVIOUS
<1>6. /\ v.sender_rank \in Rank /\ v.body \in Int /\ v.index = v.body
      /\ NumberOf(v) = SeqNum(v.sender_rank, v.body) /\ NumberOf(v) \in Int
      /\ NumberOf(v) <= delivered_num[r][r]
      /\ \E p \in 1 .. Len(sent[v.sender_rank]) : sent[v.sender_rank][p] = v.body
    BY <1>2, <1>5, UpcallNumber
<1>7. ASSUME NEW n \in 1 .. Len(delivered[r]), n < place
      PROVE  /\ n \in 1 .. Len(delivered[i]) /\ delivered[r][n] = delivered[i][n]
             /\ NumberOf(delivered[r][n]) < NumberOf(v)
  <2>1. n \in 1 .. Len(delivered[i])
    BY <1>1, <1>7
  <2>2. delivered[r][n] = delivered[i][n]
    BY <1>7, <2>1 DEF CommonOrder
  <2> QED
    BY <1>2, <1>5, <1>7, <2>1, <2>2 DEF GivenInOrder
<1>8. ASSUME NumberOf(v) < e.seq
      PROVE  FALSE
  <2>1. PICK p \in 1 .. Len(sent[v.sender_rank]) : sent[v.sender_rank][p] = v.body
    BY <1>6
  <2>2. Given(i, v.sender_rank, v.body)
    BY <1>6, <1>8, <2>1, UpToDelivery
  <2>3. PICK n \in 1 .. Len(delivered[i]) :
            delivered[i][n].sender_rank = v.sender_rank /\ delivered[i][n].body = v.body
    BY <2>2 DEF Given
  <2>4. NumberOf(delivered[i][n]) = NumberOf(v)
    BY <1>6, <2>3, UpcallNumber
  <2>5. n \in 1 .. Len(delivered[r]) /\ n < place
    BY <1>1, <1>2
  <2>6. NumberOf(delivered[i][n]) < NumberOf(v)
    BY <1>7, <2>5
  <2> QED
    BY <1>6, <2>4, <2>6
<1>9. ASSUME e.seq < NumberOf(v)
      PROVE  FALSE
  <2>1. PICK p \in 1 .. Len(sent[e.msg.sender_rank]) : sent[e.msg.sender_rank][p] = e.msg.body
    BY DEF IsSent
  <2>2. e.seq <= delivered_num[r][r]
    BY <1>3, <1>4, <1>6, <1>9
  <2>3. Given(r, e.msg.sender_rank, e.msg.body)
    BY <1>3, <2>1, <2>2, UpToDelivered
  <2>4. PICK n \in 1 .. Len(delivered[r]) :
            /\ delivered[r][n].sender_rank = e.msg.sender_rank
            /\ delivered[r][n].body = e.msg.body
    BY <2>3 DEF Given
  <2>5. NumberOf(delivered[r][n]) = e.seq
    BY <1>3, <2>4, UpcallNumber
  <2>6. n < place
    <3>1. CASE n = place
      BY <1>3, <1>5, <1>9, <2>5, <3>1
    <3>2. CASE place < n
      <4>1. NumberOf(v) < NumberOf(delivered[r][n])
        BY <1>2, <1>5, <3>2 DEF GivenInOrder
      <4> QED
        BY <1>3, <1>6, <1>9, <2>5, <4>1
    <3> QED
      BY <1>1, <1>2, <3>1, <3>2
  <2>7. n \in 1 .. Len(delivered[i]) /\ NumberOf(delivered[i][n]) = e.seq
    BY <1>7, <2>5, <2>6
  <2>8. e.seq <= delivered_num[i][i]
    BY <2>7, UpcallNumber
  <2> QED
    BY <1>3, <1>4, <2>8
<1>10. NumberOf(v) = e.seq
    BY <1>3, <1>6, <1>8, <1>9
<1>11. v.sender_rank = e.msg.sender_rank /\ v.body = e.msg.body
  <2>1. SeqNum(v.sender_rank, v.body) = SeqNum(e.msg.sender_rank, e.msg.body)
    BY <1>3, <1>6, <1>10
  <2>2. /\ v.sender_rank \in Rank /\ v.body \in Int
        /\ e.msg.sender_rank \in Rank /\ e.msg.body \in Int
    BY <1>3, <1>6
  <2> HIDE DEF HInv, CInv, OInv, IInv, History
  <2> QED
    BY <2>1, <2>2, SeqNumInjective
<1>12. v \in Upcall
    BY <1>1, <1>2, <1>5
<1>13. v = [sender_rank |-> v.sender_rank, index |-> v.index, body |-> v.body]
    BY <1>12 DEF Upcall
<1> QED
    BY <1>3, <1>5, <1>6, <1>11, <1>13 DEF UpcallOf

\* It is the first message of its sender that has not been given yet.
LEMMA NextOfSender ==
    ASSUME HInv, NEW i \in Rank, NEW e, IsDelivered(i, e), NEW k \in Rank,
           k = e.msg.sender_rank, NEW m \in 1 .. Len(sent[k]), sent[k][m] = e.msg.body
    PROVE  /\ Cardinality(SeenFrom(i, k)) = m - 1
           /\ ~ Given(i, k, e.msg.body)
<1> USE DEF HInv, CInv, OInv, IInv, History
<1>1. /\ e.seq = SeqNum(k, e.msg.body) /\ e.seq \in Int /\ e.msg.body \in Int
      /\ delivered_num[i][i] < e.seq /\ delivered_num[i][i] \in Int
    BY WaitingNumber, FiledType DEF IsDelivered
<1>2. ~ Given(i, k, e.msg.body)
  <2> SUFFICES ASSUME NEW n \in 1 .. Len(delivered[i]), delivered[i][n].sender_rank = k,
                      delivered[i][n].body = e.msg.body
               PROVE  FALSE
    BY DEF Given
  <2>1. NumberOf(delivered[i][n]) = e.seq /\ NumberOf(delivered[i][n]) <= delivered_num[i][i]
    BY <1>1, UpcallNumber
  <2> QED
    BY <1>1, <2>1
<1>3. Cardinality(SeenFrom(i, k)) \in Nat
    BY SeenFinite
<1>4. Len(sent[k]) \in Nat /\ \A n \in 1 .. Len(sent[k]) : sent[k][n] \in Int
    BY HistoryType
<1>5. ~ (m <= Cardinality(SeenFrom(i, k)))
    BY <1>2 DEF NoGaps
<1>6. ASSUME m # 1
      PROVE  m - 1 <= Cardinality(SeenFrom(i, k))
  <2>1. m - 1 \in 1 .. Len(sent[k]) /\ m - 1 < m
    BY <1>4, <1>6
  <2>2. sent[k][m - 1] < e.msg.body
    BY <2>1 DEF SentInOrder
  <2>3. PICK p, b : p = m - 1 /\ b = sent[k][p]
    OBVIOUS
  <2>4. p \in 1 .. Len(sent[k]) /\ b \in Int /\ b < e.msg.body
    BY <1>4, <2>1, <2>2, <2>3
  <2>5. SeqNum(k, b) <= e.seq
    BY <1>1, <2>4, SeqNumMonotone
  <2>6. SeqNum(k, b) # e.seq
    BY <1>1, <2>4, SeqNumInjective
  <2>7. SeqNum(k, b) < e.seq
    <3>1. SeqNum(k, b) \in Int
      BY <2>4, SeqNumInt
    <3> QED
      BY <1>1, <2>5, <2>6, <3>1
  <2>8. Given(i, k, sent[k][p])
    BY <2>3, <2>4, <2>7, UpToDelivery
  <2> QED
    BY <2>3, <2>4, <2>8 DEF NoGaps
<1> QED
    BY <1>2, <1>3, <1>4, <1>5, <1>6

\* What the delivery predicate changes.
LEMMA DeliveryIs ==
    ASSUME TypeOK, NEW i \in Rank, DeliveryTrig(i)
    PROVE  \E e : /\ IsDelivered(i, e)
                  /\ delivered_num'[i][i] = e.seq
                  /\ \A a \in Rank \ {i} : delivered_num'[a][a] = delivered_num[a][a]
                  /\ locally_stable_messages'[i] = locally_stable_messages[i] \ {e}
                  /\ \A a \in Rank \ {i} :
                         locally_stable_messages'[a] = locally_stable_messages[a]
                  /\ e.msg.size = 0 => delivered' = delivered
                  /\ e.msg.size # 0 =>
                         delivered' = [delivered EXCEPT ![i] = Append(@, UpcallOf(e.msg))]
                  /\ UNCHANGED <<nReceived, sendVars, current_receives, inflight, sent>>
<1>1. PICK e \in locally_stable_messages[i] :
          /\ IsFirst(i, e)
          /\ StableEverywhere(i, e.seq)
          /\ deliver_message(i, e.msg)
          /\ delivered_num' = [delivered_num EXCEPT ![i][i] = e.seq]
          /\ locally_stable_messages' = [locally_stable_messages EXCEPT ![i] = @ \ {e}]
    BY DEF DeliveryTrig
<1>2. IsDelivered(i, e)
    BY <1>1 DEF IsDelivered
<1>3. /\ delivered_num'[i][i] = e.seq
      /\ \A a \in Rank \ {i} : delivered_num'[a][a] = delivered_num[a][a]
    BY <1>1 DEF TypeOK
<1>4. /\ locally_stable_messages'[i] = locally_stable_messages[i] \ {e}
      /\ \A a \in Rank \ {i} : locally_stable_messages'[a] = locally_stable_messages[a]
    BY <1>1 DEF TypeOK
<1>5. /\ e.msg.size = 0 => delivered' = delivered
      /\ e.msg.size # 0 =>
             delivered' = [delivered EXCEPT ![i] = Append(@, UpcallOf(e.msg))]
    BY <1>1 DEF deliver_message
<1>6. UNCHANGED <<nReceived, sendVars, current_receives, inflight, sent>>
    BY DEF DeliveryTrig
<1> QED
    BY <1>2, <1>3, <1>4, <1>5, <1>6

\* The sequence of upcalls, one longer.
LEMMA UpcallsGrow ==
    ASSUME TypeOK, NEW i \in Rank, NEW u,
           delivered' = [delivered EXCEPT ![i] = Append(@, u)]
    PROVE  /\ Len(delivered'[i]) = Len(delivered[i]) + 1
           /\ Len(delivered[i]) + 1 \in 1 .. Len(delivered'[i])
           /\ delivered'[i][Len(delivered[i]) + 1] = u
           /\ \A a \in Rank \ {i} : delivered'[a] = delivered[a]
           /\ \A a \in Rank : \A n \in 1 .. Len(delivered[a]) :
                  n \in 1 .. Len(delivered'[a]) /\ delivered'[a][n] = delivered[a][n]
           /\ \A a \in Rank : \A n \in 1 .. Len(delivered'[a]) :
                  \/ a = i /\ n = Len(delivered[i]) + 1
                  \/ n \in 1 .. Len(delivered[a])
<1>1. delivered[i] \in Seq(Upcall) /\ Len(delivered[i]) \in Nat
    BY HistoryType
<1>2. /\ delivered'[i] = Append(delivered[i], u)
      /\ \A a \in Rank \ {i} : delivered'[a] = delivered[a]
    BY DEF TypeOK
<1>3. /\ Len(delivered'[i]) = Len(delivered[i]) + 1
      /\ Len(delivered[i]) + 1 \in 1 .. Len(delivered'[i])
      /\ delivered'[i][Len(delivered[i]) + 1] = u
    BY <1>1, <1>2
<1>4. \A n \in 1 .. Len(delivered[i]) :
          n \in 1 .. Len(delivered'[i]) /\ delivered'[i][n] = delivered[i][n]
    BY <1>1, <1>2, <1>3
<1>5. \A n \in 1 .. Len(delivered'[i]) :
          n = Len(delivered[i]) + 1 \/ n \in 1 .. Len(delivered[i])
    BY <1>1, <1>3
<1> QED
    BY <1>2, <1>3, <1>4, <1>5

\* Whether its message had content or not, an entry that is delivered is not
\* missed: the parts that do not depend on what the application has seen.
LEMMA DeliveryKept ==
    ASSUME HInv, NEW i \in Rank, NEW e, IsDelivered(i, e),
           locally_stable_messages'[i] = locally_stable_messages[i] \ {e},
           \A a \in Rank \ {i} : locally_stable_messages'[a] = locally_stable_messages[a],
           UNCHANGED <<nReceived, sendVars, current_receives, inflight, sent>>,
           \A a, k \in Rank : \A b : Given(a, k, b) => Given(a, k, b)',
           e.msg.size # 0 => Given(i, e.msg.sender_rank, e.msg.body)'
    PROVE  SentInOrder' /\ AllAnnounced' /\ ContentIsSent' /\ CountedIsKept'
<1> USE DEF HInv, CInv, OInv, IInv, History
<1>1. UNCHANGED <<next_send, future_message_index, current_send, pending_sends>>
    BY DEF sendVars
<1>2. SentInOrder'
    BY <1>1 DEF SentInOrder, BeforeNext
<1>3. AllAnnounced'
  <2> SUFFICES ASSUME NEW k \in Rank, NEW m \in UnderWay(k)'
               PROVE  Announced(k, m)'
    BY DEF AllAnnounced
  <2>1. m \in UnderWay(k)
    BY <1>1 DEF UnderWay
  <2>2. Announced(k, m)
    BY <2>1 DEF AllAnnounced
  <2> QED
    BY <1>1, <2>2 DEF Announced, IsSent, BeforeNext
<1>4. \A a \in Rank : locally_stable_messages'[a] \subseteq locally_stable_messages[a]
    OBVIOUS
<1>5. ContentIsSent'
    BY <1>4 DEF ContentIsSent, IsSent
<1>6. CountedIsKept'
  <2>1. ASSUME NEW a \in Rank, NEW k \in Rank
        PROVE  BeforeNext(k, nReceived[a][k] + 1)'
    BY <1>1 DEF CountedIsKept, BeforeNext
  <2>2. ASSUME NEW a \in Rank, NEW k \in Rank, NEW n \in 1 .. Len(sent[k]),
               sent[k][n] <= nReceived[a][k]
        PROVE  Given(a, k, sent[k][n])' \/ Waiting(a, k, sent[k][n])'
    <3>1. Given(a, k, sent[k][n]) \/ Waiting(a, k, sent[k][n])
      BY <2>2 DEF CountedIsKept
    <3>2. ASSUME NEW f \in locally_stable_messages[a], f.msg.sender_rank = k,
                 f.msg.body = sent[k][n]
          PROVE  Given(a, k, sent[k][n])' \/ Waiting(a, k, sent[k][n])'
      <4>1. CASE a = i /\ f = e
        <5>1. IsSent(k, sent[k][n])
          BY DEF IsSent
        <5>2. e.msg.size # 0
          BY <3>2, <4>1, <5>1 DEF ContentIsSent
        <5> QED
          BY <3>2, <4>1, <5>2
      <4>2. CASE ~ (a = i /\ f = e)
        <5>1. f \in locally_stable_messages'[a]
          BY <4>2
        <5> QED
          BY <3>2, <5>1 DEF Waiting
      <4> QED
        BY <4>1, <4>2
    <3> QED
      BY <3>1, <3>2 DEF Waiting
  <2> QED
    BY <2>1, <2>2 DEF CountedIsKept
<1> QED
    BY <1>2, <1>3, <1>5, <1>6

\* A skipped turn is passed over.
LEMMA SkippedTurnHistory ==
    ASSUME HInv, NEW i \in Rank, NEW e, IsDelivered(i, e), e.msg.size = 0,
           delivered_num'[i][i] = e.seq,
           \A a \in Rank \ {i} : delivered_num'[a][a] = delivered_num[a][a],
           locally_stable_messages'[i] = locally_stable_messages[i] \ {e},
           \A a \in Rank \ {i} : locally_stable_messages'[a] = locally_stable_messages[a],
           delivered' = delivered,
           UNCHANGED <<nReceived, sendVars, current_receives, inflight, sent>>
    PROVE  History'
<1>1. \A a, k \in Rank : \A b : Given(a, k, b) => Given(a, k, b)'
    BY DEF Given
<1>2. SentInOrder' /\ AllAnnounced' /\ ContentIsSent' /\ CountedIsKept'
    BY <1>1, DeliveryKept
<1>3. e.seq \in Int /\ delivered_num[i][i] < e.seq
    BY WaitingNumber DEF IsDelivered
<1> USE DEF HInv, CInv, OInv, IInv, History
<1>4. GivenInOrder'
  <2>1. ASSUME NEW a \in Rank, NEW n \in 1 .. Len(delivered[a])
        PROVE  NumberOf(delivered[a][n]) <= delivered_num'[a][a]
    <3>1. /\ NumberOf(delivered[a][n]) <= delivered_num[a][a]
          /\ NumberOf(delivered[a][n]) \in Int /\ delivered_num[a][a] \in Int
      BY UpcallNumber, FiledType
    <3> QED
      BY <1>3, <3>1
  <2>2. \A a \in Rank :
            /\ \A n, m \in 1 .. Len(delivered[a]) :
                   n < m => NumberOf(delivered[a][n]) < NumberOf(delivered[a][m])
            /\ \A n \in 1 .. Len(delivered[a]) :
                   IsSent(delivered[a][n].sender_rank, delivered[a][n].body)
    BY DEF GivenInOrder
  <2>3. sent' = sent
    OBVIOUS
  <2>4. \A a \in Rank : \A n \in 1 .. Len(delivered[a]) :
            IsSent(delivered[a][n].sender_rank, delivered[a][n].body)'
    BY <2>2, <2>3 DEF IsSent
  <2> QED
    BY <2>1, <2>2, <2>4 DEF GivenInOrder
<1>5. CommonOrder'
    BY DEF CommonOrder
<1>6. NoGaps'
    BY NoGapsKept
<1> QED
    BY <1>2, <1>4, <1>5, <1>6

\* Every member that has delivered further was given this message here, and no
\* message of its sender is passed over.
LEMMA MessageGivenHistory ==
    ASSUME HInv, NEW i \in Rank, NEW e, IsDelivered(i, e), e.msg.size # 0,
           delivered_num'[i][i] = e.seq,
           \A a \in Rank \ {i} : delivered_num'[a][a] = delivered_num[a][a],
           locally_stable_messages'[i] = locally_stable_messages[i] \ {e},
           \A a \in Rank \ {i} : locally_stable_messages'[a] = locally_stable_messages[a],
           delivered' = [delivered EXCEPT ![i] = Append(@, UpcallOf(e.msg))],
           UNCHANGED <<nReceived, sendVars, current_receives, inflight, sent>>
    PROVE  History'
<1>1. PICK k \in Rank, b \in Int, u \in {UpcallOf(e.msg)},
           place \in {Len(delivered[i]) + 1} :
          /\ k = e.msg.sender_rank /\ b = e.msg.body /\ u = UpcallOf(e.msg)
          /\ place = Len(delivered[i]) + 1
    BY WaitingNumber DEF IsDelivered
<1>2. /\ e.seq = SeqNum(k, b) /\ e.seq \in Int /\ delivered_num[i][i] < e.seq
      /\ u.sender_rank = k /\ u.body = b /\ NumberOf(u) = e.seq
  <2>1. /\ e.seq = SeqNum(k, b) /\ e.seq \in Int /\ delivered_num[i][i] < e.seq
        /\ e.msg.index = b
    BY <1>1, WaitingNumber DEF IsDelivered
  <2>2. u.sender_rank = k /\ u.body = b /\ u.index = b
    BY <1>1, <2>1 DEF UpcallOf
  <2> QED
    BY <2>1, <2>2 DEF NumberOf
<1> USE DEF HInv, CInv, OInv, IInv, History
<1>3. IsSent(k, b)
    BY <1>1 DEF ContentIsSent, IsDelivered
<1>4. PICK m \in 1 .. Len(sent[k]) : sent[k][m] = b
    BY <1>3 DEF IsSent
<1>5. Cardinality(SeenFrom(i, k)) = m - 1 /\ ~ Given(i, k, b)
    BY <1>1, <1>4, NextOfSender
<1>6. \A r \in Rank : place <= Len(delivered[r]) => delivered[r][place] = u
    BY <1>1, <1>3, SamePlace
<1>7. /\ Len(delivered'[i]) = place /\ place \in 1 .. Len(delivered'[i])
      /\ delivered'[i][place] = u
      /\ \A a \in Rank \ {i} : delivered'[a] = delivered[a]
      /\ \A a \in Rank : \A n \in 1 .. Len(delivered[a]) :
             n \in 1 .. Len(delivered'[a]) /\ delivered'[a][n] = delivered[a][n]
      /\ \A a \in Rank : \A n \in 1 .. Len(delivered'[a]) :
             (a = i /\ n = place) \/ n \in 1 .. Len(delivered[a])
  <2>1. TypeOK
    OBVIOUS
  <2>2. delivered' = [delivered EXCEPT ![i] = Append(@, u)]
    BY <1>1
  <2> HIDE DEF HInv, CInv, OInv, IInv, History
  <2>3. /\ Len(delivered'[i]) = Len(delivered[i]) + 1
        /\ Len(delivered[i]) + 1 \in 1 .. Len(delivered'[i])
        /\ delivered'[i][Len(delivered[i]) + 1] = u
        /\ \A a \in Rank \ {i} : delivered'[a] = delivered[a]
        /\ \A a \in Rank : \A n \in 1 .. Len(delivered[a]) :
               n \in 1 .. Len(delivered'[a]) /\ delivered'[a][n] = delivered[a][n]
        /\ \A a \in Rank : \A n \in 1 .. Len(delivered'[a]) :
               (a = i /\ n = Len(delivered[i]) + 1) \/ n \in 1 .. Len(delivered[a])
    BY <2>1, <2>2, UpcallsGrow
  <2> QED
    BY <1>1, <2>3
<1>8. sent' = sent
    OBVIOUS
<1>9. \A a \in Rank : Len(delivered[a]) \in Nat
    BY HistoryType
<1>10. \A a, c \in Rank : \A x :
           Given(a, c, x)' <=> (Given(a, c, x) \/ (a = i /\ c = k /\ x = b))
  <2> SUFFICES ASSUME NEW a \in Rank, NEW c \in Rank, NEW x
               PROVE  Given(a, c, x)' <=> (Given(a, c, x) \/ (a = i /\ c = k /\ x = b))
    OBVIOUS
  <2>1. ASSUME NEW n \in 1 .. Len(delivered'[a]), delivered'[a][n].sender_rank = c,
               delivered'[a][n].body = x
        PROVE  Given(a, c, x) \/ (a = i /\ c = k /\ x = b)
    <3>1. CASE a = i /\ n = place
      BY <1>2, <1>7, <2>1, <3>1
    <3>2. CASE n \in 1 .. Len(delivered[a])
      <4>1. delivered[a][n].sender_rank = c /\ delivered[a][n].body = x
        BY <1>7, <2>1, <3>2
      <4> QED
        BY <3>2, <4>1 DEF Given
    <3> QED
      BY <1>7, <3>1, <3>2
  <2>2. Given(a, c, x) => Given(a, c, x)'
    BY <1>7 DEF Given
  <2>3. a = i /\ c = k /\ x = b => Given(a, c, x)'
    BY <1>2, <1>7 DEF Given
  <2> QED
    BY <2>1, <2>2, <2>3 DEF Given
<1>11. SentInOrder' /\ AllAnnounced' /\ ContentIsSent' /\ CountedIsKept'
  <2>1. \A a, c \in Rank : \A x : Given(a, c, x) => Given(a, c, x)'
    BY <1>10
  <2>2. Given(i, e.msg.sender_rank, e.msg.body)'
    BY <1>1, <1>10
  <2> HIDE DEF HInv, CInv, OInv, IInv, History
  <2> QED
    BY <2>1, <2>2, DeliveryKept
<1>12. GivenInOrder'
  <2>1. ASSUME NEW a \in Rank, NEW n \in 1 .. Len(delivered[a])
        PROVE  /\ NumberOf(delivered[a][n]) \in Int /\ delivered_num[a][a] \in Int
               /\ NumberOf(delivered[a][n]) <= delivered_num[a][a]
               /\ delivered'[a][n] = delivered[a][n]
    BY <1>7, UpcallNumber, FiledType
  <2>2. ASSUME NEW a \in Rank, NEW n \in 1 .. Len(delivered'[a])
        PROVE  /\ NumberOf(delivered'[a][n]) <= delivered_num'[a][a]
               /\ IsSent(delivered[a][n].sender_rank, delivered[a][n].body)'
    <3>1. CASE a = i /\ n = place
      <4>1. delivered'[a][n] = u
        BY <1>7, <3>1
      <4>2. NumberOf(delivered'[a][n]) <= delivered_num'[a][a]
        BY <1>2, <3>1, <4>1
      <4>3. IsSent(delivered[a][n].sender_rank, delivered[a][n].body)'
        BY <1>2, <1>3, <1>8, <4>1 DEF IsSent
      <4> QED
        BY <4>2, <4>3
    <3>2. CASE n \in 1 .. Len(delivered[a])
      <4>1. NumberOf(delivered'[a][n]) <= delivered_num'[a][a]
        <5>1. CASE a = i
          BY <1>2, <2>1, <3>2, <5>1
        <5>2. CASE a # i
          BY <2>1, <3>2, <5>2
        <5> QED
          BY <5>1, <5>2
      <4>2. IsSent(delivered[a][n].sender_rank, delivered[a][n].body)
        BY <3>2 DEF GivenInOrder
      <4> QED
        BY <1>8, <2>1, <3>2, <4>1, <4>2 DEF IsSent
    <3> QED
      BY <1>7, <3>1, <3>2
  <2>3. ASSUME NEW a \in Rank, NEW n \in 1 .. Len(delivered'[a]),
               NEW l \in 1 .. Len(delivered'[a]), n < l
        PROVE  NumberOf(delivered'[a][n]) < NumberOf(delivered'[a][l])
    <3>1. n \in 1 .. Len(delivered[a])
      BY <1>1, <1>7, <1>9, <2>3
    <3>2. CASE a = i /\ l = place
      BY <1>2, <1>7, <2>1, <3>1, <3>2
    <3>3. CASE l \in 1 .. Len(delivered[a])
      <4>1. NumberOf(delivered[a][n]) < NumberOf(delivered[a][l])
        BY <2>3, <3>1, <3>3 DEF GivenInOrder
      <4> QED
        BY <2>1, <3>1, <3>3, <4>1
    <3> QED
      BY <1>7, <3>2, <3>3
  <2> QED
    BY <2>2, <2>3 DEF GivenInOrder
<1>13. CommonOrder'
  <2> SUFFICES ASSUME NEW a \in Rank, NEW c \in Rank, NEW n \in 1 .. Len(delivered'[a]),
                      n <= Len(delivered'[c])
               PROVE  delivered'[a][n] = delivered'[c][n]
    BY DEF CommonOrder
  <2>1. n \in 1 .. Len(delivered'[c])
    <3>1. Len(delivered'[c]) \in Int
      BY <1>1, <1>7, <1>9
    <3> QED
      BY <3>1
  <2>2. CASE n \in 1 .. Len(delivered[a]) /\ n \in 1 .. Len(delivered[c])
    <3>1. delivered[a][n] = delivered[c][n]
      BY <2>2 DEF CommonOrder
    <3> QED
      BY <1>7, <2>2, <3>1
  <2>3. CASE a = i /\ n = place /\ n \in 1 .. Len(delivered[c])
    BY <1>6, <1>7, <1>9, <2>3
  <2>4. CASE c = i /\ n = place /\ n \in 1 .. Len(delivered[a])
    BY <1>6, <1>7, <1>9, <2>4
  <2>5. CASE a = i /\ c = i
    BY <2>5
  <2> QED
    BY <1>7, <2>1, <2>2, <2>3, <2>4, <2>5
<1>14. NoGaps'
  <2> SUFFICES ASSUME NEW a \in Rank, NEW c \in Rank
               PROVE  /\ Cardinality(SeenFrom(a, c)') <= Len(sent[c])
                      /\ \A n \in 1 .. Len(sent[c]) :
                             n <= Cardinality(SeenFrom(a, c)') <=> Given(a, c, sent[c][n])'
    BY <1>8 DEF NoGaps
  <2>1. /\ Cardinality(SeenFrom(a, c)) <= Len(sent[c])
        /\ \A n \in 1 .. Len(sent[c]) :
               n <= Cardinality(SeenFrom(a, c)) <=> Given(a, c, sent[c][n])
    BY DEF NoGaps
  <2>2. CASE ~ (a = i /\ c = k)
    <3>1. ASSUME NEW n \in 1 .. Len(delivered'[a]), delivered'[a][n].sender_rank = c
          PROVE  n \in SeenFrom(a, c)
      BY <1>2, <1>7, <2>2, <3>1 DEF SeenFrom
    <3>2. ASSUME NEW n \in SeenFrom(a, c)
          PROVE  n \in SeenFrom(a, c)'
      BY <1>7 DEF SeenFrom
    <3>3. SeenFrom(a, c)' = SeenFrom(a, c)
      BY <3>1, <3>2 DEF SeenFrom
    <3> QED
      BY <1>10, <2>1, <2>2, <3>3
  <2>3. CASE a = i /\ c = k
    <3>1. SeenFrom(i, k)' = SeenFrom(i, k) \cup {place}
      <4>1. ASSUME NEW n \in 1 .. Len(delivered'[i]), delivered'[i][n].sender_rank = k
            PROVE  n \in SeenFrom(i, k) \cup {place}
        BY <1>7, <4>1 DEF SeenFrom
      <4>2. ASSUME NEW n \in SeenFrom(i, k)
            PROVE  n \in SeenFrom(i, k)'
        BY <1>7 DEF SeenFrom
      <4>3. place \in SeenFrom(i, k)'
        BY <1>2, <1>7 DEF SeenFrom
      <4> QED
        BY <4>1, <4>2, <4>3 DEF SeenFrom
    <3>2. place \notin SeenFrom(i, k)
      BY <1>1, <1>9 DEF SeenFrom
    <3>3. Cardinality(SeenFrom(i, k) \cup {place}) = m
      <4>1. TypeOK
        OBVIOUS
      <4>2. PICK S : S = SeenFrom(i, k)
        OBVIOUS
      <4> HIDE DEF HInv, CInv, OInv, IInv, History
      <4>3. IsFiniteSet(S) /\ Cardinality(S) \in Nat
        BY <4>1, <4>2, SeenFinite
      <4>4. Cardinality(S) = m - 1 /\ place \notin S
        BY <1>5, <3>2, <4>2
      <4>5. Cardinality(S \cup {place}) = Cardinality(S) + 1
        BY <4>3, <4>4, FS_AddElement
      <4>6. Cardinality(S \cup {place}) = m
        BY <4>3, <4>4, <4>5
      <4> QED
        BY <4>2, <4>6
    <3>4. Len(sent[k]) \in Nat /\ \A n \in 1 .. Len(sent[k]) : sent[k][n] \in Int
      BY HistoryType
    <3>5. \A n \in 1 .. Len(sent[k]) : sent[k][n] = b <=> n = m
      <4> SUFFICES ASSUME NEW n \in 1 .. Len(sent[k]), sent[k][n] = b, n # m
                   PROVE  FALSE
        BY <1>4
      <4>1. n < m \/ m < n
        BY <3>4
      <4>2. sent[k][n] < sent[k][m] \/ sent[k][m] < sent[k][n]
        BY <4>1 DEF SentInOrder
      <4> QED
        BY <1>4, <4>2
    <3>6. \A n \in 1 .. Len(sent[k]) : n <= m <=> Given(i, k, sent[k][n])'
      <4> TAKE n \in 1 .. Len(sent[k])
      <4> HIDE DEF HInv, CInv, OInv, IInv, History
      <4>1. n <= m - 1 <=> Given(i, k, sent[k][n])
        BY <1>5, <2>1, <2>3
      <4>2. Given(i, k, sent[k][n])' <=> (Given(i, k, sent[k][n]) \/ sent[k][n] = b)
        BY <1>10
      <4>3. n <= m <=> (n <= m - 1 \/ n = m)
        BY <3>4
      <4> QED
        BY <3>5, <4>1, <4>2, <4>3
    <3>7. Cardinality(SeenFrom(a, c)') = m
      <4>1. SeenFrom(a, c)' = SeenFrom(i, k) \cup {place}
        BY <2>3, <3>1
      <4> QED
        BY <3>3, <4>1
    <3>8. m <= Len(sent[c])
      BY <2>3, <3>4
    <3> HIDE DEF HInv, CInv, OInv, IInv, History
    <3> QED
      BY <2>3, <3>6, <3>7, <3>8
  <2> QED
    BY <2>2, <2>3
<1> QED
    BY <1>11, <1>12, <1>13, <1>14

\* The delivery predicate.
LEMMA DeliveryHistory ==
    ASSUME HInv, NEW i \in Rank, DeliveryTrig(i)
    PROVE  History'
<1>1. TypeOK
    BY DEF HInv, CInv, OInv, IInv
<1>2. PICK e :
          /\ IsDelivered(i, e)
          /\ delivered_num'[i][i] = e.seq
          /\ \A a \in Rank \ {i} : delivered_num'[a][a] = delivered_num[a][a]
          /\ locally_stable_messages'[i] = locally_stable_messages[i] \ {e}
          /\ \A a \in Rank \ {i} : locally_stable_messages'[a] = locally_stable_messages[a]
          /\ e.msg.size = 0 => delivered' = delivered
          /\ e.msg.size # 0 =>
                 delivered' = [delivered EXCEPT ![i] = Append(@, UpcallOf(e.msg))]
          /\ UNCHANGED <<nReceived, sendVars, current_receives, inflight, sent>>
    BY <1>1, DeliveryIs
<1>3. CASE e.msg.size = 0
    BY <1>2, <1>3, SkippedTurnHistory
<1>4. CASE e.msg.size # 0
    BY <1>2, <1>4, MessageGivenHistory
<1> QED
    BY <1>3, <1>4

(***************************************************************************)
(* The invariant always holds.                                             *)
(***************************************************************************)
LEMMA HistoryStep ==
    ASSUME HInv, [Next]_vars
    PROVE  History'
<1>1. ASSUME UNCHANGED <<sent, sendVars, nReceived, current_receives, inflight,
                         locally_stable_messages, delivered>>,
             \A a \in Rank : delivered_num'[a][a] = delivered_num[a][a]
      PROVE  History'
    BY <1>1, HistoryNotDisturbed
<1>2. ASSUME NEW i \in Rank, NEW turns \in 0 .. MaxPause, GetPosition(i, turns)
      PROVE  History'
    BY <1>2, GetPositionHistory
<1>3. ASSUME NEW i \in Rank, Send(i)
      PROVE  History'
    BY <1>3, SendHistory
<1>4. ASSUME NEW i \in Rank, SenderStep(i)
      PROVE  History'
    BY <1>4, SenderStepHistory
<1>5. ASSUME NEW i \in Rank, NEW k \in Rank, RdmcIncoming(i, k)
      PROVE  History'
    BY <1>5, RdmcIncomingHistory
<1>6. ASSUME NEW i \in Rank, NEW k \in Rank, RdmcReceive(i, k)
      PROVE  History'
    BY <1>6, ReceivesHistory
<1>7. ASSUME NEW i \in Rank, OwnReceive(i)
      PROVE  History'
    BY <1>7, ReceivesHistory
<1>8. ASSUME NEW i \in Rank, DeliveryTrig(i)
      PROVE  History'
    BY <1>8, DeliveryHistory
<1>9. ASSUME NEW i \in Rank, StabilityTrig(i) \/ FileWritten(i) \/ Wedge(i)
      PROVE  History'
    BY <1>1, <1>9 DEF StabilityTrig, FileWritten, Wedge, WedgeStep, messageVars, sstVars
<1>10. ASSUME NEW i \in Rank, NEW j \in Rank,
              SeqNumArrives(i, j) \/ StableNumArrives(i, j) \/ PersistedNumArrives(i, j)
       PROVE  History'
    BY <1>1, <1>10 DEF SeqNumArrives, StableNumArrives, PersistedNumArrives, messageVars
<1>11. ASSUME NEW i \in Rank, NEW j \in Rank, DeliveredNumArrives(i, j)
       PROVE  History'
  <2>1. \A a \in Rank : delivered_num'[a][a] = delivered_num[a][a]
    BY <1>11 DEF DeliveredNumArrives, Copied, HInv, CInv, OInv, IInv, TypeOK
  <2> QED
    BY <1>1, <1>11, <2>1 DEF DeliveredNumArrives, messageVars
<1>12. ASSUME UNCHANGED vars
       PROVE  History'
    BY <1>1, <1>12 DEF vars, sstVars, messageVars
<1> QED
    BY <1>2, <1>3, <1>4, <1>5, <1>6, <1>7, <1>8, <1>9, <1>10, <1>11, <1>12 DEF Next

\* Before the first message.
LEMMA HistoryInit == Init => HInv
<1> SUFFICES ASSUME Init
             PROVE  HInv
    OBVIOUS
<1>1. CInv
    BY ColumnsInit
<1>2. /\ \A k \in Rank : /\ sent[k] = <<>> /\ delivered[k] = <<>> /\ next_send[k] = {}
                         /\ future_message_index[k] = 0 /\ current_send[k] = {}
                         /\ pending_sends[k] = <<>> /\ current_receives[k] = {}
                         /\ locally_stable_messages[k] = {}
      /\ \A i, k \in Rank : nReceived[i][k] = -1 /\ inflight[k][i] = <<>>
    BY DEF Init, initialize_sst_row
<1>3. SentInOrder
    BY <1>2 DEF SentInOrder
<1>4. \A k \in Rank : UnderWay(k) = {}
    BY <1>2 DEF UnderWay
<1>5. AllAnnounced
    BY <1>4 DEF AllAnnounced
<1>6. ContentIsSent
    BY <1>2 DEF ContentIsSent
<1>7. CountedIsKept
    BY <1>2 DEF CountedIsKept, BeforeNext
<1>8. GivenInOrder /\ CommonOrder
    BY <1>2 DEF GivenInOrder, CommonOrder
<1>9. NoGaps
  <2>1. \A i, k \in Rank : SeenFrom(i, k) = {}
    BY <1>2 DEF SeenFrom
  <2>2. \A i, k \in Rank : Cardinality(SeenFrom(i, k)) = 0
    BY <2>1, FS_EmptySet
  <2> QED
    BY <1>2, <2>2 DEF NoGaps
<1> QED
    BY <1>1, <1>3, <1>5, <1>6, <1>7, <1>8, <1>9 DEF HInv, History

\* What is sent, under way, counted and given agrees in every reachable state.
THEOREM HistoryCorrect == Spec => []HInv
<1>1. HInv /\ [Next]_vars => History'
    BY HistoryStep
<1>2. Spec => []CInv
    BY ColumnsInvariant
<1>3. HInv <=> CInv /\ History
    BY DEF HInv
<1> QED
    BY <1>1, <1>2, <1>3, HistoryInit, PTL DEF Spec

(***************************************************************************)
(* The refinement.                                                         *)
(***************************************************************************)
\* What the abstract specification counts is what the invariant counts.
LEMMA SeenIs ==
    ASSUME TypeOK, NEW i \in Rank
    PROVE  /\ Len(upcallsSeen[i]) = Len(delivered[i])
           /\ \A n \in 1 .. Len(delivered[i]) :
                  /\ upcallsSeen[i][n].sender = delivered[i][n].sender_rank
                  /\ upcallsSeen[i][n].body = delivered[i][n].body
           /\ \A k \in Rank : Group!Seen(i, k) = Cardinality(SeenFrom(i, k))
<1>1. upcallsSeen[i] = [n \in 1 .. Len(delivered[i]) |-> UpcallSeen(delivered[i][n])]
    BY DEF upcallsSeen
<1>2. Len(delivered[i]) \in Nat
    BY HistoryType
<1>3. Len(upcallsSeen[i]) = Len(delivered[i])
    BY <1>1, <1>2
<1>4. \A n \in 1 .. Len(delivered[i]) :
          /\ upcallsSeen[i][n].sender = delivered[i][n].sender_rank
          /\ upcallsSeen[i][n].body = delivered[i][n].body
    BY <1>1 DEF UpcallSeen
<1>5. ASSUME NEW k \in Rank
      PROVE  Group!Seen(i, k) = Cardinality(SeenFrom(i, k))
  <2>1. {n \in 1 .. Len(upcallsSeen[i]) : upcallsSeen[i][n].sender = k} = SeenFrom(i, k)
    BY <1>3, <1>4 DEF SeenFrom
  <2> QED
    BY <2>1 DEF Group!Seen, Group!Cardinality, Cardinality, Group!IsFiniteSet, IsFiniteSet
<1> QED
    BY <1>3, <1>4, <1>5

\* One more upcall at member i is one more for the abstract specification.
LEMMA UpcallSeenGrows ==
    ASSUME TypeOK, NEW i \in Rank, NEW u \in Upcall,
           delivered' = [delivered EXCEPT ![i] = Append(@, u)]
    PROVE  upcallsSeen' = [upcallsSeen EXCEPT ![i] = Append(@, UpcallSeen(u))]
<1> DEFINE S == [sender : Rank, body : Nat]
           Seen(q) == [n \in 1 .. Len(q) |-> UpcallSeen(q[n])]
<1>1. \A q \in Seq(Upcall) : Seen(q) \in Seq(S) /\ Len(Seen(q)) = Len(q)
  <2> SUFFICES ASSUME NEW q \in Seq(Upcall)
               PROVE  Seen(q) \in Seq(S) /\ Len(Seen(q)) = Len(q)
    OBVIOUS
  <2>1. Len(q) \in Nat /\ \A n \in 1 .. Len(q) : q[n] \in Upcall
    OBVIOUS
  <2>2. \A n \in 1 .. Len(q) : UpcallSeen(q[n]) \in S
    BY <2>1 DEF UpcallSeen, Upcall
  <2> QED
    BY <2>1, <2>2
<1>2. \A q \in Seq(Upcall) : Seen(Append(q, u)) = Append(Seen(q), UpcallSeen(u))
  <2> SUFFICES ASSUME NEW q \in Seq(Upcall)
               PROVE  Seen(Append(q, u)) = Append(Seen(q), UpcallSeen(u))
    OBVIOUS
  <2>1. UpcallSeen(u) \in S
    BY DEF UpcallSeen, Upcall
  <2>2. Append(q, u) \in Seq(Upcall) /\ Len(Append(q, u)) = Len(q) + 1 /\ Len(q) \in Nat
    OBVIOUS
  <2>3. Seen(q) \in Seq(S) /\ Len(Seen(q)) = Len(q)
    BY <1>1
  <2>4. Seen(Append(q, u)) \in Seq(S) /\ Len(Seen(Append(q, u))) = Len(q) + 1
    BY <1>1, <2>2
  <2>5. /\ Append(Seen(q), UpcallSeen(u)) \in Seq(S)
        /\ Len(Append(Seen(q), UpcallSeen(u))) = Len(q) + 1
    BY <2>1, <2>3
  <2>6. ASSUME NEW n \in 1 .. Len(q) + 1
        PROVE  Seen(Append(q, u))[n] = Append(Seen(q), UpcallSeen(u))[n]
    BY <2>2, <2>3
  <2> HIDE DEF Seen, S
  <2> QED
    BY <2>4, <2>5, <2>6, SeqEqual
<1>3. \A a \in Rank : delivered[a] \in Seq(Upcall)
    BY HistoryType
<1>4. upcallsSeen = [a \in Rank |-> Seen(delivered[a])]
    BY DEF upcallsSeen
<1>5. upcallsSeen' = [a \in Rank |-> Seen(delivered'[a])]
    BY DEF upcallsSeen
<1>6. delivered'[i] = Append(delivered[i], u) /\ \A a \in Rank \ {i} : delivered'[a] = delivered[a]
    BY DEF TypeOK
<1> HIDE DEF Seen
<1>7. upcallsSeen'[i] = Append(upcallsSeen[i], UpcallSeen(u))
  <2>1. upcallsSeen'[i] = Seen(Append(delivered[i], u))
    BY <1>5, <1>6
  <2>2. upcallsSeen[i] = Seen(delivered[i])
    BY <1>4
  <2> QED
    BY <1>2, <1>3, <2>1, <2>2
<1>8. \A a \in Rank \ {i} : upcallsSeen'[a] = upcallsSeen[a]
    BY <1>4, <1>5, <1>6
<1>9. /\ upcallsSeen = [a \in Rank |-> upcallsSeen[a]]
      /\ upcallsSeen' = [a \in Rank |-> upcallsSeen'[a]]
    BY <1>4, <1>5
<1> QED
    BY <1>7, <1>8, <1>9

\* A delivery is an upcall that the abstract specification allows.
LEMMA DeliveryAllowed ==
    ASSUME HInv, NEW i \in Rank, DeliveryTrig(i)
    PROVE  Group!Deliver(i) \/ UNCHANGED <<sent, upcallsSeen>>
<1>1. TypeOK
    BY DEF HInv, CInv, OInv, IInv
<1>2. PICK e :
          /\ IsDelivered(i, e)
          /\ e.msg.size = 0 => delivered' = delivered
          /\ e.msg.size # 0 =>
                 delivered' = [delivered EXCEPT ![i] = Append(@, UpcallOf(e.msg))]
          /\ UNCHANGED sent
    BY <1>1, DeliveryIs
<1>3. CASE e.msg.size = 0
    BY <1>2, <1>3 DEF upcallsSeen
<1>4. CASE e.msg.size # 0
  <2>1. PICK k \in Rank, b \in {e.msg.body}, u \in {UpcallOf(e.msg)},
             seen \in {UpcallSeen(UpcallOf(e.msg))},
             place \in {Len(delivered[i]) + 1} :
            /\ k = e.msg.sender_rank /\ b = e.msg.body /\ u = UpcallOf(e.msg)
            /\ seen = UpcallSeen(u) /\ place = Len(delivered[i]) + 1
    BY <1>2, WaitingNumber DEF IsDelivered
  <2>2. seen = [sender |-> k, body |-> b]
    BY <2>1 DEF UpcallOf, UpcallSeen
  <2>3. u \in Upcall
    <3>1. e.msg \in Message
      BY <1>1, <1>2, FiledType DEF IsDelivered
    <3> QED
      BY <2>1, <3>1 DEF UpcallOf, Upcall, Message
  <2>4. upcallsSeen' = [upcallsSeen EXCEPT ![i] = Append(@, seen)]
    BY <1>1, <1>2, <1>4, <2>1, <2>3, UpcallSeenGrows
  <2>5. IsSent(k, b)
    BY <1>2, <1>4, <2>1 DEF HInv, History, ContentIsSent, IsDelivered
  <2>6. PICK m \in 1 .. Len(sent[k]) : sent[k][m] = b
    BY <2>5 DEF IsSent
  <2>7. Len(sent[k]) \in Nat /\ Len(delivered[i]) \in Nat
    BY <1>1, HistoryType
  <2>8. Group!Seen(i, k) = m - 1
    <3>1. Cardinality(SeenFrom(i, k)) = m - 1
      BY <1>2, <2>1, <2>6, NextOfSender
    <3> QED
      BY <1>1, <3>1, SeenIs
  <2>9. seen \in Group!NextFrom(i, k)
    BY <2>2, <2>6, <2>7, <2>8 DEF Group!NextFrom
  <2>10. ASSUME NEW r \in Rank, Len(upcallsSeen[r]) > Len(upcallsSeen[i])
         PROVE  upcallsSeen[r][Len(upcallsSeen[i]) + 1] = seen
    <3>1. /\ Len(upcallsSeen[r]) = Len(delivered[r]) /\ Len(delivered[r]) \in Nat
          /\ Len(upcallsSeen[i]) = Len(delivered[i])
      BY <1>1, SeenIs, HistoryType
    <3>2. place \in 1 .. Len(delivered[r])
      BY <2>1, <2>7, <2>10, <3>1
    <3>3. delivered[r][place] = u
      BY <1>2, <2>1, <2>5, <2>7, <3>1, <3>2, SamePlace
    <3>4. upcallsSeen[r][place] = UpcallSeen(delivered[r][place])
      BY <3>2 DEF upcallsSeen
    <3> QED
      BY <2>1, <3>1, <3>3, <3>4
  <2> QED
    BY <1>2, <2>4, <2>9, <2>10 DEF Group!Deliver
<1> QED
    BY <1>3, <1>4

\* Every step of the group is a step of the abstract specification, or none.
LEMMA GroupStep ==
    ASSUME HInv, [Next]_vars
    PROVE  [Group!Next]_<<sent, upcallsSeen>>
<1>1. ASSUME UNCHANGED <<sent, delivered>>
      PROVE  UNCHANGED <<sent, upcallsSeen>>
    BY <1>1 DEF upcallsSeen
<1>2. ASSUME NEW i \in Rank, Send(i)
      PROVE  Group!Submit(i)
  <2>1. PICK m \in next_send[i] :
            m.body \in Index /\ sent' = [sent EXCEPT ![i] = Append(@, m.body)]
    BY <1>2, SendIs
  <2>2. UNCHANGED upcallsSeen
    BY <1>2 DEF Send, upcallsSeen
  <2> QED
    BY <2>1, <2>2 DEF Group!Submit
<1>3. ASSUME NEW i \in Rank, DeliveryTrig(i)
      PROVE  Group!Deliver(i) \/ UNCHANGED <<sent, upcallsSeen>>
    BY <1>3, DeliveryAllowed
<1>4. ASSUME NEW i \in Rank, NEW turns \in 0 .. MaxPause, GetPosition(i, turns)
      PROVE  UNCHANGED <<sent, upcallsSeen>>
    BY <1>1, <1>4 DEF GetPosition
<1>5. ASSUME NEW i \in Rank, NEW k \in Rank, RdmcIncoming(i, k) \/ RdmcReceive(i, k)
      PROVE  UNCHANGED <<sent, upcallsSeen>>
    BY <1>1, <1>5 DEF RdmcIncoming, RdmcReceive
<1>6. ASSUME NEW i \in Rank,
             SenderStep(i) \/ OwnReceive(i) \/ StabilityTrig(i) \/ FileWritten(i) \/ Wedge(i)
      PROVE  UNCHANGED <<sent, upcallsSeen>>
    BY <1>1, <1>6 DEF SenderStep, OwnReceive, StabilityTrig, FileWritten, Wedge, WedgeStep
<1>7. ASSUME NEW i \in Rank, NEW j \in Rank,
             \/ SeqNumArrives(i, j) \/ StableNumArrives(i, j)
             \/ DeliveredNumArrives(i, j) \/ PersistedNumArrives(i, j)
      PROVE  UNCHANGED <<sent, upcallsSeen>>
    BY <1>1, <1>7 DEF SeqNumArrives, StableNumArrives, DeliveredNumArrives,
                      PersistedNumArrives
<1>8. ASSUME UNCHANGED vars
      PROVE  UNCHANGED <<sent, upcallsSeen>>
    BY <1>1, <1>8 DEF vars
<1> QED
    BY <1>2, <1>3, <1>4, <1>5, <1>6, <1>7, <1>8 DEF Next, Group!Next

\* Nothing has been sent or delivered at first.
LEMMA GroupInit == Init => Group!Init
<1> SUFFICES ASSUME Init
             PROVE  Group!Init
    OBVIOUS
<1>1. sent = [i \in Rank |-> <<>>] /\ \A i \in Rank : delivered[i] = <<>>
    BY DEF Init
<1>2. \A i \in Rank : [n \in 1 .. Len(delivered[i]) |-> UpcallSeen(delivered[i][n])] = <<>>
    BY <1>1
<1> QED
    BY <1>1, <1>2 DEF Group!Init, upcallsSeen

\* The applications of all members see one sequence of messages, each sender's in
\* order and without gaps: derecho_group implements the abstract atomic multicast.
THEOREM AtomicMulticastImplemented == Spec => ImplementsAtomicMulticast
<1>1. HInv /\ [Next]_vars => [Group!Next]_<<sent, upcallsSeen>>
    BY GroupStep
<1>2. Spec => [][Group!Next]_<<sent, upcallsSeen>>
    BY <1>1, HistoryCorrect, PTL DEF Spec
<1>3. Spec => Group!Init
    BY GroupInit DEF Spec
<1> QED
    BY <1>2, <1>3 DEF ImplementsAtomicMulticast, Group!Spec, Group!vars

(***************************************************************************)
(* THE BUFFERS.  Every one of the WindowSize * N message buffers of a      *)
(* member is free or in exactly one place, with or without persistence;    *)
(* without it they are enough for whatever RDMC brings.  The argument      *)
(* needs what is proved above: the order of the messages (HInv).           *)
(***************************************************************************)

(***************************************************************************)
(* The inductive invariant.                                                *)
(***************************************************************************)
\* What waits for its delivery in a buffer.
Filled(i) == {e \in locally_stable_messages[i] : e.msg.size > 0}

\* An optional holds one message at most, and the maps are finite.
Places(i) ==
    /\ next_send[i] = {} \/ \E m : next_send[i] = {m}
    /\ current_send[i] = {} \/ \E m : current_send[i] = {m}
    /\ IsFiniteSet(current_receives[i])
    /\ IsFiniteSet(Filled(i))
    /\ IsFiniteSet(non_persistent_messages[i])

\* The buffers of one member.
Balanced(i) ==
    WindowSize * N =
        free_message_buffers[i] + Cardinality(next_send[i])
        + Len(pending_sends[i]) + Cardinality(current_send[i])
        + Cardinality(current_receives[i]) + Cardinality(Filled(i))
        + Cardinality(non_persistent_messages[i])

Buffers == \A i \in Rank : Places(i) /\ Balanced(i)

(***************************************************************************)
(* One member at a time.                                                   *)
(***************************************************************************)
\* The buffers of a member are where they were.
SamePlaces(i) ==
    /\ free_message_buffers'[i] = free_message_buffers[i]
    /\ next_send'[i] = next_send[i]
    /\ pending_sends'[i] = pending_sends[i]
    /\ current_send'[i] = current_send[i]
    /\ current_receives'[i] = current_receives[i]
    /\ locally_stable_messages'[i] = locally_stable_messages[i]
    /\ non_persistent_messages'[i] = non_persistent_messages[i]

LEMMA SamePlacesKept ==
    ASSUME Buffers, NEW i \in Rank, SamePlaces(i)
    PROVE  Places(i)' /\ Balanced(i)'
<1>1. Places(i) /\ Balanced(i)
    BY DEF Buffers
<1>2. Filled(i)' = Filled(i)
    BY DEF Filled, SamePlaces
<1>3. Places(i)'
    BY <1>1, <1>2 DEF Places, SamePlaces
<1>4. Balanced(i)'
    BY <1>1, <1>2 DEF Balanced, SamePlaces
<1> QED
    BY <1>3, <1>4

\* Where the buffers of a member are, in numbers.
Counts(i, free, next, queued, current, incoming, filled, writing) ==
    /\ free_message_buffers[i] = free
    /\ Cardinality(next_send[i]) = next
    /\ Len(pending_sends[i]) = queued
    /\ Cardinality(current_send[i]) = current
    /\ Cardinality(current_receives[i]) = incoming
    /\ Cardinality(Filled(i)) = filled
    /\ Cardinality(non_persistent_messages[i]) = writing

LEMMA CountsExist ==
    ASSUME TypeOK, NEW i \in Rank, Places(i)
    PROVE  \E f, m, q, c, r, l, w \in Int :
               /\ Counts(i, f, m, q, c, r, l, w)
               /\ m = (IF next_send[i] = {} THEN 0 ELSE 1)
               /\ c = (IF current_send[i] = {} THEN 0 ELSE 1)
<1>1. free_message_buffers[i] \in Int /\ Len(pending_sends[i]) \in Int
  <2>1. free_message_buffers[i] \in Nat /\ pending_sends[i] \in Seq(Message)
    BY DEF TypeOK
  <2> QED
    BY <2>1
<1>2. ASSUME NEW S, S = {} \/ \E m : S = {m}
      PROVE  Cardinality(S) = IF S = {} THEN 0 ELSE 1
  <2>1. CASE S = {}
    BY <2>1, FS_EmptySet
  <2>2. ASSUME NEW m, S = {m}
        PROVE  S # {} /\ Cardinality(S) = 1
    BY <2>2, FS_Singleton
  <2> QED
    BY <1>2, <2>1, <2>2
<1>3. /\ Cardinality(next_send[i]) = IF next_send[i] = {} THEN 0 ELSE 1
      /\ Cardinality(current_send[i]) = IF current_send[i] = {} THEN 0 ELSE 1
    BY <1>2 DEF Places
<1>4. ASSUME NEW S, IsFiniteSet(S)
      PROVE  Cardinality(S) \in Int
    BY <1>4, FS_CardinalityType
<1>5. /\ Cardinality(current_receives[i]) \in Int
      /\ Cardinality(Filled(i)) \in Int
      /\ Cardinality(non_persistent_messages[i]) \in Int
    BY <1>4 DEF Places
<1>6. /\ Cardinality(next_send[i]) \in Int
      /\ Cardinality(current_send[i]) \in Int
    BY <1>3
<1> USE <1>1, <1>5, <1>6
<1> WITNESS free_message_buffers[i] \in Int, Cardinality(next_send[i]) \in Int,
            Len(pending_sends[i]) \in Int, Cardinality(current_send[i]) \in Int,
            Cardinality(current_receives[i]) \in Int, Cardinality(Filled(i)) \in Int,
            Cardinality(non_persistent_messages[i]) \in Int
<1> QED
    BY <1>3 DEF Counts

\* A step of one member that only moves its buffers about.
LEMMA BuffersMoved ==
    ASSUME Buffers, NEW i \in Rank, \A a \in Rank \ {i} : SamePlaces(a), Places(i)',
           NEW f, NEW m, NEW q, NEW c, NEW r, NEW l, NEW w, Counts(i, f, m, q, c, r, l, w),
           NEW f1, NEW m1, NEW q1, NEW c1, NEW r1, NEW l1, NEW w1,
           Counts(i, f1, m1, q1, c1, r1, l1, w1)',
           f1 + m1 + q1 + c1 + r1 + l1 + w1 = f + m + q + c + r + l + w
    PROVE  Buffers'
<1>1. Balanced(i)
    BY DEF Buffers
<1>2. WindowSize * N = f + m + q + c + r + l + w
    BY <1>1 DEF Balanced, Counts
<1>3. Balanced(i)'
    BY <1>2 DEF Balanced, Counts
<1>4. \A a \in Rank \ {i} : Places(a)' /\ Balanced(a)'
    BY SamePlacesKept
<1> QED
    BY <1>3, <1>4 DEF Buffers

\* A map with one entry more, and with one less.
LEMMA OneMore ==
    ASSUME NEW S, IsFiniteSet(S), NEW x, x \notin S
    PROVE  IsFiniteSet(S \cup {x}) /\ Cardinality(S \cup {x}) = Cardinality(S) + 1
BY FS_AddElement

LEMMA OneLess ==
    ASSUME NEW S, IsFiniteSet(S), NEW x, x \in S
    PROVE  IsFiniteSet(S \ {x}) /\ Cardinality(S \ {x}) = Cardinality(S) - 1
BY FS_RemoveElement

(***************************************************************************)
(* Sending.                                                                *)
(***************************************************************************)
\* get_position takes a free buffer for the next message.
LEMMA GetPositionBuffers ==
    ASSUME TypeOK, Buffers, NEW i \in Rank, NEW turns \in 0 .. MaxPause, GetPosition(i, turns)
    PROVE  Buffers'
<1>1. UNCHANGED <<pending_sends, current_send, current_receives, locally_stable_messages,
                  non_persistent_messages>>
    BY DEF GetPosition
<1>2. PICK x : next_send' = [next_send EXCEPT ![i] = {x}]
    BY DEF GetPosition
<1>3. /\ next_send[i] = {} /\ next_send'[i] = {x}
      /\ free_message_buffers'[i] = free_message_buffers[i] - 1
      /\ \A a \in Rank \ {i} : /\ next_send'[a] = next_send[a]
                               /\ free_message_buffers'[a] = free_message_buffers[a]
    BY <1>2 DEF GetPosition, TypeOK
<1>4. Places(i)
    BY DEF Buffers
<1>5. Filled(i)' = Filled(i)
    BY <1>1 DEF Filled
<1>6. Places(i)'
    BY <1>1, <1>3, <1>4, <1>5 DEF Places
<1>7. \A a \in Rank \ {i} : SamePlaces(a)
    BY <1>1, <1>3 DEF SamePlaces
<1>8. PICK f, m, q, c, r, l, w \in Int : Counts(i, f, m, q, c, r, l, w) /\ m = 0
    BY <1>3, <1>4, CountsExist
<1>9. Cardinality(next_send'[i]) = 1
    BY <1>3, FS_Singleton
<1>10. Counts(i, f - 1, 1, q, c, r, l, w)'
    BY <1>1, <1>3, <1>5, <1>8, <1>9 DEF Counts
<1> QED
    BY <1>6, <1>7, <1>8, <1>10, BuffersMoved

\* send appends it to the queue.
LEMMA SendBuffers ==
    ASSUME TypeOK, Buffers, NEW i \in Rank, Send(i)
    PROVE  Buffers'
<1>1. UNCHANGED <<current_send, current_receives, locally_stable_messages,
                  non_persistent_messages, free_message_buffers>>
    BY DEF Send, messageVars
<1>2. PICK x \in next_send[i] :
          pending_sends' = [pending_sends EXCEPT ![i] = Append(@, x)]
    BY DEF Send
<1>3. /\ next_send[i] # {} /\ next_send'[i] = {}
      /\ pending_sends'[i] = Append(pending_sends[i], x) /\ pending_sends[i] \in Seq(Message)
      /\ \A a \in Rank \ {i} : /\ next_send'[a] = next_send[a]
                               /\ pending_sends'[a] = pending_sends[a]
    BY <1>2 DEF Send, TypeOK
<1>4. Places(i)
    BY DEF Buffers
<1>5. Filled(i)' = Filled(i)
    BY <1>1 DEF Filled
<1>6. Places(i)'
    BY <1>1, <1>3, <1>4, <1>5 DEF Places
<1>7. \A a \in Rank \ {i} : SamePlaces(a)
    BY <1>1, <1>3 DEF SamePlaces
<1>8. PICK f, m, q, c, r, l, w \in Int : Counts(i, f, m, q, c, r, l, w) /\ m = 1
    BY <1>3, <1>4, CountsExist
<1>9. Cardinality(next_send'[i]) = 0
    BY <1>3, FS_EmptySet
<1>10. Len(pending_sends'[i]) = q + 1
    BY <1>3, <1>8 DEF Counts
<1>11. Counts(i, f, 0, q + 1, c, r, l, w)'
    BY <1>1, <1>5, <1>8, <1>9, <1>10 DEF Counts
<1> QED
    BY <1>6, <1>7, <1>8, <1>11, BuffersMoved

\* The sender thread hands over the first message of the queue; the one before
\* it is out of its hands.
LEMMA SenderStepBuffers ==
    ASSUME HInv, Buffers, NEW i \in Rank, SenderStep(i)
    PROVE  Buffers'
<1>1. TypeOK /\ Orderly
    BY DEF HInv, CInv, OInv, IInv
<1>2. UNCHANGED <<next_send, current_receives, locally_stable_messages,
                  non_persistent_messages, free_message_buffers>>
    BY DEF SenderStep, messageVars
<1>3. PICK x : x = Head(pending_sends[i])
    OBVIOUS
<1>4. /\ pending_sends[i] # <<>> /\ pending_sends[i] \in Seq(Message)
      /\ current_send'[i] = {x} /\ pending_sends'[i] = Tail(pending_sends[i])
      /\ nReceived[i][i] >= x.index - 1
      /\ \A a \in Rank \ {i} : /\ current_send'[a] = current_send[a]
                               /\ pending_sends'[a] = pending_sends[a]
    BY <1>1, <1>3 DEF SenderStep, should_send, PreviousSendDone, TypeOK
<1>5. x = pending_sends[i][1] /\ 1 \in 1 .. Len(pending_sends[i])
    BY <1>3, <1>4
<1>6. current_send[i] = {}
  <2> SUFFICES ASSUME NEW y \in current_send[i]
               PROVE  FALSE
    OBVIOUS
  <2>1. PICK handed, queued \in [Rank -> Int] : Chained(handed, queued)
    BY <1>1 DEF Orderly
  <2>2. SenderChain(handed, queued, i)
    BY <2>1 DEF Chained
  <2>3. y.body = nReceived[i][i] + 1 /\ After(y) = handed[i]
    BY <2>2 DEF SenderChain
  <2>4. x.body = handed[i]
    BY <1>4, <1>5, <2>2 DEF SenderChain, Leads
  <2>5. x.index = x.body
    BY <1>1, <1>5 DEF Orderly, OwnNumbers
  <2>6. y \in Message /\ nReceived[i][i] \in Int
    BY <1>1, ColumnType DEF TypeOK
  <2>7. y.body \in Int /\ y.pause \in Int /\ y.pause >= 0
    BY <2>6, BoundsAssumption DEF Message
  <2>8. x.index = y.body + y.pause + 1
    BY <2>3, <2>4, <2>5 DEF After
  <2> QED
    BY <1>4, <2>3, <2>6, <2>7, <2>8
<1>7. Places(i)
    BY DEF Buffers
<1>8. Filled(i)' = Filled(i)
    BY <1>2 DEF Filled
<1>9. Places(i)'
    BY <1>2, <1>4, <1>7, <1>8 DEF Places
<1>10. \A a \in Rank \ {i} : SamePlaces(a)
    BY <1>2, <1>4 DEF SamePlaces
<1>11. PICK f, m, q, c, r, l, w \in Int : Counts(i, f, m, q, c, r, l, w) /\ c = 0
    BY <1>1, <1>6, <1>7, CountsExist
<1>12. Cardinality(current_send'[i]) = 1
    BY <1>4, FS_Singleton
<1>13. Len(pending_sends'[i]) = q - 1
    BY <1>4, <1>11 DEF Counts
<1>14. Counts(i, f, m, q - 1, 1, r, l, w)'
    BY <1>2, <1>8, <1>11, <1>12, <1>13 DEF Counts
<1> QED
    BY <1>9, <1>10, <1>11, <1>14, BuffersMoved

(***************************************************************************)
(* Receiving.                                                              *)
(***************************************************************************)
\* The entry that receive_destination makes for a message of k.
LEMMA IncomingEntry ==
    ASSUME TypeOK, NEW i \in Rank, NEW k \in Rank, RdmcIncoming(i, k)
    PROVE  \E e : /\ current_receives' = [current_receives EXCEPT ![i] = @ \cup {e}]
                  /\ e.msg.sender_rank = k
<1> DEFINE m == [Head(inflight[k][i]) EXCEPT !.sender_rank = k,
                                             !.index = nReceived[i][k] + 1]
           e == File(SeqNum(k, nReceived[i][k] + 1), m)
<1>1. current_receives' = [current_receives EXCEPT ![i] = @ \cup {e}]
    BY DEF RdmcIncoming
<1>2. Head(inflight[k][i]) \in Message
  <2>1. inflight[k][i] \in Seq(Message)
    BY DEF TypeOK
  <2>2. inflight[k][i] # <<>>
    BY DEF RdmcIncoming, IncomingAt
  <2> QED
    BY <2>1, <2>2, HeadTailProperties
<1>3. m.sender_rank = k
    BY <1>2 DEF Message
<1>4. e.msg = m
    BY DEF File
<1> HIDE DEF m, e
<1>5. e.msg.sender_rank = k
    BY <1>3, <1>4
<1> QED
    BY <1>1, <1>5

\* receive_destination takes a free buffer.
LEMMA RdmcIncomingBuffers ==
    ASSUME TypeOK, Buffers, NEW i \in Rank, NEW k \in Rank, RdmcIncoming(i, k)
    PROVE  Buffers'
<1>1. UNCHANGED <<next_send, pending_sends, current_send, locally_stable_messages,
                  non_persistent_messages>>
    BY DEF RdmcIncoming, sendVars
<1>2. PICK e : /\ current_receives' = [current_receives EXCEPT ![i] = @ \cup {e}]
               /\ e.msg.sender_rank = k
    BY IncomingEntry
<1>3. /\ current_receives'[i] = current_receives[i] \cup {e}
      /\ free_message_buffers'[i] = free_message_buffers[i] - 1
      /\ \A a \in Rank \ {i} : /\ current_receives'[a] = current_receives[a]
                               /\ free_message_buffers'[a] = free_message_buffers[a]
    BY <1>2 DEF RdmcIncoming, TypeOK
<1>4. e \notin current_receives[i]
    BY <1>2 DEF RdmcIncoming, IncomingAt
<1>5. Places(i)
    BY DEF Buffers
<1>6. Filled(i)' = Filled(i)
    BY <1>1 DEF Filled
<1>7. /\ IsFiniteSet(current_receives'[i])
      /\ Cardinality(current_receives'[i]) = Cardinality(current_receives[i]) + 1
    BY <1>3, <1>4, <1>5, OneMore DEF Places
<1>8. Places(i)'
    BY <1>1, <1>5, <1>6, <1>7 DEF Places
<1>9. \A a \in Rank \ {i} : SamePlaces(a)
    BY <1>1, <1>3 DEF SamePlaces
<1>10. PICK f, m, q, c, r, l, w \in Int : Counts(i, f, m, q, c, r, l, w)
    BY <1>5, CountsExist
<1>11. Counts(i, f - 1, m, q, c, r + 1, l, w)'
    BY <1>1, <1>3, <1>6, <1>7, <1>10 DEF Counts
<1> QED
    BY <1>8, <1>9, <1>10, <1>11, BuffersMoved

\* The handler files one message with content; the skipped turns have no buffers.
LEMMA FiledBuffers ==
    ASSUME HInv, NEW i \in Rank, NEW k \in Rank, NEW m, Places(i),
           IsNext(i, k, m), MessageReceived(i, k, m), m.size = 1
    PROVE  /\ IsFiniteSet(Filled(i)')
           /\ Cardinality(Filled(i)') = Cardinality(Filled(i)) + 1
           /\ \A a \in Rank \ {i} : locally_stable_messages'[a] = locally_stable_messages[a]
<1>1. TypeOK /\ Columns
    BY DEF HInv, CInv, OInv, IInv
<1>2. PICK index, first, skipped :
          /\ index = nReceived[i][k] + 1 /\ first = File(SeqNum(k, index), m)
          /\ skipped = SkippedTurns(k, index + 1, m.pause)
    OBVIOUS
<1>3. /\ locally_stable_messages'[i] = locally_stable_messages[i] \cup {first} \cup skipped
      /\ \A a \in Rank \ {i} : locally_stable_messages'[a] = locally_stable_messages[a]
    BY <1>1, <1>2 DEF MessageReceived, TypeOK
<1>4. first.msg = m /\ m.sender_rank = k /\ m.body = index /\ index \in Int
    BY <1>1, <1>2, ColumnType DEF File, IsNext
<1>5. \A e \in skipped : e.msg.size = 0
    BY <1>2 DEF SkippedTurns, File, EmptyMessage
<1>6. Filled(i)' = Filled(i) \cup {first}
    BY <1>3, <1>4, <1>5 DEF Filled
<1>7. first \notin Filled(i)
  <2> SUFFICES ASSUME first \in locally_stable_messages[i]
               PROVE  FALSE
    BY DEF Filled
  <2>1. m.body <= nReceived[i][k] /\ nReceived[i][k] \in Int
    BY <1>1, <1>4, ColumnType DEF Columns, Counted
  <2> QED
    BY <1>2, <1>4, <2>1
<1>8. /\ IsFiniteSet(Filled(i) \cup {first})
      /\ Cardinality(Filled(i) \cup {first}) = Cardinality(Filled(i)) + 1
    BY <1>7, OneMore DEF Places
<1> QED
    BY <1>3, <1>6, <1>8

\* The message leaves the map of those being received.
LEMMA RdmcReceiveBuffers ==
    ASSUME HInv, Buffers, NEW i \in Rank, NEW k \in Rank, RdmcReceive(i, k)
    PROVE  Buffers'
<1>1. TypeOK /\ OInv /\ AllAnnounced
    BY DEF HInv, CInv, OInv, IInv, History
<1>2. UNCHANGED <<next_send, pending_sends, current_send, non_persistent_messages,
                  free_message_buffers>>
    BY DEF RdmcReceive, sendVars
<1>3. PICK e \in current_receives[i] :
          /\ IsNext(i, k, e.msg) /\ MessageReceived(i, k, e.msg)
          /\ current_receives' = [current_receives EXCEPT ![i] = @ \ {e}]
    BY <1>1, RdmcReceiveNext
<1>4. e.msg.size = 1
  <2>1. e.msg \in UnderWay(k)
    BY <1>3, UnderWayFound DEF IsNext
  <2> QED
    BY <1>1, <2>1 DEF AllAnnounced, Announced
<1>5. Places(i)
    BY DEF Buffers
<1>6. /\ IsFiniteSet(Filled(i)')
      /\ Cardinality(Filled(i)') = Cardinality(Filled(i)) + 1
      /\ \A a \in Rank \ {i} : locally_stable_messages'[a] = locally_stable_messages[a]
    BY <1>3, <1>4, <1>5, FiledBuffers
<1>7. /\ current_receives'[i] = current_receives[i] \ {e}
      /\ \A a \in Rank \ {i} : current_receives'[a] = current_receives[a]
    BY <1>1, <1>3 DEF TypeOK
<1>8. /\ IsFiniteSet(current_receives'[i])
      /\ Cardinality(current_receives'[i]) = Cardinality(current_receives[i]) - 1
    BY <1>3, <1>5, <1>7, OneLess DEF Places
<1>9. Places(i)'
    BY <1>2, <1>5, <1>6, <1>8 DEF Places
<1>10. \A a \in Rank \ {i} : SamePlaces(a)
    BY <1>2, <1>6, <1>7 DEF SamePlaces
<1>11. PICK f, m, q, c, r, l, w \in Int : Counts(i, f, m, q, c, r, l, w)
    BY <1>1, <1>5, CountsExist
<1>12. Counts(i, f, m, q, c, r - 1, l + 1, w)'
    BY <1>2, <1>6, <1>8, <1>11 DEF Counts
<1> QED
    BY <1>9, <1>10, <1>11, <1>12, BuffersMoved

\* The own message leaves the sender's hands.
LEMMA OwnReceiveBuffers ==
    ASSUME HInv, Buffers, NEW i \in Rank, OwnReceive(i)
    PROVE  Buffers'
<1>1. TypeOK /\ OInv /\ AllAnnounced
    BY DEF HInv, CInv, OInv, IInv, History
<1>2. UNCHANGED <<next_send, pending_sends, current_receives, non_persistent_messages,
                  free_message_buffers>>
    BY DEF OwnReceive
<1>3. PICK x \in current_send[i] : IsNext(i, i, x) /\ MessageReceived(i, i, x)
    BY <1>1, OwnReceiveNext
<1>4. x.size = 1
  <2>1. x \in UnderWay(i)
    BY <1>3, UnderWayFound
  <2> QED
    BY <1>1, <2>1 DEF AllAnnounced, Announced
<1>5. Places(i)
    BY DEF Buffers
<1>6. /\ IsFiniteSet(Filled(i)')
      /\ Cardinality(Filled(i)') = Cardinality(Filled(i)) + 1
      /\ \A a \in Rank \ {i} : locally_stable_messages'[a] = locally_stable_messages[a]
    BY <1>3, <1>4, <1>5, FiledBuffers
<1>7. /\ current_send'[i] = {} /\ \A a \in Rank \ {i} : current_send'[a] = current_send[a]
    BY <1>1 DEF TypeOK, OwnReceive
<1>8. Cardinality(current_send'[i]) = 0
    BY <1>7, FS_EmptySet
<1>9. Places(i)'
    BY <1>2, <1>5, <1>6, <1>7 DEF Places
<1>10. \A a \in Rank \ {i} : SamePlaces(a)
    BY <1>2, <1>6, <1>7 DEF SamePlaces
<1>11. PICK f, m, q, c, r, l, w \in Int : Counts(i, f, m, q, c, r, l, w) /\ c = 1
    BY <1>1, <1>3, <1>5, CountsExist
<1>12. Counts(i, f, m, q, 0, r, l + 1, w)'
    BY <1>2, <1>6, <1>8, <1>11 DEF Counts
<1> QED
    BY <1>9, <1>10, <1>11, <1>12, BuffersMoved

(***************************************************************************)
(* Delivering and persisting.                                              *)
(***************************************************************************)
\* The FileWriter does not have what is delivered now.
LEMMA NotWrittenYet ==
    ASSUME HInv, Backlog, Persistent, NEW i \in Rank, NEW e, IsDelivered(i, e)
    PROVE  \A g \in non_persistent_messages[i] : g.seq # e.seq
<1> SUFFICES ASSUME NEW g \in non_persistent_messages[i], g.seq = e.seq
             PROVE  FALSE
    OBVIOUS
<1>1. TypeOK /\ Columns
    BY DEF HInv, CInv, OInv, IInv
<1>2. PICK n \in 1 .. Len(writes[i]) : g.seq = writes[i][n]
    BY DEF Backlog, Findable
<1>3. writes[i][n] <= delivered_num[i][i]
    BY <1>1 DEF Columns, DiskFollows
<1>4. delivered_num[i][i] < e.seq /\ e.seq \in Int
    BY WaitingNumber DEF IsDelivered
<1>5. delivered_num[i][i] \in Int
    BY <1>1, FiledType
<1> QED
    BY <1>2, <1>3, <1>4, <1>5

\* A message with content gives its buffer back, or leaves it to the FileWriter.
LEMMA DeliveryBuffers ==
    ASSUME HInv, Backlog, Buffers, NEW i \in Rank, DeliveryTrig(i)
    PROVE  Buffers'
<1>1. TypeOK
    BY DEF HInv, CInv, OInv, IInv
<1>2. UNCHANGED <<next_send, pending_sends, current_send, current_receives>>
    BY DEF DeliveryTrig, sendVars
<1>3. PICK e \in locally_stable_messages[i] :
          /\ IsFirst(i, e) /\ StableEverywhere(i, e.seq)
          /\ deliver_message(i, e.msg)
          /\ locally_stable_messages' = [locally_stable_messages EXCEPT ![i] = @ \ {e}]
    BY DEF DeliveryTrig
<1>4. IsDelivered(i, e)
    BY <1>3 DEF IsDelivered
<1>5. /\ locally_stable_messages'[i] = locally_stable_messages[i] \ {e}
      /\ \A a \in Rank \ {i} : locally_stable_messages'[a] = locally_stable_messages[a]
    BY <1>1, <1>3 DEF TypeOK
<1>6. Places(i)
    BY DEF Buffers
<1>7. PICK f, m, q, c, r, l, w \in Int : Counts(i, f, m, q, c, r, l, w)
    BY <1>1, <1>6, CountsExist
<1>8. CASE e.msg.size = 0
  <2>1. UNCHANGED <<non_persistent_messages, free_message_buffers>>
    BY <1>3, <1>8 DEF deliver_message
  <2>2. ~ (e.msg.size > 0)
    BY <1>8
  <2>3. Filled(i)' = Filled(i)
    BY <1>5, <2>2 DEF Filled
  <2>4. Places(i)'
    BY <1>2, <1>6, <2>1, <2>3 DEF Places
  <2>5. Counts(i, f, m, q, c, r, l, w)'
    BY <1>2, <1>7, <2>1, <2>3 DEF Counts
  <2>6. \A a \in Rank \ {i} : SamePlaces(a)
    BY <1>2, <1>5, <2>1 DEF SamePlaces
  <2> QED
    BY <1>7, <2>4, <2>5, <2>6, BuffersMoved
<1>9. CASE e.msg.size # 0
  <2>1. e.msg.size > 0
    <3>1. e.msg \in Message
      BY <1>1, FiledType
    <3> QED
      BY <1>9, <3>1 DEF Message
  <2>2. e \in Filled(i) /\ Filled(i)' = Filled(i) \ {e}
    BY <1>5, <2>1 DEF Filled
  <2>3. IsFiniteSet(Filled(i)') /\ Cardinality(Filled(i)') = Cardinality(Filled(i)) - 1
    BY <1>6, <2>2, OneLess DEF Places
  <2>4. CASE ~ Persistent
    <3>1. /\ free_message_buffers' = [free_message_buffers EXCEPT ![i] = @ + 1]
          /\ UNCHANGED non_persistent_messages
      BY <1>3, <1>9, <2>4 DEF deliver_message
    <3>2. /\ free_message_buffers'[i] = free_message_buffers[i] + 1
          /\ \A a \in Rank \ {i} : free_message_buffers'[a] = free_message_buffers[a]
      BY <1>1, <3>1 DEF TypeOK
    <3>3. Places(i)'
      BY <1>2, <1>6, <2>3, <3>1 DEF Places
    <3>4. Counts(i, f + 1, m, q, c, r, l - 1, w)'
      BY <1>2, <1>7, <2>3, <3>1, <3>2 DEF Counts
    <3>5. \A a \in Rank \ {i} : SamePlaces(a)
      BY <1>2, <1>5, <3>1, <3>2 DEF SamePlaces
    <3> QED
      BY <1>7, <3>3, <3>4, <3>5, BuffersMoved
  <2>5. CASE Persistent
    <3>1. PICK g : /\ non_persistent_messages' =
                          [non_persistent_messages EXCEPT ![i] = @ \cup {g}]
                   /\ g.seq = SeqNum(e.msg.sender_rank, e.msg.index)
                   /\ UNCHANGED free_message_buffers
      BY <1>3, <1>9, <2>5 DEF deliver_message, File
    <3>2. g.seq = e.seq
      BY <1>3, <3>1, WaitingNumber
    <3>3. g \notin non_persistent_messages[i]
      BY <1>4, <2>5, <3>2, NotWrittenYet
    <3>4. /\ non_persistent_messages'[i] = non_persistent_messages[i] \cup {g}
          /\ \A a \in Rank \ {i} : non_persistent_messages'[a] = non_persistent_messages[a]
      BY <1>1, <3>1 DEF TypeOK
    <3>5. /\ IsFiniteSet(non_persistent_messages'[i])
          /\ Cardinality(non_persistent_messages'[i]) =
                 Cardinality(non_persistent_messages[i]) + 1
      BY <1>6, <3>3, <3>4, OneMore DEF Places
    <3>6. Places(i)'
      BY <1>2, <1>6, <2>3, <3>5 DEF Places
    <3>7. Counts(i, f, m, q, c, r, l - 1, w + 1)'
      BY <1>2, <1>7, <2>3, <3>1, <3>5 DEF Counts
    <3>8. \A a \in Rank \ {i} : SamePlaces(a)
      BY <1>2, <1>5, <3>1, <3>4 DEF SamePlaces
    <3> QED
      BY <1>7, <3>6, <3>7, <3>8, BuffersMoved
  <2> QED
    BY <2>4, <2>5
<1> QED
    BY <1>8, <1>9

\* What is on disk gives its buffer back.
LEMMA FileWrittenBuffers ==
    ASSUME TypeOK, Buffers, NEW i \in Rank, FileWritten(i)
    PROVE  Buffers'
<1>1. UNCHANGED <<next_send, pending_sends, current_send, current_receives,
                  locally_stable_messages>>
    BY DEF FileWritten, sendVars
<1>2. PICK e \in non_persistent_messages[i] :
          non_persistent_messages' = [non_persistent_messages EXCEPT ![i] = @ \ {e}]
    BY DEF FileWritten
<1>3. /\ non_persistent_messages'[i] = non_persistent_messages[i] \ {e}
      /\ free_message_buffers'[i] = free_message_buffers[i] + 1
      /\ \A a \in Rank \ {i} :
             /\ non_persistent_messages'[a] = non_persistent_messages[a]
             /\ free_message_buffers'[a] = free_message_buffers[a]
    BY <1>2 DEF FileWritten, TypeOK
<1>4. Places(i)
    BY DEF Buffers
<1>5. Filled(i)' = Filled(i)
    BY <1>1 DEF Filled
<1>6. /\ IsFiniteSet(non_persistent_messages'[i])
      /\ Cardinality(non_persistent_messages'[i]) =
             Cardinality(non_persistent_messages[i]) - 1
    BY <1>2, <1>3, <1>4, OneLess DEF Places
<1>7. Places(i)'
    BY <1>1, <1>4, <1>5, <1>6 DEF Places
<1>8. \A a \in Rank \ {i} : SamePlaces(a)
    BY <1>1, <1>3 DEF SamePlaces
<1>9. PICK f, m, q, c, r, l, w \in Int : Counts(i, f, m, q, c, r, l, w)
    BY <1>4, CountsExist
<1>10. Counts(i, f + 1, m, q, c, r, l, w - 1)'
    BY <1>1, <1>3, <1>5, <1>6, <1>9 DEF Counts
<1> QED
    BY <1>7, <1>8, <1>9, <1>10, BuffersMoved

(***************************************************************************)
(* Every step.                                                             *)
(***************************************************************************)
LEMMA BuffersStep ==
    ASSUME HInv, Backlog, Buffers, [Next]_vars
    PROVE  Buffers'
<1>1. TypeOK
    BY DEF HInv, CInv, OInv, IInv
<1>2. ASSUME UNCHANGED <<next_send, pending_sends, current_send, messageVars>>
      PROVE  Buffers'
  <2>1. \A a \in Rank : SamePlaces(a)
    BY <1>2 DEF SamePlaces, messageVars
  <2> QED
    BY <2>1, SamePlacesKept DEF Buffers
<1>3. ASSUME NEW i \in Rank, NEW turns \in 0 .. MaxPause, GetPosition(i, turns)
      PROVE  Buffers'
    BY <1>1, <1>3, GetPositionBuffers
<1>4. ASSUME NEW i \in Rank, Send(i)
      PROVE  Buffers'
    BY <1>1, <1>4, SendBuffers
<1>5. ASSUME NEW i \in Rank, SenderStep(i)
      PROVE  Buffers'
    BY <1>5, SenderStepBuffers
<1>6. ASSUME NEW i \in Rank, NEW k \in Rank, RdmcIncoming(i, k)
      PROVE  Buffers'
    BY <1>1, <1>6, RdmcIncomingBuffers
<1>7. ASSUME NEW i \in Rank, NEW k \in Rank, RdmcReceive(i, k)
      PROVE  Buffers'
    BY <1>7, RdmcReceiveBuffers
<1>8. ASSUME NEW i \in Rank, OwnReceive(i)
      PROVE  Buffers'
    BY <1>8, OwnReceiveBuffers
<1>9. ASSUME NEW i \in Rank, DeliveryTrig(i)
      PROVE  Buffers'
    BY <1>9, DeliveryBuffers
<1>10. ASSUME NEW i \in Rank, FileWritten(i)
       PROVE  Buffers'
    BY <1>1, <1>10, FileWrittenBuffers
<1>11. ASSUME NEW i \in Rank, StabilityTrig(i) \/ Wedge(i)
       PROVE  Buffers'
    BY <1>2, <1>11 DEF StabilityTrig, Wedge, WedgeStep, sendVars
<1>12. ASSUME NEW i \in Rank, NEW j \in Rank,
              \/ SeqNumArrives(i, j) \/ StableNumArrives(i, j)
              \/ DeliveredNumArrives(i, j) \/ PersistedNumArrives(i, j)
       PROVE  Buffers'
    BY <1>2, <1>12 DEF SeqNumArrives, StableNumArrives, DeliveredNumArrives,
                       PersistedNumArrives, sendVars
<1>13. ASSUME UNCHANGED vars
       PROVE  Buffers'
    BY <1>2, <1>13 DEF vars, sendVars
<1> QED
    BY <1>3, <1>4, <1>5, <1>6, <1>7, <1>8, <1>9, <1>10, <1>11, <1>12, <1>13 DEF Next

\* All buffers are free at first.
LEMMA BuffersInit == Init => Buffers
<1> SUFFICES ASSUME Init, NEW i \in Rank
             PROVE  Places(i) /\ Balanced(i)
    BY DEF Buffers
<1>1. /\ next_send[i] = {} /\ current_send[i] = {} /\ pending_sends[i] = <<>>
      /\ current_receives[i] = {} /\ locally_stable_messages[i] = {}
      /\ non_persistent_messages[i] = {} /\ free_message_buffers[i] = WindowSize * N
    BY DEF Init
<1>2. Filled(i) = {}
    BY <1>1 DEF Filled
<1>3. Places(i)
    BY <1>1, <1>2, FS_EmptySet DEF Places
<1>4. Cardinality({}) = 0 /\ Len(pending_sends[i]) = 0 /\ WindowSize * N \in Int
    BY <1>1, FS_EmptySet, NAssumption, WindowAssumption
<1>5. Balanced(i)
    BY <1>1, <1>2, <1>4 DEF Balanced
<1> QED
    BY <1>3, <1>5

(***************************************************************************)
(* The buffers are enough.  Without persistence a member holds messages of *)
(* one window of each sender only, because get_position has waited until   *)
(* every member had delivered the turn one window back.                    *)
(***************************************************************************)
\* Member k has given number b to a message.
Allocated(k, b) == IsSent(k, b) \/ \E m \in next_send[k] : m.body = b

\* Whatever has a number, every member has delivered the turn one window back.
WithinWindow ==
    \A k, j \in Rank : \A b \in Nat :
        Allocated(k, b) => SeqNum(k, b - WindowSize) <= delivered_num[j][j]

\* RDMC gives nobody its own messages.
FromOthers == \A i \in Rank : \A e \in current_receives[i] : e.msg.sender_rank # i

\* What waits for the sender thread has growing numbers.
QueueInOrder ==
    \A k \in Rank : \A n, m \in 1 .. Len(pending_sends[k]) :
        n < m => pending_sends[k][n].body < pending_sends[k][m].body

\* Without persistence no buffer waits for the disk.
NothingToWrite == ~ Persistent => \A i \in Rank : non_persistent_messages[i] = {}

Room == WithinWindow /\ FromOthers /\ QueueInOrder /\ NothingToWrite

\* get_position tests the window of the number that it gives out.
LEMMA WithinWindowStep ==
    ASSUME HInv, TypeOK', WithinWindow, NoColumnBack,
           \A k \in Rank : \A b \in Nat : Allocated(k, b)' =>
               \/ Allocated(k, b)
               \/ \A j \in Rank : SeqNum(k, b - WindowSize) <= delivered_num[k][j]
    PROVE  WithinWindow'
<1> SUFFICES ASSUME NEW k \in Rank, NEW j \in Rank, NEW b \in Nat, Allocated(k, b)'
             PROVE  SeqNum(k, b - WindowSize) <= delivered_num'[j][j]
    BY DEF WithinWindow
<1>1. TypeOK /\ LateCopiesTrail
    BY DEF HInv, CInv, OInv, IInv, Columns
<1>2. b - WindowSize \in Int
    BY WindowAssumption
<1>3. SeqNum(k, b - WindowSize) \in Int
    BY <1>2, SeqNumInt
<1>4. delivered_num[k][j] \in Int /\ delivered_num[j][j] \in Int
    BY <1>1, ColumnType
<1>5. delivered_num'[j][j] \in Int
  <2>1. delivered_num' \in [Rank -> [Rank -> Number]]
    BY DEF TypeOK
  <2> QED
    BY <2>1 DEF Number
<1>6. delivered_num[k][j] <= delivered_num[j][j]
    BY <1>1 DEF LateCopiesTrail
<1>7. delivered_num'[j][j] >= delivered_num[j][j]
    BY DEF NoColumnBack
<1>8. \/ SeqNum(k, b - WindowSize) <= delivered_num[j][j]
      \/ SeqNum(k, b - WindowSize) <= delivered_num[k][j]
    BY DEF WithinWindow
<1> HIDE DEF WithinWindow
<1> QED
    BY <1>3, <1>4, <1>5, <1>6, <1>7, <1>8

\* Steps that leave all of it alone.
LEMMA RoomNotDisturbed ==
    ASSUME HInv, TypeOK', Room, NoColumnBack,
           UNCHANGED <<next_send, sent, current_receives, pending_sends,
                       non_persistent_messages>>
    PROVE  Room'
<1>1. \A k \in Rank : \A b \in Nat : Allocated(k, b)' => Allocated(k, b)
    BY DEF Allocated, IsSent
<1>2. WithinWindow'
    BY <1>1, WithinWindowStep DEF Room
<1>3. FromOthers' /\ QueueInOrder' /\ NothingToWrite'
    BY DEF Room, FromOthers, QueueInOrder, NothingToWrite
<1> QED
    BY <1>2, <1>3 DEF Room

\* get_position.
LEMMA GetPositionRoom ==
    ASSUME HInv, TypeOK', Room, NoColumnBack,
           NEW i \in Rank, NEW turns \in 0 .. MaxPause, GetPosition(i, turns)
    PROVE  Room'
<1>1. UNCHANGED <<sent, current_receives, pending_sends, non_persistent_messages>>
    BY DEF GetPosition
<1>2. /\ \A m \in next_send'[i] : m.body = future_message_index[i]
      /\ \A k \in Rank \ {i} : next_send'[k] = next_send[k]
    BY DEF GetPosition, HInv, CInv, OInv, IInv, TypeOK
<1>3. \A j \in Rank :
          SeqNum(i, future_message_index[i] - WindowSize) <= delivered_num[i][j]
  <2> SUFFICES ASSUME NEW j \in Rank
               PROVE  SeqNum(i, future_message_index[i] - WindowSize) <= delivered_num[i][j]
    OBVIOUS
  <2>1. delivered_num[i][j] >= SeqNum(i, future_message_index[i] - WindowSize)
    BY DEF GetPosition, WindowHasRoom
  <2>2. delivered_num[i][j] \in Int /\ future_message_index[i] \in Int
    BY ColumnType, HistoryType DEF HInv, CInv, OInv, IInv
  <2>3. SeqNum(i, future_message_index[i] - WindowSize) \in Int
    BY <2>2, SeqNumInt, WindowAssumption
  <2> QED
    BY <2>1, <2>2, <2>3
<1>4. ASSUME NEW k \in Rank, NEW b \in Nat, Allocated(k, b)'
      PROVE  \/ Allocated(k, b)
             \/ \A j \in Rank : SeqNum(k, b - WindowSize) <= delivered_num[k][j]
  <2>1. CASE k # i
    BY <1>1, <1>2, <1>4, <2>1 DEF Allocated, IsSent
  <2>2. CASE k = i
    <3>1. IsSent(k, b) \/ b = future_message_index[i]
      BY <1>1, <1>2, <1>4, <2>2 DEF Allocated, IsSent
    <3> QED
      BY <1>3, <2>2, <3>1 DEF Allocated
  <2> QED
    BY <2>1, <2>2
<1>5. WithinWindow'
    BY <1>4, WithinWindowStep DEF Room
<1>6. FromOthers' /\ QueueInOrder' /\ NothingToWrite'
    BY <1>1 DEF Room, FromOthers, QueueInOrder, NothingToWrite
<1> QED
    BY <1>5, <1>6 DEF Room

\* send.
LEMMA SendRoom ==
    ASSUME HInv, TypeOK', Room, NoColumnBack, NEW i \in Rank, Send(i)
    PROVE  Room'
<1>1. PICK m \in next_send[i] :
          /\ m \in Message /\ m.body \in Nat
          /\ sent' = [sent EXCEPT ![i] = Append(@, m.body)]
          /\ pending_sends' = [pending_sends EXCEPT ![i] = Append(@, m)]
          /\ next_send' = [next_send EXCEPT ![i] = {}]
    BY SendIs DEF Message
<1>2. TypeOK /\ AllAnnounced
    BY DEF HInv, CInv, OInv, IInv, History
<1>3. UNCHANGED <<current_receives, non_persistent_messages>>
    BY DEF Send, messageVars
<1>4. ASSUME NEW k \in Rank, NEW b \in Nat, Allocated(k, b)'
      PROVE  Allocated(k, b)
  <2>1. IsSent(k, b)' <=> (IsSent(k, b) \/ (k = i /\ b = m.body))
    BY <1>1, <1>2, SentGrows
  <2>2. next_send'[k] \subseteq next_send[k]
    BY <1>1, <1>2 DEF TypeOK
  <2> QED
    BY <1>1, <1>4, <2>1, <2>2 DEF Allocated
<1>5. WithinWindow'
    BY <1>4, WithinWindowStep DEF Room
<1>6. pending_sends[i] \in Seq(Message)
    BY <1>2 DEF TypeOK
<1>7. ASSUME NEW n \in 1 .. Len(pending_sends[i])
      PROVE  pending_sends[i][n].body < m.body
  <2>1. pending_sends[i][n] \in UnderWay(i)
    BY UnderWayFound
  <2>2. Announced(i, pending_sends[i][n])
    BY <1>2, <2>1 DEF AllAnnounced
  <2>3. After(pending_sends[i][n]) <= m.body
    BY <2>2 DEF Announced, BeforeNext
  <2>4. /\ pending_sends[i][n].body \in Int /\ After(pending_sends[i][n]) \in Int
        /\ pending_sends[i][n].body < After(pending_sends[i][n])
    BY <1>2, <2>1, UnderWayType
  <2> QED
    BY <1>1, <2>3, <2>4
<1>8. QueueInOrder'
  <2> SUFFICES ASSUME NEW k \in Rank, NEW a \in 1 .. Len(pending_sends'[k]),
                      NEW b \in 1 .. Len(pending_sends'[k]), a < b
               PROVE  pending_sends'[k][a].body < pending_sends'[k][b].body
    BY DEF QueueInOrder
  <2>1. CASE k # i
    <3>1. pending_sends'[k] = pending_sends[k]
      BY <1>1, <1>2, <2>1 DEF TypeOK
    <3> QED
      BY <3>1 DEF Room, QueueInOrder
  <2>2. CASE k = i
    <3>1. pending_sends'[i] = Append(pending_sends[i], m)
      BY <1>1, <1>2 DEF TypeOK
    <3>2. a \in 1 .. Len(pending_sends[i]) /\ pending_sends'[i][a] = pending_sends[i][a]
      BY <1>6, <2>2, <3>1
    <3>3. \/ b \in 1 .. Len(pending_sends[i]) /\ pending_sends'[i][b] = pending_sends[i][b]
          \/ pending_sends'[i][b] = m
      BY <1>6, <2>2, <3>1
    <3> QED
      BY <1>7, <2>2, <3>2, <3>3 DEF Room, QueueInOrder
  <2> QED
    BY <2>1, <2>2
<1>9. FromOthers' /\ NothingToWrite'
    BY <1>3 DEF Room, FromOthers, NothingToWrite
<1> QED
    BY <1>5, <1>8, <1>9 DEF Room

\* The sender thread.
LEMMA SenderStepRoom ==
    ASSUME HInv, TypeOK', Room, NoColumnBack, NEW i \in Rank, SenderStep(i)
    PROVE  Room'
<1>1. /\ UNCHANGED <<next_send, sent, current_receives, non_persistent_messages>>
      /\ pending_sends[i] # <<>>
      /\ pending_sends' = [pending_sends EXCEPT ![i] = Tail(@)]
    BY DEF SenderStep, should_send, messageVars
<1>2. pending_sends \in [Rank -> Seq(Message)]
    BY DEF HInv, CInv, OInv, IInv, TypeOK
<1>3. \A k \in Rank : \A b \in Nat : Allocated(k, b)' => Allocated(k, b)
    BY <1>1 DEF Allocated, IsSent
<1>4. WithinWindow'
    BY <1>3, WithinWindowStep DEF Room
<1>5. QueueInOrder'
  <2> SUFFICES ASSUME NEW k \in Rank, NEW a \in 1 .. Len(pending_sends'[k]),
                      NEW b \in 1 .. Len(pending_sends'[k]), a < b
               PROVE  pending_sends'[k][a].body < pending_sends'[k][b].body
    BY DEF QueueInOrder
  <2>1. CASE k # i
    <3>1. pending_sends'[k] = pending_sends[k]
      BY <1>1, <1>2, <2>1
    <3> QED
      BY <3>1 DEF Room, QueueInOrder
  <2>2. CASE k = i
    <3>1. pending_sends'[i] = Tail(pending_sends[i]) /\ pending_sends[i] \in Seq(Message)
      BY <1>1, <1>2
    <3>2. a + 1 \in 1 .. Len(pending_sends[i]) /\ pending_sends'[i][a] = pending_sends[i][a + 1]
      BY <1>1, <2>2, <3>1, TailElement
    <3>3. b + 1 \in 1 .. Len(pending_sends[i]) /\ pending_sends'[i][b] = pending_sends[i][b + 1]
      BY <1>1, <2>2, <3>1, TailElement
    <3>4. a + 1 < b + 1
      OBVIOUS
    <3> QED
      BY <2>2, <3>2, <3>3, <3>4 DEF Room, QueueInOrder
  <2> QED
    BY <2>1, <2>2
<1>6. FromOthers' /\ NothingToWrite'
    BY <1>1 DEF Room, FromOthers, NothingToWrite
<1> QED
    BY <1>4, <1>5, <1>6 DEF Room

\* The steps that only receive and deliver.
LEMMA OthersRoom ==
    ASSUME HInv, TypeOK', Room, NoColumnBack, UNCHANGED <<next_send, sent, pending_sends>>,
           NEW i \in Rank,
           \/ \E k \in Rank : RdmcIncoming(i, k) \/ RdmcReceive(i, k)
           \/ DeliveryTrig(i) \/ FileWritten(i)
    PROVE  Room'
<1>1. \A k \in Rank : \A b \in Nat : Allocated(k, b)' => Allocated(k, b)
    BY DEF Allocated, IsSent
<1>2. WithinWindow'
    BY <1>1, WithinWindowStep DEF Room
<1>3. TypeOK
    BY DEF HInv, CInv, OInv, IInv
<1>4. \A a \in Rank : \A e \in current_receives'[a] :
          e \in current_receives[a] \/ e.msg.sender_rank # a
  <2>1. CASE DeliveryTrig(i) \/ FileWritten(i)
    BY <2>1 DEF DeliveryTrig, FileWritten
  <2>2. ASSUME NEW k \in Rank, RdmcReceive(i, k)
        PROVE  \A a \in Rank : current_receives'[a] \subseteq current_receives[a]
    BY <1>3, <2>2 DEF RdmcReceive, TypeOK
  <2>3. ASSUME NEW k \in Rank, RdmcIncoming(i, k)
        PROVE  \A a \in Rank : \A e \in current_receives'[a] :
                   e \in current_receives[a] \/ e.msg.sender_rank # a
    <3>1. PICK e : /\ current_receives' = [current_receives EXCEPT ![i] = @ \cup {e}]
                   /\ e.msg.sender_rank = k
      BY <1>3, <2>3, IncomingEntry
    <3>2. k # i
      BY <2>3 DEF RdmcIncoming, IncomingAt
    <3> QED
      BY <1>3, <3>1, <3>2 DEF TypeOK
  <2> QED
    BY <2>1, <2>2, <2>3
<1>5. FromOthers'
    BY <1>4 DEF Room, FromOthers
<1>6. ~ Persistent => \A a \in Rank : non_persistent_messages'[a] \subseteq non_persistent_messages[a]
  <2>1. CASE DeliveryTrig(i)
    BY <2>1 DEF DeliveryTrig, deliver_message
  <2>2. CASE FileWritten(i)
    BY <1>3, <2>2 DEF FileWritten, TypeOK
  <2>3. CASE \E k \in Rank : RdmcIncoming(i, k) \/ RdmcReceive(i, k)
    BY <2>3 DEF RdmcIncoming, RdmcReceive
  <2> QED
    BY <2>1, <2>2, <2>3
<1>7. NothingToWrite'
    BY <1>6 DEF Room, NothingToWrite
<1>8. QueueInOrder'
    BY DEF Room, QueueInOrder
<1> QED
    BY <1>2, <1>5, <1>7, <1>8 DEF Room

\* Every step.
LEMMA RoomStep ==
    ASSUME HInv, Room, [Next]_vars
    PROVE  Room'
<1>1. TypeOK' /\ NoColumnBack
    BY TypeStep, ColumnsStep DEF HInv, CInv, OInv, IInv
<1>2. ASSUME NEW i \in Rank, NEW turns \in 0 .. MaxPause, GetPosition(i, turns)
      PROVE  Room'
    BY <1>1, <1>2, GetPositionRoom
<1>3. ASSUME NEW i \in Rank, Send(i)
      PROVE  Room'
    BY <1>1, <1>3, SendRoom
<1>4. ASSUME NEW i \in Rank, SenderStep(i)
      PROVE  Room'
    BY <1>1, <1>4, SenderStepRoom
<1>5. ASSUME NEW i \in Rank, NEW k \in Rank, RdmcIncoming(i, k) \/ RdmcReceive(i, k)
      PROVE  Room'
  <2>1. UNCHANGED <<next_send, sent, pending_sends>>
    BY <1>5 DEF RdmcIncoming, RdmcReceive, sendVars
  <2> QED
    BY <1>1, <1>5, <2>1, OthersRoom
<1>6. ASSUME NEW i \in Rank, DeliveryTrig(i) \/ FileWritten(i)
      PROVE  Room'
  <2>1. UNCHANGED <<next_send, sent, pending_sends>>
    BY <1>6 DEF DeliveryTrig, FileWritten, sendVars
  <2> QED
    BY <1>1, <1>6, <2>1, OthersRoom
<1>7. ASSUME NEW i \in Rank, OwnReceive(i) \/ StabilityTrig(i) \/ Wedge(i)
      PROVE  Room'
  <2>1. UNCHANGED <<next_send, sent, current_receives, pending_sends,
                    non_persistent_messages>>
    BY <1>7 DEF OwnReceive, StabilityTrig, Wedge, WedgeStep, sendVars, messageVars
  <2> QED
    BY <1>1, <2>1, RoomNotDisturbed
<1>8. ASSUME NEW i \in Rank, NEW j \in Rank,
             \/ SeqNumArrives(i, j) \/ StableNumArrives(i, j)
             \/ DeliveredNumArrives(i, j) \/ PersistedNumArrives(i, j)
      PROVE  Room'
  <2>1. UNCHANGED <<next_send, sent, current_receives, pending_sends,
                    non_persistent_messages>>
    BY <1>8 DEF SeqNumArrives, StableNumArrives, DeliveredNumArrives,
                PersistedNumArrives, sendVars, messageVars
  <2> QED
    BY <1>1, <2>1, RoomNotDisturbed
<1>9. ASSUME UNCHANGED vars
      PROVE  Room'
    BY <1>1, <1>9, RoomNotDisturbed DEF vars, sendVars, messageVars
<1> QED
    BY <1>2, <1>3, <1>4, <1>5, <1>6, <1>7, <1>8, <1>9 DEF Next

\* Nothing is allocated at first.
LEMMA RoomInit == Init => Room
<1> SUFFICES ASSUME Init
             PROVE  Room
    OBVIOUS
<1>1. \A k \in Rank : \A b : ~ Allocated(k, b)
    BY DEF Init, Allocated, IsSent
<1>2. WithinWindow
    BY <1>1 DEF WithinWindow
<1>3. FromOthers /\ QueueInOrder /\ NothingToWrite
    BY DEF Init, FromOthers, QueueInOrder, NothingToWrite
<1> QED
    BY <1>2, <1>3 DEF Room

(***************************************************************************)
(* What member i needs its buffers for when RDMC asks for one for the next *)
(* message of k.  Each use is for one turn, a number of one sender.        *)
(***************************************************************************)
Uses(i, k) ==
    ({"next"} \X next_send[i]) \cup ({"queued"} \X (1 .. Len(pending_sends[i])))
        \cup ({"current"} \X current_send[i]) \cup ({"incoming"} \X current_receives[i])
        \cup ({"filled"} \X Filled(i)) \cup {<<"asked", k>>}

\* x is the use for number b of sender s; own messages go from the number h
\* on through the queue and from q on through get_position.
IsUse(i, k, h, q, x, s, b) ==
    \/ s = i /\ q <= b /\ \E m \in next_send[i] : x = <<"next", m>> /\ b = m.body
    \/ s = i /\ h <= b /\ b < q /\ \E n \in 1 .. Len(pending_sends[i]) :
           x = <<"queued", n>> /\ b = pending_sends[i][n].body
    \/ s = i /\ nReceived[i][i] < b /\ b < h /\ \E m \in current_send[i] :
           x = <<"current", m>> /\ b = m.body
    \/ s # i /\ nReceived[i][s] < b /\ \E e \in current_receives[i] :
           x = <<"incoming", e>> /\ s = e.msg.sender_rank /\ b = e.msg.body
    \/ b <= nReceived[i][s] /\ \E e \in Filled(i) :
           x = <<"filled", e>> /\ s = e.msg.sender_rank /\ b = e.msg.body
    \/ s = k /\ nReceived[i][k] < b /\ x = <<"asked", k>>

\* One kind of use.
LEMMA Tagged ==
    ASSUME NEW t, NEW S, IsFiniteSet(S)
    PROVE  IsFiniteSet({t} \X S) /\ Cardinality({t} \X S) = Cardinality(S)
<1>1. IsFiniteSet({t}) /\ Cardinality({t}) = 1
    BY FS_Singleton
<1>2. /\ IsFiniteSet({t} \X S)
      /\ Cardinality({t} \X S) = Cardinality({t}) * Cardinality(S)
    BY <1>1, FS_Product
<1>3. Cardinality(S) \in Nat
    BY FS_CardinalityType
<1> QED
    BY <1>1, <1>2, <1>3

\* Two kinds of uses.
LEMMA Together ==
    ASSUME NEW S, NEW T, IsFiniteSet(S), IsFiniteSet(T), S \cap T = {}
    PROVE  IsFiniteSet(S \cup T) /\ Cardinality(S \cup T) = Cardinality(S) + Cardinality(T)
<1>1. /\ IsFiniteSet(S \cup T)
      /\ Cardinality(S \cup T) = Cardinality(S) + Cardinality(T) - Cardinality(S \cap T)
    BY FS_Union
<1>2. Cardinality(S \cap T) = 0
    BY FS_EmptySet
<1>3. Cardinality(S) \in Nat /\ Cardinality(T) \in Nat
    BY FS_CardinalityType
<1> QED
    BY <1>1, <1>2, <1>3

\* How many uses there are.
LEMMA UsesCount ==
    ASSUME NEW i \in Rank, NEW k \in Rank, TypeOK, Places(i),
           NEW f \in Int, NEW m \in Int, NEW q \in Int, NEW c \in Int, NEW r \in Int,
           NEW l \in Int, NEW w \in Int, Counts(i, f, m, q, c, r, l, w)
    PROVE  IsFiniteSet(Uses(i, k)) /\ Cardinality(Uses(i, k)) = m + q + c + r + l + 1
<1> DEFINE A == {"next"} \X next_send[i]
           B == {"queued"} \X (1 .. Len(pending_sends[i]))
           C == {"current"} \X current_send[i]
           D == {"incoming"} \X current_receives[i]
           E == {"filled"} \X Filled(i)
           G == {<<"asked", k>>}
<1>1. IsFiniteSet(next_send[i]) /\ IsFiniteSet(current_send[i])
  <2>1. ASSUME NEW S, S = {} \/ \E x : S = {x}
        PROVE  IsFiniteSet(S)
    BY <2>1, FS_EmptySet, FS_Singleton
  <2> QED
    BY <2>1 DEF Places
<1>2. IsFiniteSet(A) /\ Cardinality(A) = m
    BY <1>1, Tagged DEF Counts
<1>3. IsFiniteSet(B) /\ Cardinality(B) = q
  <2>1. pending_sends[i] \in Seq(Message)
    BY DEF TypeOK
  <2>2. q \in Nat /\ Len(pending_sends[i]) = q
    BY <2>1 DEF Counts
  <2>3. IsFiniteSet(1 .. q) /\ Cardinality(1 .. q) = q
    BY <2>2, FS_Interval
  <2> QED
    BY <2>2, <2>3, Tagged
<1>4. IsFiniteSet(C) /\ Cardinality(C) = c
    BY <1>1, Tagged DEF Counts
<1>5. IsFiniteSet(D) /\ Cardinality(D) = r
    BY Tagged DEF Counts, Places
<1>6. IsFiniteSet(E) /\ Cardinality(E) = l
    BY Tagged DEF Counts, Places
<1>7. IsFiniteSet(G) /\ Cardinality(G) = 1
    BY FS_Singleton
<1>8. /\ A \cap B = {} /\ (A \cup B) \cap C = {} /\ (A \cup B \cup C) \cap D = {}
      /\ (A \cup B \cup C \cup D) \cap E = {}
      /\ (A \cup B \cup C \cup D \cup E) \cap G = {}
    OBVIOUS
<1>9. Uses(i, k) = A \cup B \cup C \cup D \cup E \cup G
    BY DEF Uses
<1> HIDE DEF A, B, C, D, E, G
<1>10. IsFiniteSet(A \cup B) /\ Cardinality(A \cup B) = m + q
    BY <1>2, <1>3, <1>8, Together
<1>11. IsFiniteSet(A \cup B \cup C) /\ Cardinality(A \cup B \cup C) = m + q + c
    BY <1>4, <1>8, <1>10, Together
<1>12. IsFiniteSet(A \cup B \cup C \cup D) /\ Cardinality(A \cup B \cup C \cup D) = m + q + c + r
    BY <1>5, <1>8, <1>11, Together
<1>13. /\ IsFiniteSet(A \cup B \cup C \cup D \cup E)
       /\ Cardinality(A \cup B \cup C \cup D \cup E) = m + q + c + r + l
    BY <1>6, <1>8, <1>12, Together
<1>14. /\ IsFiniteSet(A \cup B \cup C \cup D \cup E \cup G)
       /\ Cardinality(A \cup B \cup C \cup D \cup E \cup G) = m + q + c + r + l + 1
    BY <1>7, <1>8, <1>13, Together
<1> QED
    BY <1>9, <1>14

\* The last number that a sender has given out.
LEMMA NewestNumber ==
    ASSUME HInv, NEW k \in Rank
    PROVE  \E x \in Int :
               /\ \A b \in Nat : Allocated(k, b) => b <= x
               /\ (\E b \in Nat : Allocated(k, b)) => x \in Nat /\ Allocated(k, x)
<1>1. TypeOK /\ SentInOrder /\ Orderly
    BY DEF HInv, CInv, OInv, IInv, History
<1>2. /\ Len(sent[k]) \in Nat /\ \A n \in 1 .. Len(sent[k]) : sent[k][n] \in Nat
      /\ \A m \in next_send[k] : m.body \in Nat
  <2>1. sent[k] \in Seq(Nat) /\ next_send[k] \subseteq Message
    BY <1>1 DEF TypeOK
  <2> QED
    BY <2>1 DEF Message
<1>3. ASSUME NEW m \in next_send[k]
      PROVE  \A b \in Nat : Allocated(k, b) => b <= m.body
  <2> SUFFICES ASSUME NEW b \in Nat, Allocated(k, b)
               PROVE  b <= m.body
    OBVIOUS
  <2>1. CASE IsSent(k, b)
    <3>1. PICK n \in 1 .. Len(sent[k]) : sent[k][n] = b
      BY <2>1 DEF IsSent
    <3>2. BeforeNext(k, sent[k][n] + 1)
      BY <1>1 DEF SentInOrder
    <3> QED
      BY <1>2, <3>1, <3>2 DEF BeforeNext
  <2>2. ASSUME NEW o \in next_send[k], o.body = b
        PROVE  b <= m.body
    <3>1. o.body = m.body
      BY <1>1 DEF Orderly, Chained, SenderChain
    <3> QED
      BY <1>2, <2>2, <3>1
  <2> QED
    BY <2>1, <2>2 DEF Allocated
<1>4. CASE \E m \in next_send[k] : TRUE
  <2>1. PICK m \in next_send[k] : TRUE
    BY <1>4
  <2>2. m.body \in Nat /\ Allocated(k, m.body)
    BY <1>2 DEF Allocated
  <2> QED
    BY <1>3, <2>2
<1>5. CASE next_send[k] = {} /\ Len(sent[k]) > 0
  <2>1. \A n \in 1 .. Len(sent[k]) : sent[k][n] <= sent[k][Len(sent[k])]
    BY <1>1, <1>2, <1>5 DEF SentInOrder
  <2>2. Len(sent[k]) \in 1 .. Len(sent[k])
    BY <1>2, <1>5
  <2>3. sent[k][Len(sent[k])] \in Nat /\ Allocated(k, sent[k][Len(sent[k])])
    BY <1>2, <2>2 DEF Allocated, IsSent
  <2>4. \A b \in Nat : Allocated(k, b) => b <= sent[k][Len(sent[k])]
    BY <1>5, <2>1 DEF Allocated, IsSent
  <2> QED
    BY <2>3, <2>4
<1>6. CASE next_send[k] = {} /\ Len(sent[k]) = 0
  <2>1. \A b \in Nat : ~ Allocated(k, b)
    BY <1>6 DEF Allocated, IsSent
  <2> QED
    BY <2>1
<1> QED
    BY <1>2, <1>4, <1>5, <1>6

\* Of what a member has not delivered, each sender has given out the last
\* WindowSize numbers at most.
LEMMA OneWindow ==
    ASSUME HInv, Room, NEW i \in Rank
    PROVE  \E newest \in [Rank -> Int] : \A k \in Rank : \A b \in Nat :
               Allocated(k, b) /\ delivered_num[i][i] < SeqNum(k, b)
                   => newest[k] - b \in 0 .. WindowSize - 1
<1> DEFINE IsNewest(k, x) ==
               /\ \A b \in Nat : Allocated(k, b) => b <= x
               /\ (\E b \in Nat : Allocated(k, b)) => x \in Nat /\ Allocated(k, x)
           newest == [k \in Rank |-> CHOOSE x \in Int : IsNewest(k, x)]
<1>1. ASSUME NEW k \in Rank
      PROVE  newest[k] \in Int /\ IsNewest(k, newest[k])
  <2>1. \E x \in Int : IsNewest(k, x)
    BY NewestNumber
  <2> HIDE DEF IsNewest
  <2> QED
    BY <2>1
<1>2. newest \in [Rank -> Int]
    BY <1>1
<1> HIDE DEF newest
<1>3. ASSUME NEW k \in Rank, NEW b \in Nat, Allocated(k, b),
             delivered_num[i][i] < SeqNum(k, b)
      PROVE  newest[k] - b \in 0 .. WindowSize - 1
  <2>1. PICK x : x = newest[k]
    OBVIOUS
  <2>2. x \in Nat /\ Allocated(k, x) /\ b <= x
    BY <1>1, <1>3, <2>1
  <2>3. SeqNum(k, x - WindowSize) <= delivered_num[i][i]
    BY <2>2 DEF Room, WithinWindow
  <2>4. x - WindowSize \in Int /\ b \in Int
    BY <2>2, WindowAssumption
  <2>5. SeqNum(k, x - WindowSize) \in Int /\ SeqNum(k, b) \in Int
    BY <2>4, SeqNumInt
  <2>6. delivered_num[i][i] \in Int
    BY ColumnType DEF HInv, CInv, OInv, IInv
  <2>7. SeqNum(k, x - WindowSize) < SeqNum(k, b)
    BY <1>3, <2>3, <2>5, <2>6
  <2>8. x - WindowSize < b
    BY <2>4, <2>7, SeqNumReflectsOrder
  <2> QED
    BY <2>1, <2>2, <2>8, WindowAssumption
<1> QED
    BY <1>2, <1>3

\* What has not been counted has not been delivered.
LEMMA NotDelivered ==
    ASSUME HInv, NEW i \in Rank, NEW s \in Rank, NEW b \in Int, nReceived[i][s] < b
    PROVE  delivered_num[i][i] < SeqNum(s, b)
<1>1. IInv
    BY DEF HInv, CInv, OInv
<1>2. /\ nReceived[i][s] \in Int /\ seq_num[i][i] \in Int
      /\ stable_num[i][i] \in Int /\ delivered_num[i][i] \in Int
    BY <1>1, ColumnType DEF IInv
<1>3. nReceived[i][s] + 1 \in Int /\ nReceived[i][s] + 1 <= b
    BY <1>2
<1>4. SeqNum(s, nReceived[i][s] + 1) <= SeqNum(s, b)
    BY <1>3, SeqNumMonotone
<1>5. SeqNum(s, nReceived[i][s] + 1) \in Int /\ SeqNum(s, b) \in Int
    BY <1>3, SeqNumInt
<1>6. seq_num[i][i] < SeqNum(s, nReceived[i][s] + 1)
    BY <1>1 DEF IInv, Promises, SeqNumBeforeGaps
<1>7. stable_num[i][i] <= seq_num[i][i] /\ delivered_num[i][i] <= stable_num[i][i]
    BY <1>1 DEF IInv, Promises, StableNumCorrect, DeliveredIsKnownStable
<1> QED
    BY <1>2, <1>4, <1>5, <1>6, <1>7

\* The numbers of a member's own messages, in the order of their places.
OwnRange(i, h, q) ==
    /\ nReceived[i][i] < h /\ h <= q
    /\ \A m \in current_send[i] : nReceived[i][i] < m.body /\ m.body < h
    /\ \A n \in 1 .. Len(pending_sends[i]) :
           h <= pending_sends[i][n].body /\ pending_sends[i][n].body < q
    /\ \A m \in next_send[i] : q <= m.body

LEMMA OwnRangeExists ==
    ASSUME HInv, Room, NEW i \in Rank
    PROVE  \E h, q \in Int : OwnRange(i, h, q)
<1>1. TypeOK /\ Orderly
    BY DEF HInv, CInv, OInv, IInv
<1>2. PICK handed, queued \in [Rank -> Int] : Chained(handed, queued)
    BY <1>1 DEF Orderly
<1>3. PICK h \in Int, q \in Int : h = handed[i] /\ q = queued[i]
    BY <1>2
<1>4. SenderChain(handed, queued, i)
    BY <1>2 DEF Chained
<1>5. nReceived[i][i] \in Int
    BY <1>1, ColumnType
<1>6. ASSUME NEW m \in current_send[i]
      PROVE  nReceived[i][i] < m.body /\ m.body < h
  <2>1. m \in UnderWay(i)
    BY UnderWayFound
  <2>2. m.body \in Int /\ m.body < After(m)
    BY <1>1, <2>1, UnderWayType
  <2>3. m.body = nReceived[i][i] + 1 /\ After(m) = h
    BY <1>3, <1>4 DEF SenderChain
  <2> QED
    BY <1>5, <2>2, <2>3
<1>7. nReceived[i][i] < h
  <2>1. CASE current_send[i] = {}
    <3>1. nReceived[i][i] + 1 = h
      BY <1>3, <1>4, <2>1 DEF SenderChain
    <3> QED
      BY <1>5, <3>1
  <2>2. ASSUME NEW m \in current_send[i]
        PROVE  nReceived[i][i] < h
    <3>1. nReceived[i][i] + 1 = m.body
      BY <1>4 DEF SenderChain
    <3> QED
      BY <1>5, <1>6, <3>1
  <2> QED
    BY <2>1, <2>2
<1>8. /\ pending_sends[i] \in Seq(Message)
      /\ \A n \in 1 .. Len(pending_sends[i]) :
             /\ pending_sends[i][n].body \in Int /\ After(pending_sends[i][n]) \in Int
             /\ pending_sends[i][n].body < After(pending_sends[i][n])
  <2>1. pending_sends[i] \in Seq(Message)
    BY <1>1 DEF TypeOK
  <2>2. \A n \in 1 .. Len(pending_sends[i]) : pending_sends[i][n] \in UnderWay(i)
    BY UnderWayFound
  <2> QED
    BY <1>1, <2>1, <2>2, UnderWayType
<1>9. Leads(pending_sends[i], h, q)
    BY <1>3, <1>4 DEF SenderChain
<1>10. ASSUME NEW n \in 1 .. Len(pending_sends[i])
       PROVE  h <= pending_sends[i][n].body /\ pending_sends[i][n].body < q
  <2>1. PICK l \in Nat : l = Len(pending_sends[i])
    BY <1>8
  <2>2. 1 \in 1 .. l /\ l \in 1 .. l /\ pending_sends[i] # <<>> /\ n \in 1 .. l
    BY <1>8, <1>10, <2>1
  <2>3. pending_sends[i][1].body = h /\ After(pending_sends[i][l]) = q
    BY <1>9, <2>1, <2>2 DEF Leads
  <2>4. n = 1 \/ pending_sends[i][1].body < pending_sends[i][n].body
    BY <2>1, <2>2 DEF Room, QueueInOrder
  <2>5. n = l \/ pending_sends[i][n].body < pending_sends[i][l].body
    BY <2>1, <2>2 DEF Room, QueueInOrder
  <2>6. /\ pending_sends[i][1].body \in Int /\ pending_sends[i][n].body \in Int
        /\ pending_sends[i][l].body \in Int /\ After(pending_sends[i][l]) \in Int
        /\ pending_sends[i][l].body < After(pending_sends[i][l])
    BY <1>8, <2>1, <2>2
  <2> QED
    BY <2>3, <2>4, <2>5, <2>6
<1>11. h <= q
  <2>1. CASE pending_sends[i] = <<>>
    BY <1>9, <2>1 DEF Leads
  <2>2. CASE pending_sends[i] # <<>>
    <3>1. 1 \in 1 .. Len(pending_sends[i])
      BY <1>8, <2>2
    <3> QED
      BY <1>8, <1>10, <3>1
  <2> QED
    BY <2>1, <2>2
<1>12. \A m \in next_send[i] : q <= m.body
    BY <1>3, <1>4 DEF SenderChain
<1> QED
    BY <1>6, <1>7, <1>10, <1>11, <1>12 DEF OwnRange

\* The message that RDMC asks a buffer for is the next one of its sender.
LEMMA AskedNumber ==
    ASSUME HInv, NEW i \in Rank, NEW k \in Rank, IncomingAt(i, k)
    PROVE  Allocated(k, nReceived[i][k] + 1)
<1>1. TypeOK /\ Orderly /\ AllAnnounced
    BY DEF HInv, CInv, OInv, IInv, History
<1>2. PICK handed, queued \in [Rank -> Int] : Chained(handed, queued)
    BY <1>1 DEF Orderly
<1>3. /\ inflight[k][i] # <<>> /\ k # i
      /\ \A e \in current_receives[i] : e.msg.sender_rank # k
    BY DEF IncomingAt
<1>4. Leads(inflight[k][i], nReceived[i][k] + 1, handed[k])
    BY <1>2, <1>3 DEF Chained, ReceiverChain
<1>5. inflight[k][i][1].body = nReceived[i][k] + 1
    BY <1>3, <1>4 DEF Leads
<1>6. 1 \in 1 .. Len(inflight[k][i])
  <2>1. inflight[k][i] \in Seq(Message)
    BY <1>1 DEF TypeOK
  <2> QED
    BY <1>3, <2>1
<1>7. inflight[k][i][1] \in UnderWay(k)
    BY <1>6, UnderWayFound
<1>8. Announced(k, inflight[k][i][1])
    BY <1>1, <1>7 DEF AllAnnounced
<1> QED
    BY <1>5, <1>8 DEF Announced, Allocated

\* Senders are ranks and numbers are natural.
LEMMA EntryType ==
    ASSUME TypeOK, NEW i \in Rank,
           NEW e \in current_receives[i] \cup locally_stable_messages[i]
    PROVE  e.msg.sender_rank \in Rank /\ e.msg.body \in Nat
<1>1. e \in Entry
    BY DEF TypeOK
<1>2. e.msg \in Message
    BY <1>1 DEF Entry
<1> QED
    BY <1>2 DEF Message

\* Every use is for a number that has been given out and not been delivered.
LEMMA UseIs ==
    ASSUME HInv, Room, NEW i \in Rank, NEW k \in Rank, IncomingAt(i, k),
           NEW h \in Int, NEW q \in Int, OwnRange(i, h, q), NEW x \in Uses(i, k)
    PROVE  \E s \in Rank, b \in Nat :
               /\ IsUse(i, k, h, q, x, s, b)
               /\ Allocated(s, b) /\ delivered_num[i][i] < SeqNum(s, b)
<1>1. TypeOK /\ AllAnnounced /\ Orderly
    BY DEF HInv, CInv, OInv, IInv, History
<1>2. nReceived[i][i] \in Int
    BY <1>1, ColumnType
<1>3. ASSUME NEW m \in next_send[i], x = <<"next", m>>
      PROVE  \E s \in Rank, b \in Nat :
                 /\ IsUse(i, k, h, q, x, s, b)
                 /\ Allocated(s, b) /\ delivered_num[i][i] < SeqNum(s, b)
  <2>1. m.body \in Nat
    BY <1>1 DEF TypeOK, Message
  <2>2. q <= m.body /\ nReceived[i][i] < m.body
    BY <1>2, <2>1 DEF OwnRange
  <2>3. IsUse(i, k, h, q, x, i, m.body)
    BY <1>3, <2>2 DEF IsUse
  <2>4. delivered_num[i][i] < SeqNum(i, m.body)
    BY <2>1, <2>2, NotDelivered
  <2> QED
    BY <2>1, <2>3, <2>4 DEF Allocated
<1>4. ASSUME NEW n \in 1 .. Len(pending_sends[i]), x = <<"queued", n>>
      PROVE  \E s \in Rank, b \in Nat :
                 /\ IsUse(i, k, h, q, x, s, b)
                 /\ Allocated(s, b) /\ delivered_num[i][i] < SeqNum(s, b)
  <2>1. PICK m : m = pending_sends[i][n] /\ m \in UnderWay(i)
    BY UnderWayFound
  <2>2. m.body \in Nat
    BY <1>1, <2>1, UnderWayType DEF Message
  <2>3. h <= m.body /\ m.body < q /\ nReceived[i][i] < m.body
    BY <1>2, <2>1, <2>2 DEF OwnRange
  <2>4. IsUse(i, k, h, q, x, i, m.body)
    BY <1>4, <2>1, <2>3 DEF IsUse
  <2>5. delivered_num[i][i] < SeqNum(i, m.body)
    BY <2>2, <2>3, NotDelivered
  <2>6. Allocated(i, m.body)
    BY <1>1, <2>1 DEF AllAnnounced, Announced, Allocated
  <2> QED
    BY <2>2, <2>4, <2>5, <2>6
<1>5. ASSUME NEW m \in current_send[i], x = <<"current", m>>
      PROVE  \E s \in Rank, b \in Nat :
                 /\ IsUse(i, k, h, q, x, s, b)
                 /\ Allocated(s, b) /\ delivered_num[i][i] < SeqNum(s, b)
  <2>1. m \in UnderWay(i)
    BY UnderWayFound
  <2>2. m.body \in Nat
    BY <1>1, <2>1, UnderWayType DEF Message
  <2>3. nReceived[i][i] < m.body /\ m.body < h
    BY DEF OwnRange
  <2>4. IsUse(i, k, h, q, x, i, m.body)
    BY <1>5, <2>3 DEF IsUse
  <2>5. delivered_num[i][i] < SeqNum(i, m.body)
    BY <2>2, <2>3, NotDelivered
  <2>6. Allocated(i, m.body)
    BY <1>1, <2>1 DEF AllAnnounced, Announced, Allocated
  <2> QED
    BY <2>2, <2>4, <2>5, <2>6
<1>6. ASSUME NEW e \in current_receives[i], x = <<"incoming", e>>
      PROVE  \E s \in Rank, b \in Nat :
                 /\ IsUse(i, k, h, q, x, s, b)
                 /\ Allocated(s, b) /\ delivered_num[i][i] < SeqNum(s, b)
  <2>1. e.msg.sender_rank \in Rank /\ e.msg.body \in Nat
    BY <1>1, EntryType
  <2>2. PICK s \in Rank, b \in Nat : s = e.msg.sender_rank /\ b = e.msg.body
    BY <2>1
  <2>3. s # i
    BY <2>2 DEF Room, FromOthers
  <2>4. PICK handed, queued \in [Rank -> Int] : Chained(handed, queued)
    BY <1>1 DEF Orderly
  <2>5. b = nReceived[i][s] + 1
    BY <2>2, <2>3, <2>4 DEF Chained, ReceiverChain
  <2>6. nReceived[i][s] \in Int
    BY <1>1, ColumnType
  <2>7. nReceived[i][s] < b
    BY <2>5, <2>6
  <2>8. IsUse(i, k, h, q, x, s, b)
    BY <1>6, <2>2, <2>3, <2>7 DEF IsUse
  <2>9. delivered_num[i][i] < SeqNum(s, b)
    BY <2>7, NotDelivered
  <2>10. e.msg \in UnderWay(s)
    BY <2>2, UnderWayFound
  <2>11. Allocated(s, b)
    BY <1>1, <2>2, <2>10 DEF AllAnnounced, Announced, Allocated
  <2> QED
    BY <2>8, <2>9, <2>11
<1>7. ASSUME NEW e \in Filled(i), x = <<"filled", e>>
      PROVE  \E s \in Rank, b \in Nat :
                 /\ IsUse(i, k, h, q, x, s, b)
                 /\ Allocated(s, b) /\ delivered_num[i][i] < SeqNum(s, b)
  <2>1. e \in locally_stable_messages[i] /\ e.msg.size > 0
    BY DEF Filled
  <2>2. e.msg.sender_rank \in Rank /\ e.msg.body \in Nat
    BY <1>1, <2>1, EntryType
  <2>3. PICK s \in Rank, b \in Nat : s = e.msg.sender_rank /\ b = e.msg.body
    BY <2>2
  <2>4. delivered_num[i][i] < SeqNum(s, b)
    BY <2>1, <2>3, WaitingNumber
  <2>5. b <= nReceived[i][s]
    BY <2>1, <2>3 DEF HInv, CInv, Columns, Counted
  <2>6. IsUse(i, k, h, q, x, s, b)
    BY <1>7, <2>3, <2>5 DEF IsUse
  <2>7. e.msg.size # 0
    BY <2>1
  <2>8. Allocated(s, b)
    BY <2>1, <2>3, <2>7 DEF HInv, History, ContentIsSent, Allocated
  <2> QED
    BY <2>4, <2>6, <2>8
<1>8. ASSUME x = <<"asked", k>>
      PROVE  \E s \in Rank, b \in Nat :
                 /\ IsUse(i, k, h, q, x, s, b)
                 /\ Allocated(s, b) /\ delivered_num[i][i] < SeqNum(s, b)
  <2>1. PICK b : b = nReceived[i][k] + 1
    OBVIOUS
  <2>2. nReceived[i][k] \in Number
    BY <1>1, ColumnType
  <2>3. b \in Nat /\ nReceived[i][k] < b
    BY <2>1, <2>2 DEF Number
  <2>4. IsUse(i, k, h, q, x, k, b)
    BY <1>8, <2>3 DEF IsUse
  <2>5. delivered_num[i][i] < SeqNum(k, b)
    BY <2>3, NotDelivered
  <2>6. Allocated(k, b)
    BY <2>1, AskedNumber
  <2> QED
    BY <2>3, <2>4, <2>5, <2>6
<1>9. \/ \E m \in next_send[i] : x = <<"next", m>>
      \/ \E n \in 1 .. Len(pending_sends[i]) : x = <<"queued", n>>
      \/ \E m \in current_send[i] : x = <<"current", m>>
      \/ \E e \in current_receives[i] : x = <<"incoming", e>>
      \/ \E e \in Filled(i) : x = <<"filled", e>>
      \/ x = <<"asked", k>>
    BY DEF Uses
<1> QED
    BY <1>3, <1>4, <1>5, <1>6, <1>7, <1>8, <1>9

\* No two uses are for one turn.
LEMMA UsesDiffer ==
    ASSUME HInv, Room, NEW i \in Rank, Places(i), NEW k \in Rank, IncomingAt(i, k),
           NEW h \in Int, NEW q \in Int, OwnRange(i, h, q),
           NEW x, NEW y, NEW s \in Rank, NEW b \in Nat,
           IsUse(i, k, h, q, x, s, b), IsUse(i, k, h, q, y, s, b)
    PROVE  x = y
<1>1. TypeOK /\ OneReceive /\ DistinctNumbers
    BY DEF HInv, CInv, OInv, IInv, Orderly, Columns
<1>2. /\ nReceived[i][i] \in Int /\ nReceived[i][s] \in Int
      /\ nReceived[i][i] < h /\ h <= q
    BY <1>1, ColumnType DEF OwnRange
<1>3. k # i /\ \A e \in current_receives[i] : e.msg.sender_rank # k
    BY DEF IncomingAt
<1>4. CASE s = i /\ q <= b /\ \E m \in next_send[i] : x = <<"next", m>> /\ b = m.body
  <2>1. \E m \in next_send[i] : y = <<"next", m>>
    BY <1>2, <1>3, <1>4 DEF IsUse
  <2> QED
    BY <1>4, <2>1 DEF Places
<1>5. CASE s = i /\ h <= b /\ b < q /\ \E n \in 1 .. Len(pending_sends[i]) :
               x = <<"queued", n>> /\ b = pending_sends[i][n].body
  <2>1. PICK n \in 1 .. Len(pending_sends[i]) :
            x = <<"queued", n>> /\ b = pending_sends[i][n].body
    BY <1>5
  <2>2. PICK m \in 1 .. Len(pending_sends[i]) :
            y = <<"queued", m>> /\ b = pending_sends[i][m].body
    BY <1>2, <1>3, <1>5 DEF IsUse
  <2>3. /\ n < m => pending_sends[i][n].body < pending_sends[i][m].body
        /\ m < n => pending_sends[i][m].body < pending_sends[i][n].body
    BY DEF Room, QueueInOrder
  <2>4. ~ (b < b)
    OBVIOUS
  <2>5. ~ (n < m) /\ ~ (m < n)
    BY <2>1, <2>2, <2>3, <2>4
  <2>6. n \in Int /\ m \in Int
    OBVIOUS
  <2>7. n = m
    BY <2>5, <2>6
  <2> QED
    BY <2>1, <2>2, <2>7
<1>6. CASE s = i /\ nReceived[i][i] < b /\ b < h /\ \E m \in current_send[i] :
               x = <<"current", m>> /\ b = m.body
  <2>1. \E m \in current_send[i] : y = <<"current", m>>
    BY <1>2, <1>3, <1>6 DEF IsUse
  <2> QED
    BY <1>6, <2>1 DEF Places
<1>7. CASE s # i /\ nReceived[i][s] < b /\ \E e \in current_receives[i] :
               x = <<"incoming", e>> /\ s = e.msg.sender_rank /\ b = e.msg.body
  <2>1. \E e \in current_receives[i] : y = <<"incoming", e>> /\ s = e.msg.sender_rank
    BY <1>2, <1>3, <1>7 DEF IsUse
  <2> QED
    BY <1>1, <1>7, <2>1 DEF OneReceive
<1>8. CASE b <= nReceived[i][s] /\ \E e \in Filled(i) :
               x = <<"filled", e>> /\ s = e.msg.sender_rank /\ b = e.msg.body
  <2>1. PICK e \in Filled(i) : x = <<"filled", e>> /\ s = e.msg.sender_rank /\ b = e.msg.body
    BY <1>8
  <2>2. PICK o \in Filled(i) : y = <<"filled", o>> /\ s = o.msg.sender_rank /\ b = o.msg.body
    BY <1>2, <1>3, <1>8 DEF IsUse
  <2>3. e \in locally_stable_messages[i] /\ o \in locally_stable_messages[i]
    BY DEF Filled
  <2>4. e.seq = o.seq
    BY <2>1, <2>2, <2>3, WaitingNumber
  <2> QED
    BY <1>1, <2>1, <2>2, <2>3, <2>4 DEF DistinctNumbers
<1>9. CASE s = k /\ nReceived[i][k] < b /\ x = <<"asked", k>>
  <2>1. y = <<"asked", k>>
    BY <1>2, <1>3, <1>9 DEF IsUse
  <2> QED
    BY <1>9, <2>1
<1> QED
    BY <1>4, <1>5, <1>6, <1>7, <1>8, <1>9 DEF IsUse

\* WindowSize turns of every sender.
LEMMA SlotCount ==
    /\ IsFiniteSet(Rank \X (0 .. WindowSize - 1))
    /\ Cardinality(Rank \X (0 .. WindowSize - 1)) = WindowSize * N
<1>1. IsFiniteSet(Rank) /\ Cardinality(Rank) = N
    BY FS_Interval, NAssumption DEF Rank
<1>2. IsFiniteSet(0 .. WindowSize - 1) /\ Cardinality(0 .. WindowSize - 1) = WindowSize
    BY FS_Interval, WindowAssumption
<1>3. /\ IsFiniteSet(Rank \X (0 .. WindowSize - 1))
      /\ Cardinality(Rank \X (0 .. WindowSize - 1)) = N * WindowSize
    BY <1>1, <1>2, FS_Product
<1> QED
    BY <1>3, NAssumption, WindowAssumption

\* A use more than the WindowSize * N buffers would be for a turn twice.
LEMMA BufferIsFree ==
    ASSUME HInv, Buffers, Room, ~ Persistent, NEW i \in Rank, NEW k \in Rank, IncomingAt(i, k)
    PROVE  free_message_buffers[i] > 0
<1>1. TypeOK /\ Places(i) /\ Balanced(i)
    BY DEF HInv, CInv, OInv, IInv, Buffers
<1>2. free_message_buffers[i] \in Nat
    BY <1>1 DEF TypeOK
<1> SUFFICES ASSUME free_message_buffers[i] = 0
             PROVE  FALSE
    BY <1>2
<1>3. PICK f, m, q, c, r, l, w \in Int : Counts(i, f, m, q, c, r, l, w)
    BY <1>1, CountsExist
<1>4. f = 0
    BY <1>3 DEF Counts
<1>5. w = 0
  <2>1. non_persistent_messages[i] = {}
    BY DEF Room, NothingToWrite
  <2> QED
    BY <1>3, <2>1, FS_EmptySet DEF Counts
<1>6. WindowSize * N = m + q + c + r + l
    BY <1>1, <1>3, <1>4, <1>5 DEF Balanced, Counts
<1>7. IsFiniteSet(Uses(i, k)) /\ Cardinality(Uses(i, k)) = m + q + c + r + l + 1
    BY <1>1, <1>3, UsesCount
<1>8. PICK high, queued \in Int : OwnRange(i, high, queued)
    BY OwnRangeExists
<1>9. PICK newest \in [Rank -> Int] : \A s \in Rank : \A b \in Nat :
          Allocated(s, b) /\ delivered_num[i][i] < SeqNum(s, b)
              => newest[s] - b \in 0 .. WindowSize - 1
    BY OneWindow
<1> DEFINE Slots == Rank \X (0 .. WindowSize - 1)
           IsSlot(x, z) == \E s \in Rank, b \in Nat :
               IsUse(i, k, high, queued, x, s, b) /\ z = <<s, newest[s] - b>>
           slot == [x \in Uses(i, k) |-> CHOOSE z \in Slots : IsSlot(x, z)]
<1>10. ASSUME NEW x \in Uses(i, k)
       PROVE  slot[x] \in Slots /\ IsSlot(x, slot[x])
  <2>1. PICK s \in Rank, b \in Nat :
            /\ IsUse(i, k, high, queued, x, s, b)
            /\ Allocated(s, b) /\ delivered_num[i][i] < SeqNum(s, b)
    BY <1>8, UseIs
  <2>2. newest[s] - b \in 0 .. WindowSize - 1
    BY <1>9, <2>1
  <2>3. <<s, newest[s] - b>> \in Slots
    BY <2>2
  <2>4. IsSlot(x, <<s, newest[s] - b>>)
    BY <2>1
  <2> HIDE DEF Slots, IsSlot
  <2> QED
    BY <2>3, <2>4
<1>11. slot \in [Uses(i, k) -> Slots]
    BY <1>10
<1>12. IsFiniteSet(Slots) /\ Cardinality(Slots) = WindowSize * N
    BY SlotCount
<1> HIDE DEF Slots, slot
<1>13. Cardinality(Slots) < Cardinality(Uses(i, k))
    BY <1>6, <1>7, <1>12
<1>14. PICK x, y \in Uses(i, k) : x # y /\ slot[x] = slot[y]
    BY <1>7, <1>11, <1>12, <1>13, FS_PigeonHole
<1>15. PICK s \in Rank, b \in Nat :
           IsUse(i, k, high, queued, x, s, b) /\ slot[x] = <<s, newest[s] - b>>
    BY <1>10
<1>16. PICK t \in Rank, d \in Nat :
           IsUse(i, k, high, queued, y, t, d) /\ slot[y] = <<t, newest[t] - d>>
    BY <1>10
<1>17. s = t /\ newest[s] - b = newest[t] - d
  <2>1. <<s, newest[s] - b>> = <<t, newest[t] - d>>
    BY <1>14, <1>15, <1>16
  <2> QED
    BY <2>1
<1>18. newest[s] \in Int
    OBVIOUS
<1>19. b = d
    BY <1>17, <1>18
<1>20. x = y
    BY <1>1, <1>8, <1>15, <1>16, <1>17, <1>19, UsesDiffer
<1> QED
    BY <1>14, <1>20

LEMMA BuffersSuffice == HInv /\ Buffers /\ Room => (~ Persistent => BufferAvailable)
BY BufferIsFree DEF BufferAvailable

\* Buffers, windows and history together in every reachable state.
LEMMA BuffersInvariant == Spec => [](HInv /\ Buffers /\ Room)
<1>1. HInv /\ Backlog /\ Buffers /\ Room /\ [Next]_vars => Buffers' /\ Room'
    BY BuffersStep, RoomStep
<1>2. Spec => []Backlog
  <2>1. Init => Backlog
    BY DEF Init, initialize_sst_row, Backlog, Findable, OnDisk
  <2>2. CInv /\ Backlog /\ [Next]_vars => Backlog'
    BY BacklogStep
  <2> QED
    BY <2>1, <2>2, ColumnsInvariant, PTL DEF Spec
<1> QED
    BY <1>1, <1>2, HistoryCorrect, BuffersInit, RoomInit, PTL DEF Spec

\* Every one of the WindowSize * N buffers is free or in exactly one place.
THEOREM BufferSafety == Spec => []BuffersConserved
<1>1. Buffers => BuffersConserved
    BY DEF Buffers, Balanced, BuffersConserved, Filled
<1> QED
    BY <1>1, BuffersInvariant, PTL

\* derecho_group_impl.h:374: in a group without a file name receive_destination
\* always finds a free buffer.
THEOREM BufferAvailability == Spec => [](~ Persistent => BufferAvailable)
BY BuffersInvariant, BuffersSuffice, PTL

=============================================================================
