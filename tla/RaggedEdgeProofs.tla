---------------------------- MODULE RaggedEdgeProofs ----------------------------
(***************************************************************************)
(* Virtual synchrony at the end of a view without failures: what the       *)
(* leader accepts is final, every member delivers all of it, and nothing   *)
(* that any member had delivered is missing anywhere; for any number of    *)
(* members, any window and any bounds, with or without persistence.        *)
(***************************************************************************)
EXTENDS RaggedEdge, DerechoGroupAtomicProofs

(***************************************************************************)
(* The inductive invariant.                                                *)
(***************************************************************************)
\* Who is seen as wedged has destroyed its RDMC groups.
WedgedIsFinal ==
    \A i, j \in Rank : wedged[i][j] => wedge_state[j] = "destroyed"

\* Who announces globalMin has done its cleanup.
ReadyIsCleaned ==
    \A i, j \in Rank : globalMinReady[i][j] => j \in cleaned

\* Until the leader's cleanup the group is the atomic multicast of its view.
ViewGoesOn ==
    /\ HInv /\ Backlog /\ Buffers /\ Room
    /\ \A i \in Rank : kept[i] = <<>>

\* u is the upcall for a message that was sent and accepted.
OfAccepted(u, accepted) ==
    /\ IsSent(u.sender_rank, u.body)
    /\ u.index = u.body
    /\ u.index <= accepted[u.sender_rank]

\* Member i has not done its cleanup.  It has delivered accepted messages only,
\* and it still has everything it has counted.
BeforeCleanup(i, accepted) ==
    /\ kept[i] = <<>>
    /\ IsFiniteSet(Filled(i))
    /\ \A n \in 1 .. Len(delivered[i]) : OfAccepted(delivered[i][n], accepted)
    /\ \A e \in locally_stable_messages[i] :
           /\ delivered_num[i][i] < e.seq
           /\ e.msg.size # 0 <=> IsSent(e.msg.sender_rank, e.msg.body)
    /\ \A k \in Rank : \A n \in 1 .. Len(sent[k]) : sent[k][n] <= nReceived[i][k] =>
           Given(i, k, sent[k][n]) \/ Waiting(i, k, sent[k][n])

\* The upcall for message b of member k.
TheUpcall(k, b) == [sender_rank |-> k, index |-> b, body |-> b]

\* All accepted messages that were sent are delivered; those that wait are not
\* accepted.
AllDelivered(i, accepted) ==
    /\ \A e \in locally_stable_messages[i] :
           e.msg.index > accepted[e.msg.sender_rank]
    /\ \A k \in Rank : \A n \in 1 .. Len(sent[k]) : sent[k][n] <= accepted[k] =>
           \E m \in 1 .. Len(delivered[i]) : delivered[i][m] = TheUpcall(k, sent[k][n])

\* Member i has done its cleanup.
AfterCleanup(i, accepted) ==
    /\ globalMin[i] = accepted
    /\ \A n \in 1 .. Len(kept[i]) : OfAccepted(kept[i][n], accepted)
    /\ AllDelivered(i, accepted)

IsMinimum(accepted) == \A k \in Rank : MinReceived(k, accepted[k])

\* From then on nobody sends, receives or delivers, but for the cleanup.
ViewEnds ==
    /\ Leader \in cleaned
    /\ \A j \in Rank : wedge_state[j] = "destroyed"
    /\ IsMinimum(globalMin[Leader])
    /\ \A i \in cleaned : AfterCleanup(i, globalMin[Leader])
    /\ \A i \in Rank \ cleaned : BeforeCleanup(i, globalMin[Leader])

EInv ==
    /\ EdgeTypeOK
    /\ SeqNumCorrect
    /\ NumberingAgrees
    /\ WedgedIsFinal
    /\ ReadyIsCleaned
    /\ cleaned = {} => ViewGoesOn
    /\ cleaned # {} => ViewEnds

(***************************************************************************)
(* The cleanup of one member.                                              *)
(***************************************************************************)
\* An arrangement of a finite set goes through all of it.
LEMMA Arrangement ==
    ASSUME NEW S, IsFiniteSet(S), NEW b \in SetToSeqs(S)
    PROVE  /\ b \in Seq(S)
           /\ Len(b) \in Nat /\ DOMAIN b = 1 .. Len(b)
           /\ Range(b) = S
<1> DEFINE D == 1 .. Cardinality(S)
<1>1. Cardinality(S) \in Nat
    BY FS_CardinalityType
<1>2. b \in [D -> S] /\ \A i, j \in D : i # j => b[i] # b[j]
    BY DEF SetToSeqs
<1>3. b \in Injection(D, S)
    BY <1>2 DEF Injection, IsInjective
<1>4. Cardinality(D) = Cardinality(S)
  <2>1. Cardinality(1 .. Cardinality(S)) =
            IF 1 > Cardinality(S) THEN 0 ELSE Cardinality(S) - 1 + 1
    BY <1>1, FS_Interval
  <2> QED
    BY <1>1, <2>1
<1>5. b \in Surjection(D, S)
  <2> HIDE DEF D
  <2> QED
    BY <1>3, <1>4, FS_Injection
<1>6. Range(b) = S
    BY <1>2, <1>5 DEF Surjection, Range
<1>7. b \in Seq(S)
    BY <1>1, <1>2
<1> QED
    BY <1>6, <1>7, LenProperties

\* The messages with content that deliver_messages_upto delivers.
Content(i, accepted) == {e \in Due(i, accepted) : e.msg.size > 0}

\* What deliver_messages_upto does with them.
Batched(i, accepted, batch) ==
    /\ Range(batch) = Content(i, accepted)
    /\ DOMAIN batch = 1 .. Len(batch)
    /\ delivered' = [delivered EXCEPT ![i] =
           @ \o [n \in DOMAIN batch |-> UpcallOf(batch[n].msg)]]
    /\ \/ /\ non_persistent_messages' =
                 [non_persistent_messages EXCEPT ![i] = @ \cup Range(batch)]
          /\ writes' = [writes EXCEPT ![i] =
                 @ \o [n \in DOMAIN batch |-> batch[n].seq]]
          /\ UNCHANGED free_message_buffers
       \/ /\ free_message_buffers' =
                 [free_message_buffers EXCEPT ![i] = @ + Len(batch)]
          /\ UNCHANGED <<non_persistent_messages, writes>>

LEMMA CleanupIs ==
    ASSUME TypeOK, NEW i \in Rank, NEW accepted, IsFiniteSet(Filled(i)),
           deliver_messages_upto(i, accepted)
    PROVE  \E batch \in Seq(Entry) : Batched(i, accepted, batch)
<1> DEFINE S == Content(i, accepted)
<1>1. S \subseteq Filled(i) /\ S \subseteq Entry
    BY DEF Content, Due, Filled, TypeOK
<1>2. IsFiniteSet(S)
  <2> HIDE DEF S
  <2> QED
    BY <1>1, FS_Subset
<1>3. PICK batch \in SetToSeqs(S) :
          /\ delivered' = [delivered EXCEPT ![i] =
                 @ \o [n \in DOMAIN batch |-> UpcallOf(batch[n].msg)]]
          /\ \/ /\ non_persistent_messages' =
                       [non_persistent_messages EXCEPT ![i] = @ \cup Range(batch)]
                /\ writes' = [writes EXCEPT ![i] =
                       @ \o [n \in DOMAIN batch |-> batch[n].seq]]
                /\ UNCHANGED free_message_buffers
             \/ /\ free_message_buffers' =
                       [free_message_buffers EXCEPT ![i] = @ + Len(batch)]
                /\ UNCHANGED <<non_persistent_messages, writes>>
    BY DEF deliver_messages_upto, Content
<1> HIDE DEF S
<1>4. batch \in Seq(S) /\ DOMAIN batch = 1 .. Len(batch) /\ Range(batch) = S
    BY <1>2, Arrangement
<1>5. batch \in Seq(Entry)
    BY <1>1, <1>4, SeqMonotonic
<1> QED
    BY <1>3, <1>4, <1>5 DEF S, Batched

\* The cleanup keeps the types, and the numbers of the messages.
LEMMA CleanupTypes ==
    ASSUME TypeOK, NumberingAgrees, NEW i \in Rank, NEW accepted,
           IsFiniteSet(Filled(i)), deliver_messages_upto(i, accepted)
    PROVE  TypeOK' /\ NumberingAgrees'
<1>0. PICK batch \in Seq(Entry) : Batched(i, accepted, batch)
    BY CleanupIs
<1>1. /\ Range(batch) = Content(i, accepted)
      /\ DOMAIN batch = 1 .. Len(batch)
      /\ delivered' = [delivered EXCEPT ![i] =
             @ \o [n \in DOMAIN batch |-> UpcallOf(batch[n].msg)]]
      /\ \/ /\ non_persistent_messages' =
                   [non_persistent_messages EXCEPT ![i] = @ \cup Range(batch)]
            /\ writes' = [writes EXCEPT ![i] =
                   @ \o [n \in DOMAIN batch |-> batch[n].seq]]
            /\ UNCHANGED free_message_buffers
         \/ /\ free_message_buffers' =
                   [free_message_buffers EXCEPT ![i] = @ + Len(batch)]
            /\ UNCHANGED <<non_persistent_messages, writes>>
    BY <1>0 DEF Batched
<1>2. /\ locally_stable_messages' =
             [locally_stable_messages EXCEPT ![i] = @ \ Due(i, accepted)]
      /\ UNCHANGED <<sstVars, sendVars, current_receives, wedge_state, inflight, sent>>
    BY DEF deliver_messages_upto
<1>3. Len(batch) \in Nat
    BY <1>1, LenProperties
<1> DEFINE ups == [n \in DOMAIN batch |-> UpcallOf(batch[n].msg)]
<1>4. \A n \in 1 .. Len(batch) :
          /\ batch[n] \in Content(i, accepted) /\ batch[n] \in locally_stable_messages[i]
          /\ batch[n].seq \in Nat /\ batch[n].msg \in Message
          /\ UpcallOf(batch[n].msg) \in Upcall
          /\ batch[n].msg.index = batch[n].msg.body
  <2> TAKE n \in 1 .. Len(batch)
  <2>1. batch[n] \in Content(i, accepted) /\ batch[n] \in locally_stable_messages[i]
    BY <1>1 DEF Range, Content, Due
  <2>2. batch[n] \in Entry
    BY <2>1 DEF TypeOK
  <2>3. batch[n].msg \in Message /\ batch[n].seq \in Nat
    BY <2>2 DEF Entry
  <2>4. UpcallOf(batch[n].msg) \in Upcall
    BY <2>3 DEF UpcallOf, Upcall, Message
  <2>5. batch[n].msg.index = batch[n].msg.body
    BY <2>1 DEF NumberingAgrees
  <2> QED
    BY <2>1, <2>3, <2>4, <2>5
<1>5. ups \in Seq(Upcall) /\ Len(ups) = Len(batch)
      /\ \A n \in 1 .. Len(batch) : ups[n] = UpcallOf(batch[n].msg)
    BY <1>1, <1>3, <1>4
<1>6. [n \in DOMAIN batch |-> batch[n].seq] \in Seq(Nat)
    BY <1>1, <1>3, <1>4
<1>7. delivered[i] \in Seq(Upcall) /\ writes[i] \in Seq(Nat)
    BY DEF TypeOK
<1> HIDE DEF ups
<1>8. delivered' = [delivered EXCEPT ![i] = @ \o ups]
    BY <1>1 DEF ups
<1>9. delivered[i] \o ups \in Seq(Upcall)
    BY <1>5, <1>7, ConcatProperties
<1>10. delivered' \in [Rank -> Seq(Upcall)]
    BY <1>8, <1>9 DEF TypeOK
<1>11. writes' \in [Rank -> Seq(Nat)]
  <2>1. writes[i] \o [n \in DOMAIN batch |-> batch[n].seq] \in Seq(Nat)
    BY <1>6, <1>7, ConcatProperties
  <2>2. CASE UNCHANGED writes
    BY <2>2 DEF TypeOK
  <2>3. CASE writes' = [writes EXCEPT ![i] = @ \o [n \in DOMAIN batch |-> batch[n].seq]]
    BY <2>1, <2>3 DEF TypeOK
  <2> QED
    BY <1>1, <2>2, <2>3
<1>12. non_persistent_messages' \in [Rank -> SUBSET Entry]
  <2>1. CASE UNCHANGED non_persistent_messages
    BY <2>1 DEF TypeOK
  <2>2. CASE non_persistent_messages' =
                 [non_persistent_messages EXCEPT ![i] = @ \cup Range(batch)]
    <3>1. Range(batch) \subseteq Entry
      BY <1>1 DEF Content, Due, TypeOK
    <3> QED
      BY <2>2, <3>1 DEF TypeOK
  <2> QED
    BY <1>1, <2>1, <2>2
<1>13. free_message_buffers' \in [Rank -> Nat]
  <2>1. CASE UNCHANGED free_message_buffers
    BY <2>1 DEF TypeOK
  <2>2. CASE free_message_buffers' =
                 [free_message_buffers EXCEPT ![i] = @ + Len(batch)]
    BY <1>3, <2>2 DEF TypeOK
  <2> QED
    BY <1>1, <2>1, <2>2
<1>14. locally_stable_messages' \in [Rank -> SUBSET Entry]
    BY <1>2 DEF TypeOK
<1>15. TypeOK'
    BY <1>2, <1>10, <1>11, <1>12, <1>13, <1>14 DEF TypeOK, sstVars, sendVars
<1>16. ASSUME NEW j \in Rank, NEW n \in 1 .. Len(delivered'[j])
       PROVE  delivered'[j][n].index = delivered'[j][n].body
  <2>1. CASE j # i
    <3>1. delivered'[j] = delivered[j]
      BY <1>8, <2>1 DEF TypeOK
    <3> QED
      BY <1>16, <3>1 DEF NumberingAgrees
  <2>2. CASE j = i
    <3>1. delivered'[i] = delivered[i] \o ups
      BY <1>8 DEF TypeOK
    <3>2. /\ Len(delivered'[i]) = Len(delivered[i]) + Len(batch)
          /\ Len(delivered[i]) \in Nat
          /\ delivered'[i][n] = IF n <= Len(delivered[i]) THEN delivered[i][n]
                                ELSE ups[n - Len(delivered[i])]
      <4>0. ups \in Seq(Upcall) /\ delivered[i] \in Seq(Upcall)
        BY <1>5, <1>7
      <4>1. /\ Len(delivered[i] \o ups) = Len(delivered[i]) + Len(ups)
            /\ \A m \in 1 .. Len(delivered[i]) + Len(ups) : (delivered[i] \o ups)[m] =
                   IF m <= Len(delivered[i]) THEN delivered[i][m]
                   ELSE ups[m - Len(delivered[i])]
        BY <4>0, ConcatProperties
      <4> QED
        BY <1>5, <1>7, <1>16, <2>2, <3>1, <4>1, LenProperties
    <3>3. CASE n <= Len(delivered[i])
      BY <1>16, <2>2, <3>2, <3>3 DEF NumberingAgrees
    <3>4. CASE ~ n <= Len(delivered[i])
      <4>1. PICK m \in 1 .. Len(batch) : delivered'[i][n] = UpcallOf(batch[m].msg)
        <5>1. n - Len(delivered[i]) \in 1 .. Len(batch)
          BY <1>3, <1>16, <2>2, <3>2, <3>4
        <5>2. delivered'[i][n] = UpcallOf(batch[n - Len(delivered[i])].msg)
          BY <1>5, <3>2, <3>4, <5>1
        <5> QED
          BY <5>1, <5>2
      <4> QED
        BY <1>4, <2>2, <4>1 DEF UpcallOf
    <3> QED
      BY <3>3, <3>4
  <2> QED
    BY <2>1, <2>2
<1>17. ASSUME NEW j \in Rank,
              NEW e \in (current_receives[j] \cup locally_stable_messages[j]
                             \cup non_persistent_messages[j])'
       PROVE  e.msg.index = e.msg.body /\ e.seq = SeqNum(e.msg.sender_rank, e.msg.body)
  <2>1. current_receives'[j] = current_receives[j]
    BY <1>2
  <2>2. locally_stable_messages'[j] \subseteq locally_stable_messages[j]
    BY <1>2 DEF TypeOK
  <2>3. non_persistent_messages'[j] \subseteq
            non_persistent_messages[j] \cup locally_stable_messages[j]
    <3>1. CASE UNCHANGED non_persistent_messages
      BY <3>1
    <3>2. CASE non_persistent_messages' =
                   [non_persistent_messages EXCEPT ![i] = @ \cup Range(batch)]
      <4>1. Range(batch) \subseteq locally_stable_messages[i]
        BY <1>1 DEF Content, Due
      <4> QED
        BY <3>2, <4>1 DEF TypeOK
    <3> QED
      BY <1>1, <3>1, <3>2
  <2>4. e \in current_receives[j] \cup locally_stable_messages[j]
                  \cup non_persistent_messages[j]
    BY <2>1, <2>2, <2>3
  <2> QED
    BY <2>4 DEF NumberingAgrees
<1> QED
    BY <1>15, <1>16, <1>17 DEF NumberingAgrees

\* The cleanup delivers every accepted message that was sent.
LEMMA CleanupDelivers ==
    ASSUME TypeOK, NumberingAgrees, NEW i \in Rank, NEW accepted \in [Rank -> Int],
           IsMinimum(accepted), BeforeCleanup(i, accepted),
           deliver_messages_upto(i, accepted)
    PROVE  AllDelivered(i, accepted)'
<1>0. PICK batch \in Seq(Entry) : Batched(i, accepted, batch)
  <2>1. IsFiniteSet(Filled(i))
    BY DEF BeforeCleanup
  <2> QED
    BY <2>1, CleanupIs
<1>1. /\ Range(batch) = Content(i, accepted)
      /\ DOMAIN batch = 1 .. Len(batch)
      /\ delivered' = [delivered EXCEPT ![i] =
             @ \o [n \in DOMAIN batch |-> UpcallOf(batch[n].msg)]]
    BY <1>0 DEF Batched
<1>2. locally_stable_messages'[i] = locally_stable_messages[i] \ Due(i, accepted)
      /\ UNCHANGED sent
    BY DEF deliver_messages_upto, TypeOK
<1>3. ASSUME NEW e \in locally_stable_messages[i]
      PROVE  /\ e.seq = SeqNum(e.msg.sender_rank, e.msg.body) /\ e.seq \in Int
             /\ e.msg.sender_rank \in Rank /\ e.msg.index \in Int /\ e.msg.size \in {0, 1}
             /\ e.msg.index = e.msg.body
             /\ delivered_num[i][i] < e.seq /\ delivered_num[i][i] \in Int
             /\ e.msg.size # 0 <=> IsSent(e.msg.sender_rank, e.msg.body)
  <2>1. e \in Entry
    BY DEF TypeOK
  <2>2. /\ e.seq \in Int /\ e.msg.sender_rank \in Rank /\ e.msg.index \in Int
        /\ e.msg.size \in {0, 1}
    BY <2>1 DEF Entry, Message
  <2>3. e.msg.index = e.msg.body /\ e.seq = SeqNum(e.msg.sender_rank, e.msg.body)
    BY DEF NumberingAgrees
  <2>4. delivered_num[i][i] \in Int
    BY DEF TypeOK, Number
  <2> QED
    BY <2>2, <2>3, <2>4 DEF BeforeCleanup
\* What is at or below the number of an accepted message is due.
<1>4. ASSUME NEW e \in locally_stable_messages[i],
             e.msg.index <= accepted[e.msg.sender_rank]
      PROVE  e \in Due(i, accepted)
  <2>1. PICK k \in Rank, b \in Int, a \in Int :
            k = e.msg.sender_rank /\ b = e.msg.index /\ a = accepted[k]
    BY <1>3
  <2>2. b <= a
    BY <1>4, <2>1
  <2>3. SeqNum(k, b) <= SeqNum(k, a)
    BY <2>2, SeqNumMonotone
  <2>4. e.seq <= SeqNum(k, accepted[k])
    BY <1>3, <2>1, <2>3
  <2>5. delivered_num[i][i] <= e.seq
    BY <1>3
  <2> QED
    BY <2>4, <2>5 DEF Due, UpToLargest
<1>5. \A e \in locally_stable_messages'[i] : e.msg.index > accepted[e.msg.sender_rank]
    BY <1>2, <1>3, <1>4
<1>6. /\ Len(batch) \in Nat
      /\ Len(delivered[i]) \in Nat /\ Len(delivered'[i]) = Len(delivered[i]) + Len(batch)
      /\ \A n \in 1 .. Len(delivered[i]) : delivered'[i][n] = delivered[i][n]
      /\ \A n \in 1 .. Len(batch) :
             delivered'[i][Len(delivered[i]) + n] = UpcallOf(batch[n].msg)
  <2> DEFINE ups == [n \in DOMAIN batch |-> UpcallOf(batch[n].msg)]
  <2>1. Len(batch) \in Nat
    BY <1>1, LenProperties
  <2>2. ups \in Seq(Upcall) /\ Len(ups) = Len(batch)
        /\ \A n \in 1 .. Len(batch) : ups[n] = UpcallOf(batch[n].msg)
    <3>1. ASSUME NEW n \in 1 .. Len(batch)
          PROVE  UpcallOf(batch[n].msg) \in Upcall
      <4>1. batch[n] \in Entry
        BY ElementOfSeq
      <4> QED
        BY <4>1 DEF UpcallOf, Upcall, Entry, Message
    <3> QED
      BY <1>1, <2>1, <3>1
  <2>3. delivered[i] \in Seq(Upcall)
    BY DEF TypeOK
  <2>4. delivered'[i] = delivered[i] \o ups
    BY <1>1 DEF TypeOK
  <2> HIDE DEF ups
  <2>5. Len(delivered[i] \o ups) = Len(delivered[i]) + Len(ups)
        /\ \A m \in 1 .. Len(delivered[i]) + Len(ups) : (delivered[i] \o ups)[m] =
               IF m <= Len(delivered[i]) THEN delivered[i][m]
               ELSE ups[m - Len(delivered[i])]
    <3>1. ups \in Seq(Upcall)
      BY <2>2
    <3> QED
      BY <2>3, <3>1, ConcatProperties
  <2>6. Len(delivered[i]) \in Nat
    BY <2>3, LenProperties
  <2> QED
    BY <2>1, <2>2, <2>4, <2>5, <2>6
<1>7. ASSUME NEW k \in Rank, NEW n \in 1 .. Len(sent[k]), sent[k][n] <= accepted[k]
      PROVE  \E m \in 1 .. Len(delivered'[i]) :
                 delivered'[i][m] = TheUpcall(k, sent[k][n])
  <2>1. PICK b \in Int : b = sent[k][n]
    BY HistoryType
  <2>2. b <= nReceived[i][k]
    <3>1. accepted[k] \in Int /\ accepted[k] <= nReceived[i][k]
      BY DEF IsMinimum, MinReceived
    <3>2. nReceived[i][k] \in Int
      <4>1. nReceived \in [Rank -> [Rank -> Number]]
        BY DEF TypeOK
      <4> QED
        BY <4>1 DEF Number
    <3> QED
      BY <1>7, <2>1, <3>1, <3>2
  <2>3. Given(i, k, b) \/ Waiting(i, k, b)
    BY <2>1, <2>2 DEF BeforeCleanup
  <2>4. CASE Given(i, k, b)
    <3>1. PICK m \in 1 .. Len(delivered[i]) :
              delivered[i][m].sender_rank = k /\ delivered[i][m].body = b
      BY <2>4 DEF Given
    <3>2. delivered[i][m].index = b
      BY <3>1 DEF NumberingAgrees
    <3>3. delivered[i][m] \in Upcall
      <4>1. delivered[i] \in Seq(Upcall)
        BY DEF TypeOK
      <4> QED
        BY <4>1, ElementOfSeq
    <3>4. delivered[i][m] = TheUpcall(k, b)
      BY <3>1, <3>2, <3>3 DEF Upcall, TheUpcall
    <3>5. m \in 1 .. Len(delivered'[i]) /\ delivered'[i][m] = delivered[i][m]
      BY <1>6
    <3> QED
      BY <2>1, <3>4, <3>5
  <2>5. CASE Waiting(i, k, b)
    <3>1. PICK e \in locally_stable_messages[i] :
              e.msg.sender_rank = k /\ e.msg.body = b
      BY <2>5 DEF Waiting
    <3>2. e \in Due(i, accepted)
      BY <1>3, <1>4, <1>7, <2>1, <3>1
    <3>3. e.msg.size > 0
      <4>1. IsSent(k, b)
        BY <2>1 DEF IsSent
      <4> QED
        BY <1>3, <3>1, <4>1
    <3>4. PICK m \in 1 .. Len(batch) : batch[m] = e
      <4>1. e \in Range(batch)
        BY <1>1, <3>2, <3>3 DEF Content
      <4> QED
        BY <1>1, <4>1 DEF Range
    <3>5. UpcallOf(e.msg) = TheUpcall(k, b)
      BY <1>3, <3>1 DEF UpcallOf, TheUpcall
    <3>6. Len(delivered[i]) + m \in 1 .. Len(delivered'[i])
      <4>1. /\ Len(batch) \in Nat /\ Len(delivered[i]) \in Nat
            /\ Len(delivered'[i]) = Len(delivered[i]) + Len(batch)
        BY <1>6
      <4> QED
        BY <4>1
    <3>7. delivered'[i][Len(delivered[i]) + m] = TheUpcall(k, b)
      BY <1>6, <3>4, <3>5
    <3> QED
      BY <2>1, <3>6, <3>7
  <2> QED
    BY <2>3, <2>4, <2>5
<1> QED
    BY <1>2, <1>5, <1>7 DEF AllDelivered, TheUpcall

\* In the multicast of the view, whatever a member has delivered will be
\* accepted, and whatever it has counted it still has.
LEMMA ReadyForCleanup ==
    ASSUME HInv, Buffers, NumberingAgrees, NEW i \in Rank, kept[i] = <<>>,
           NEW accepted, IsMinimum(accepted)
    PROVE  BeforeCleanup(i, accepted)
<1>1. IsFiniteSet(Filled(i))
    BY DEF Buffers, Places
<1>2. ASSUME NEW n \in 1 .. Len(delivered[i])
      PROVE  OfAccepted(delivered[i][n], accepted)
  <2>1. IsSent(delivered[i][n].sender_rank, delivered[i][n].body)
    BY DEF HInv, History, GivenInOrder
  <2>2. delivered[i][n].index = delivered[i][n].body
    BY DEF NumberingAgrees
  <2>3. delivered[i][n].sender_rank \in Rank
    BY HistoryType DEF HInv, CInv, OInv, IInv
  <2>4. PICK j \in Rank : accepted[delivered[i][n].sender_rank] =
                              nReceived[j][delivered[i][n].sender_rank]
    BY <2>3 DEF IsMinimum, MinReceived
  <2>5. delivered[i][n].index <= nReceived[j][delivered[i][n].sender_rank]
    BY DEF HInv, CInv, OInv, IInv, Promises, DeliveredIsReceived
  <2> QED
    BY <2>1, <2>2, <2>4, <2>5 DEF OfAccepted
<1>3. \A e \in locally_stable_messages[i] :
          /\ delivered_num[i][i] < e.seq
          /\ e.msg.size # 0 <=> IsSent(e.msg.sender_rank, e.msg.body)
    BY DEF HInv, CInv, Columns, Undelivered, History, ContentIsSent
<1>4. \A k \in Rank : \A n \in 1 .. Len(sent[k]) : sent[k][n] <= nReceived[i][k] =>
          Given(i, k, sent[k][n]) \/ Waiting(i, k, sent[k][n])
    BY DEF HInv, History, CountedIsKept
<1> QED
    BY <1>1, <1>2, <1>3, <1>4 DEF BeforeCleanup

(***************************************************************************)
(* What can still happen when all members have destroyed their groups.     *)
(***************************************************************************)
\* Rows and copies of rows go on to arrive, and the FileWriter to write.
LEMMA Frozen ==
    ASSUME TypeOK, [Next]_vars, \A j \in Rank : wedge_state[j] = "destroyed"
    PROVE  /\ UNCHANGED <<nReceived, locally_stable_messages, current_receives,
                          delivered, sent, wedge_state>>
           /\ \A i \in Rank : /\ delivered_num'[i][i] = delivered_num[i][i]
                              /\ seq_num'[i][i] = seq_num[i][i]
                              /\ non_persistent_messages'[i] \subseteq
                                     non_persistent_messages[i]
<1>1. ASSUME NEW i \in Rank, NEW turns \in 0 .. MaxPause, GetPosition(i, turns)
      PROVE  FALSE
    BY <1>1 DEF GetPosition, thread_shutdown
<1>2. ASSUME NEW i \in Rank, Send(i) \/ SenderStep(i)
      PROVE  FALSE
    BY <1>2 DEF Send, SenderStep, thread_shutdown
<1>3. ASSUME NEW i \in Rank, NEW k \in Rank, RdmcIncoming(i, k) \/ RdmcReceive(i, k)
      PROVE  FALSE
    BY <1>3 DEF RdmcIncoming, IncomingAt, RdmcReceive, rdmc_groups_open
<1>4. ASSUME NEW i \in Rank, OwnReceive(i)
      PROVE  FALSE
    BY <1>4 DEF OwnReceive, rdmc_groups_open
<1>5. ASSUME NEW i \in Rank, StabilityTrig(i) \/ DeliveryTrig(i)
      PROVE  FALSE
    BY <1>5 DEF StabilityTrig, DeliveryTrig, predicates_registered
<1>6. ASSUME NEW i \in Rank, Wedge(i)
      PROVE  FALSE
    BY <1>6 DEF Wedge, WedgeStep
<1>7. CASE UNCHANGED vars
    BY <1>7 DEF vars, sstVars, messageVars
<1>8. ASSUME NEW i \in Rank, FileWritten(i)
      PROVE  /\ UNCHANGED <<nReceived, locally_stable_messages, current_receives,
                            delivered, sent, wedge_state, delivered_num, seq_num>>
             /\ \A j \in Rank : non_persistent_messages'[j] \subseteq
                                    non_persistent_messages[j]
  <2>1. PICK e \in non_persistent_messages[i] :
            non_persistent_messages' = [non_persistent_messages EXCEPT ![i] = @ \ {e}]
    BY <1>8 DEF FileWritten
  <2> QED
    BY <1>8, <2>1 DEF FileWritten, TypeOK
<1>9. ASSUME NEW i \in Rank, NEW j \in Rank,
             \/ SeqNumArrives(i, j) \/ StableNumArrives(i, j)
             \/ DeliveredNumArrives(i, j) \/ PersistedNumArrives(i, j)
      PROVE  /\ UNCHANGED <<nReceived, messageVars, delivered, sent, wedge_state>>
             /\ \A a \in Rank : /\ delivered_num'[a][a] = delivered_num[a][a]
                                /\ seq_num'[a][a] = seq_num[a][a]
  <2>1. CASE SeqNumArrives(i, j)
    BY <2>1 DEF SeqNumArrives, Copied, TypeOK
  <2>2. CASE StableNumArrives(i, j) \/ PersistedNumArrives(i, j)
    BY <2>2 DEF StableNumArrives, PersistedNumArrives
  <2>3. CASE DeliveredNumArrives(i, j)
    BY <2>3 DEF DeliveredNumArrives, Copied, TypeOK
  <2> QED
    BY <1>9, <2>1, <2>2, <2>3
<1> QED
    BY <1>1, <1>2, <1>3, <1>4, <1>5, <1>6, <1>7, <1>8, <1>9 DEF Next, messageVars

\* What a member still has to do, or has done, does not change by itself.
LEMMA EndsKept ==
    ASSUME ViewEnds,
           UNCHANGED <<nReceived, locally_stable_messages, delivered, sent, wedge_state,
                       globalMin, cleaned, kept>>,
           \A i \in Rank : delivered_num'[i][i] = delivered_num[i][i]
    PROVE  ViewEnds'
<1>1. IsMinimum(globalMin[Leader])'
    BY DEF ViewEnds, IsMinimum, MinReceived
<1>2. ASSUME NEW i \in cleaned
      PROVE  AfterCleanup(i, globalMin[Leader])'
    BY DEF ViewEnds, AfterCleanup, AllDelivered, OfAccepted, IsSent
<1>3. ASSUME NEW i \in Rank \ cleaned
      PROVE  BeforeCleanup(i, globalMin[Leader])'
  <2>1. Filled(i)' = Filled(i)
    BY DEF Filled
  <2>2. BeforeCleanup(i, globalMin[Leader])
    BY DEF ViewEnds
  <2> QED
    BY <2>1, <2>2 DEF BeforeCleanup, OfAccepted, IsSent, Given, Waiting
<1> QED
    BY <1>1, <1>2, <1>3 DEF ViewEnds

\* Nobody sends or receives: no number is announced, no gap filled.
LEMMA SeqNumFrozen ==
    ASSUME SeqNumCorrect, UNCHANGED nReceived,
           \A i \in Rank : seq_num'[i][i] = seq_num[i][i]
    PROVE  SeqNumCorrect'
BY DEF SeqNumCorrect

LEMMA NumberingFrozen ==
    ASSUME NumberingAgrees,
           UNCHANGED <<locally_stable_messages, current_receives, delivered>>,
           \A i \in Rank : non_persistent_messages'[i] \subseteq non_persistent_messages[i]
    PROVE  NumberingAgrees'
<1>1. ASSUME NEW i \in Rank,
             NEW e \in (current_receives[i] \cup locally_stable_messages[i]
                            \cup non_persistent_messages[i])'
      PROVE  e.msg.index = e.msg.body /\ e.seq = SeqNum(e.msg.sender_rank, e.msg.body)
  <2>1. e \in current_receives[i] \cup locally_stable_messages[i]
                  \cup non_persistent_messages[i]
    OBVIOUS
  <2> QED
    BY <2>1 DEF NumberingAgrees
<1>2. \A i \in Rank : \A n \in 1 .. Len(delivered'[i]) :
          delivered'[i][n].index = delivered'[i][n].body
    BY DEF NumberingAgrees
<1> QED
    BY <1>1, <1>2 DEF NumberingAgrees

(***************************************************************************)
(* The cleanup, for the leader and for the others.                         *)
(***************************************************************************)
\* A member that is asked to accept what every member has received delivers
\* it; nothing changes for the other members.
LEMMA CleanupStep ==
    ASSUME EdgeTypeOK, NumberingAgrees, SeqNumCorrect,
           \A j \in Rank : wedge_state[j] = "destroyed",
           NEW i \in Rank, NEW accepted \in [Rank -> -1 .. MaxIndex],
           IsMinimum(accepted), Cleanup(i, accepted),
           \A j \in Rank \ cleaned : BeforeCleanup(j, accepted),
           \A j \in cleaned : AfterCleanup(j, accepted)
    PROVE  /\ EdgeTypeOK' /\ NumberingAgrees' /\ SeqNumCorrect'
           /\ \A j \in Rank : wedge_state'[j] = "destroyed"
           /\ IsMinimum(accepted)'
           /\ \A j \in cleaned' : AfterCleanup(j, accepted)'
           /\ \A j \in Rank \ cleaned' : BeforeCleanup(j, accepted)'
<1>1. TypeOK /\ i \notin cleaned /\ deliver_messages_upto(i, accepted)
    BY DEF Cleanup, EdgeTypeOK
<1>2. BeforeCleanup(i, accepted)
    BY <1>1
<1>3. TypeOK' /\ NumberingAgrees'
    BY <1>1, <1>2, CleanupTypes DEF BeforeCleanup
<1>4. EdgeTypeOK'
  <2>1. globalMin' \in [Rank -> [Rank -> -1 .. MaxIndex]]
    BY DEF Cleanup, EdgeTypeOK
  <2>2. globalMinReady' \in [Rank -> [Rank -> BOOLEAN]]
    BY DEF Cleanup, EdgeTypeOK
  <2>3. delivered \in [Rank -> Seq(Upcall)]
    BY <1>1 DEF TypeOK
  <2>4. kept' \in [Rank -> Seq(Upcall)]
    BY <2>3 DEF Cleanup, EdgeTypeOK
  <2> QED
    BY <1>3, <2>1, <2>2, <2>4 DEF Cleanup, EdgeTypeOK
<1>5. /\ UNCHANGED <<nReceived, seq_num, delivered_num, wedge_state, sent>>
      /\ cleaned' = cleaned \cup {i}
      /\ \A j \in Rank \ {i} :
             /\ globalMin'[j] = globalMin[j] /\ kept'[j] = kept[j]
             /\ delivered'[j] = delivered[j]
             /\ locally_stable_messages'[j] = locally_stable_messages[j]
      /\ globalMin'[i] = accepted /\ kept'[i] = delivered[i]
  <2>1. UNCHANGED <<nReceived, seq_num, delivered_num, wedge_state, sent>>
    BY <1>1 DEF deliver_messages_upto, sstVars
  <2>2. \A j \in Rank \ {i} :
             /\ delivered'[j] = delivered[j]
             /\ locally_stable_messages'[j] = locally_stable_messages[j]
    BY <1>1 DEF deliver_messages_upto, TypeOK
  <2>3. /\ \A j \in Rank \ {i} : globalMin'[j] = globalMin[j] /\ kept'[j] = kept[j]
        /\ globalMin'[i] = accepted /\ kept'[i] = delivered[i]
        /\ cleaned' = cleaned \cup {i}
    BY DEF Cleanup, EdgeTypeOK
  <2> QED
    BY <2>1, <2>2, <2>3
<1>6. SeqNumCorrect'
    BY <1>5 DEF SeqNumCorrect
<1>7. IsMinimum(accepted)'
    BY <1>5 DEF IsMinimum, MinReceived
<1>8. AfterCleanup(i, accepted)'
  <2>1. accepted \in [Rank -> Int]
    BY BoundsAssumption
  <2>2. AllDelivered(i, accepted)'
    BY <1>1, <1>2, <2>1, CleanupDelivers
  <2>3. (\A n \in 1 .. Len(kept[i]) : OfAccepted(kept[i][n], accepted))'
    <3>1. \A n \in 1 .. Len(delivered[i]) : OfAccepted(delivered[i][n], accepted)
      BY <1>2 DEF BeforeCleanup
    <3>2. kept'[i] = delivered[i] /\ UNCHANGED sent
      BY <1>5
    <3> QED
      BY <3>1, <3>2 DEF OfAccepted, IsSent
  <2>4. globalMin'[i] = accepted
    BY <1>5
  <2> QED
    BY <2>2, <2>3, <2>4 DEF AfterCleanup
<1>9. ASSUME NEW j \in cleaned
      PROVE  AfterCleanup(j, accepted)'
  <2>1. j \in Rank \ {i} /\ AfterCleanup(j, accepted)
    BY <1>1 DEF EdgeTypeOK
  <2>2. /\ globalMin'[j] = globalMin[j] /\ kept'[j] = kept[j] /\ UNCHANGED sent
        /\ delivered'[j] = delivered[j]
        /\ locally_stable_messages'[j] = locally_stable_messages[j]
    BY <1>5, <2>1
  <2>3. (\A n \in 1 .. Len(kept[j]) : OfAccepted(kept[j][n], accepted))'
    BY <2>1, <2>2 DEF AfterCleanup, OfAccepted, IsSent
  <2>4. AllDelivered(j, accepted)'
    BY <2>1, <2>2 DEF AfterCleanup, AllDelivered
  <2> QED
    BY <2>1, <2>2, <2>3, <2>4 DEF AfterCleanup
<1>10. ASSUME NEW j \in Rank \ cleaned'
       PROVE  BeforeCleanup(j, accepted)'
  <2>1. j \in Rank \ {i} /\ BeforeCleanup(j, accepted)
    BY <1>5
  <2>2. /\ kept'[j] = kept[j] /\ UNCHANGED <<sent, delivered_num, nReceived>>
        /\ delivered'[j] = delivered[j]
        /\ locally_stable_messages'[j] = locally_stable_messages[j]
    BY <1>5, <2>1
  <2>3. Filled(j)' = Filled(j)
    BY <2>2 DEF Filled
  <2>4. (\A n \in 1 .. Len(delivered[j]) : OfAccepted(delivered[j][n], accepted))'
    BY <2>1, <2>2 DEF BeforeCleanup, OfAccepted, IsSent
  <2>5. (\A e \in locally_stable_messages[j] :
             /\ delivered_num[j][j] < e.seq
             /\ e.msg.size # 0 <=> IsSent(e.msg.sender_rank, e.msg.body))'
    BY <2>1, <2>2 DEF BeforeCleanup, IsSent
  <2>6. (\A k \in Rank : \A n \in 1 .. Len(sent[k]) : sent[k][n] <= nReceived[j][k] =>
             Given(j, k, sent[k][n]) \/ Waiting(j, k, sent[k][n]))'
    BY <2>1, <2>2 DEF BeforeCleanup, Given, Waiting
  <2> QED
    BY <2>1, <2>2, <2>3, <2>4, <2>5, <2>6 DEF BeforeCleanup
<1> QED
    BY <1>3, <1>4, <1>5, <1>6, <1>7, <1>8, <1>9, <1>10

\* The leader's announcement is what has been accepted.
LEMMA EndsWith ==
    ASSUME NEW accepted, globalMin'[Leader] = accepted, Leader \in cleaned',
           \A j \in Rank : wedge_state'[j] = "destroyed",
           IsMinimum(accepted)',
           \A j \in cleaned' : AfterCleanup(j, accepted)',
           \A j \in Rank \ cleaned' : BeforeCleanup(j, accepted)'
    PROVE  ViewEnds'
<1>1. IsMinimum(globalMin[Leader])'
    BY DEF IsMinimum, MinReceived
<1>2. ASSUME NEW j \in cleaned'
      PROVE  AfterCleanup(j, globalMin[Leader])'
  <2>1. AfterCleanup(j, accepted)'
    OBVIOUS
  <2> QED
    BY <2>1 DEF AfterCleanup, AllDelivered, OfAccepted
<1>3. ASSUME NEW j \in Rank \ cleaned'
      PROVE  BeforeCleanup(j, globalMin[Leader])'
  <2>1. BeforeCleanup(j, accepted)'
    OBVIOUS
  <2> QED
    BY <2>1 DEF BeforeCleanup, OfAccepted
<1> QED
    BY <1>1, <1>2, <1>3 DEF ViewEnds

\* The leader's cleanup ends the view.
LEMMA LeaderCleanupStep ==
    ASSUME EInv, leader_ragged_edge_cleanup
    PROVE  EInv'
<1>1. Leader \in Rank
    BY NAssumption DEF Leader, Rank
<1>2. PICK accepted \in [Rank -> -1 .. MaxIndex] :
          (\A k \in Rank : MinReceived(k, accepted[k])) /\ Cleanup(Leader, accepted)
    BY DEF leader_ragged_edge_cleanup
<1>3. cleaned = {} /\ ViewGoesOn
    BY <1>2 DEF EInv, ViewEnds, Cleanup
<1>4. \A j \in Rank : wedge_state[j] = "destroyed"
    BY <1>1 DEF leader_ragged_edge_cleanup, is_meta_wedged, EInv, WedgedIsFinal
<1>5. IsMinimum(accepted)
    BY <1>2 DEF IsMinimum
<1>6. EdgeTypeOK /\ NumberingAgrees /\ SeqNumCorrect
    BY DEF EInv
<1>7. \A j \in Rank : BeforeCleanup(j, accepted)
    BY <1>3, <1>5, <1>6, ReadyForCleanup DEF ViewGoesOn
<1>8. /\ EdgeTypeOK' /\ NumberingAgrees' /\ SeqNumCorrect'
      /\ \A j \in Rank : wedge_state'[j] = "destroyed"
      /\ IsMinimum(accepted)'
      /\ \A j \in cleaned' : AfterCleanup(j, accepted)'
      /\ \A j \in Rank \ cleaned' : BeforeCleanup(j, accepted)'
    BY <1>1, <1>2, <1>3, <1>4, <1>5, <1>6, <1>7, CleanupStep
<1>9. /\ globalMin'[Leader] = accepted /\ cleaned' = cleaned \cup {Leader}
      /\ globalMinReady' = [globalMinReady EXCEPT ![Leader][Leader] = TRUE]
      /\ UNCHANGED wedged
    BY <1>1, <1>2, <1>6 DEF Cleanup, EdgeTypeOK
<1>10. ViewEnds'
    BY <1>8, <1>9, EndsWith
<1>11. WedgedIsFinal'
    BY <1>8 DEF WedgedIsFinal
<1>12. ReadyIsCleaned'
    BY <1>9, <1>6 DEF EInv, ReadyIsCleaned, EdgeTypeOK
<1> QED
    BY <1>8, <1>9, <1>10, <1>11, <1>12 DEF EInv

\* The others accept what the leader has announced.
LEMMA FollowerCleanupStep ==
    ASSUME EInv, NEW i \in Rank, follower_ragged_edge_cleanup(i)
    PROVE  EInv'
<1>1. Leader \in Rank /\ i # Leader /\ Cleanup(i, globalMin[Leader])
    BY NAssumption DEF Leader, Rank, follower_ragged_edge_cleanup
<1>2. Leader \in cleaned /\ ViewEnds
    BY <1>1 DEF follower_ragged_edge_cleanup, EInv, ReadyIsCleaned
<1>3. EdgeTypeOK /\ NumberingAgrees /\ SeqNumCorrect
    BY DEF EInv
<1>4. PICK accepted \in [Rank -> -1 .. MaxIndex] : accepted = globalMin[Leader]
    BY <1>1, <1>3 DEF EdgeTypeOK
<1>5. /\ \A j \in Rank : wedge_state[j] = "destroyed"
      /\ IsMinimum(accepted)
      /\ \A j \in cleaned : AfterCleanup(j, accepted)
      /\ \A j \in Rank \ cleaned : BeforeCleanup(j, accepted)
    BY <1>2, <1>4 DEF ViewEnds
<1>6. /\ EdgeTypeOK' /\ NumberingAgrees' /\ SeqNumCorrect'
      /\ \A j \in Rank : wedge_state'[j] = "destroyed"
      /\ IsMinimum(accepted)'
      /\ \A j \in cleaned' : AfterCleanup(j, accepted)'
      /\ \A j \in Rank \ cleaned' : BeforeCleanup(j, accepted)'
    BY <1>1, <1>3, <1>4, <1>5, CleanupStep
<1>7. /\ globalMin'[Leader] = accepted /\ cleaned' = cleaned \cup {i}
      /\ globalMinReady' = [globalMinReady EXCEPT ![i][i] = TRUE]
      /\ UNCHANGED wedged
    BY <1>1, <1>3, <1>4 DEF Cleanup, EdgeTypeOK
<1>8. ViewEnds'
    BY <1>2, <1>6, <1>7, EndsWith
<1>9. WedgedIsFinal'
    BY <1>6 DEF WedgedIsFinal
<1>10. ReadyIsCleaned'
    BY <1>3, <1>7 DEF EInv, ReadyIsCleaned, EdgeTypeOK
<1> QED
    BY <1>6, <1>7, <1>8, <1>9, <1>10 DEF EInv

(***************************************************************************)
(* The invariant always holds.                                             *)
(***************************************************************************)
\* wedge() is never undone.
LEMMA DestroyedForGood ==
    ASSUME TypeOK, [Next]_vars, NEW j \in Rank, wedge_state[j] = "destroyed"
    PROVE  wedge_state'[j] = "destroyed"
<1>1. ASSUME NEW i \in Rank, Wedge(i)
      PROVE  wedge_state'[j] = "destroyed"
  <2>1. i # j
    BY <1>1 DEF Wedge, WedgeStep
  <2> QED
    BY <1>1, <2>1 DEF Wedge, WedgeStep, TypeOK
<1>2. ASSUME UNCHANGED wedge_state
      PROVE  wedge_state'[j] = "destroyed"
    BY <1>2
<1>3. ASSUME NEW i \in Rank, NEW turns \in 0 .. MaxPause, GetPosition(i, turns)
      PROVE  UNCHANGED wedge_state
    BY <1>3 DEF GetPosition
<1>4. ASSUME NEW i \in Rank, Send(i) \/ SenderStep(i)
      PROVE  UNCHANGED wedge_state
    BY <1>4 DEF Send, SenderStep
<1>5. ASSUME NEW i \in Rank, NEW k \in Rank, RdmcIncoming(i, k) \/ RdmcReceive(i, k)
      PROVE  UNCHANGED wedge_state
    BY <1>5 DEF RdmcIncoming, RdmcReceive
<1>6. ASSUME NEW i \in Rank,
             OwnReceive(i) \/ StabilityTrig(i) \/ DeliveryTrig(i) \/ FileWritten(i)
      PROVE  UNCHANGED wedge_state
    BY <1>6 DEF OwnReceive, StabilityTrig, DeliveryTrig, FileWritten
<1>7. ASSUME NEW i \in Rank, NEW k \in Rank,
             \/ SeqNumArrives(i, k) \/ StableNumArrives(i, k)
             \/ DeliveredNumArrives(i, k) \/ PersistedNumArrives(i, k)
      PROVE  UNCHANGED wedge_state
    BY <1>7 DEF SeqNumArrives, StableNumArrives, DeliveredNumArrives, PersistedNumArrives
<1>8. CASE UNCHANGED vars
    BY <1>2, <1>8 DEF vars
<1> QED
    BY <1>1, <1>2, <1>3, <1>4, <1>5, <1>6, <1>7, <1>8 DEF Next

LEMMA SeqNumIsCorrectNext == IInv' => SeqNumCorrect'
    BY SeqNumIsCorrect, PTL

\* The multicast goes on, or is at rest because the view has ended.
LEMMA GroupGoesOn ==
    ASSUME EInv, [Next]_vars, UNCHANGED edgeVars
    PROVE  EInv'
<1>1. TypeOK /\ TypeOK'
    BY TypeStep DEF EInv, EdgeTypeOK
<1>2. EdgeTypeOK'
    BY <1>1 DEF EInv, EdgeTypeOK, edgeVars
<1>3. WedgedIsFinal' /\ ReadyIsCleaned'
    BY <1>1, DestroyedForGood DEF EInv, WedgedIsFinal, ReadyIsCleaned, edgeVars
<1>4. CASE cleaned = {}
  <2>1. HInv /\ Backlog /\ Buffers /\ Room /\ \A i \in Rank : kept[i] = <<>>
    BY <1>4 DEF EInv, ViewGoesOn
  <2>2. OInv /\ CInv
    BY <2>1 DEF HInv, CInv
  <2>3. OInv'
    BY <2>2, OrderStep
  <2>4. CInv'
    BY <2>2, <2>3, ColumnsStep DEF CInv
  <2>5. HInv'
    BY <2>1, <2>4, HistoryStep DEF HInv
  <2>6. Backlog' /\ Buffers' /\ Room'
    BY <2>1, <2>2, BacklogStep, BuffersStep, RoomStep
  <2>7. SeqNumCorrect'
    BY <2>3, SeqNumIsCorrectNext DEF OInv
  <2>8. NumberingAgrees'
    BY <2>3 DEF OInv, Orderly
  <2>9. UNCHANGED <<kept, cleaned>>
    BY DEF edgeVars
  <2>10. ViewGoesOn'
    BY <2>1, <2>5, <2>6, <2>9 DEF ViewGoesOn
  <2> QED
    BY <1>2, <1>3, <1>4, <2>7, <2>8, <2>9, <2>10 DEF EInv
<1>5. CASE cleaned # {}
  <2>1. ViewEnds /\ SeqNumCorrect /\ NumberingAgrees
    BY <1>5 DEF EInv
  <2>2. \A j \in Rank : wedge_state[j] = "destroyed"
    BY <2>1 DEF ViewEnds
  <2>3. /\ UNCHANGED <<nReceived, locally_stable_messages, current_receives,
                       delivered, sent, wedge_state>>
        /\ \A i \in Rank : /\ delivered_num'[i][i] = delivered_num[i][i]
                           /\ seq_num'[i][i] = seq_num[i][i]
                           /\ non_persistent_messages'[i] \subseteq
                                  non_persistent_messages[i]
    BY <1>1, <2>2, Frozen
  <2>4. UNCHANGED <<globalMin, cleaned, kept>>
    BY DEF edgeVars
  <2>5. ViewEnds'
    BY <2>1, <2>3, <2>4, EndsKept
  <2>6. SeqNumCorrect' /\ NumberingAgrees'
    BY <2>1, <2>3, SeqNumFrozen, NumberingFrozen
  <2> QED
    BY <1>2, <1>3, <1>5, <2>4, <2>5, <2>6 DEF EInv
<1> QED
    BY <1>4, <1>5

\* Only wedged and globalMinReady change.
LEMMA FlagsArrive ==
    ASSUME EInv, UNCHANGED <<vars, globalMin, cleaned, kept>>,
           wedged' \in [Rank -> [Rank -> BOOLEAN]],
           globalMinReady' \in [Rank -> [Rank -> BOOLEAN]],
           WedgedIsFinal', ReadyIsCleaned'
    PROVE  EInv'
<1>1. TypeOK'
    BY TypeStep DEF EInv, EdgeTypeOK
<1>2. EdgeTypeOK'
    BY <1>1 DEF EInv, EdgeTypeOK
<1>3. UNCHANGED <<nReceived, seq_num, delivered_num, locally_stable_messages, sent,
                  current_receives, non_persistent_messages, delivered, wedge_state>>
    BY DEF vars, sstVars, messageVars
<1>4. SeqNumCorrect' /\ NumberingAgrees'
    BY <1>3, SeqNumFrozen, NumberingFrozen DEF EInv
<1>5. CASE cleaned = {}
  <2>1. ViewGoesOn
    BY <1>5 DEF EInv
  <2>2. OInv' /\ Columns' /\ History' /\ Backlog' /\ Buffers' /\ Room'
    BY <2>1, OrderStep, ColumnsStep, HistoryStep, BacklogStep, BuffersStep, RoomStep
       DEF ViewGoesOn, HInv, CInv
  <2>3. ViewGoesOn'
    BY <2>1, <2>2 DEF ViewGoesOn, HInv, CInv
  <2> QED
    BY <1>2, <1>4, <1>5, <2>3 DEF EInv
<1>6. CASE cleaned # {}
  <2>1. ViewEnds'
    BY <1>3, <1>6, EndsKept DEF EInv
  <2> QED
    BY <1>2, <1>4, <1>6, <2>1 DEF EInv
<1> QED
    BY <1>5, <1>6

LEMMA EdgeStep == EInv /\ [EdgeNext]_allVars => EInv'
<1> SUFFICES ASSUME EInv, [EdgeNext]_allVars
             PROVE  EInv'
    OBVIOUS
<1>1. CASE Next /\ UNCHANGED edgeVars
    BY <1>1, GroupGoesOn
<1>2. CASE UNCHANGED allVars
    BY <1>2, GroupGoesOn DEF allVars
<1>3. CASE leader_ragged_edge_cleanup
    BY <1>3, LeaderCleanupStep
<1>4. ASSUME NEW i \in Rank, follower_ragged_edge_cleanup(i)
      PROVE  EInv'
    BY <1>4, FollowerCleanupStep
<1>5. ASSUME NEW i \in Rank, NEW j \in Rank,
             (i = j /\ ViewWedge(i)) \/ WedgedArrives(i, j)
      PROVE  EInv'
  <2>1. /\ wedged' = [wedged EXCEPT ![i][j] = TRUE]
        /\ UNCHANGED <<vars, globalMin, globalMinReady, cleaned, kept>>
    BY <1>5 DEF ViewWedge, WedgedArrives
  <2>2. wedge_state[j] = "destroyed"
    BY <1>5 DEF ViewWedge, WedgedArrives, EInv, WedgedIsFinal
  <2>3. wedged' \in [Rank -> [Rank -> BOOLEAN]]
    BY <2>1 DEF EInv, EdgeTypeOK
  <2>4. WedgedIsFinal'
    BY <2>1, <2>2 DEF EInv, EdgeTypeOK, WedgedIsFinal, vars
  <2>5. ReadyIsCleaned' /\ globalMinReady' \in [Rank -> [Rank -> BOOLEAN]]
    BY <2>1 DEF EInv, EdgeTypeOK, ReadyIsCleaned
  <2> QED
    BY <2>1, <2>3, <2>4, <2>5, FlagsArrive
<1>6. ASSUME NEW i \in Rank, NEW j \in Rank, GlobalMinReadyArrives(i, j)
      PROVE  EInv'
  <2>1. /\ globalMinReady' = [globalMinReady EXCEPT ![i][j] = TRUE]
        /\ UNCHANGED <<vars, wedged, globalMin, cleaned, kept>>
    BY <1>6 DEF GlobalMinReadyArrives
  <2>2. j \in cleaned
    BY <1>6 DEF GlobalMinReadyArrives, EInv, ReadyIsCleaned
  <2>3. globalMinReady' \in [Rank -> [Rank -> BOOLEAN]]
    BY <2>1 DEF EInv, EdgeTypeOK
  <2>4. ReadyIsCleaned'
    BY <2>1, <2>2 DEF EInv, EdgeTypeOK, ReadyIsCleaned
  <2>5. WedgedIsFinal' /\ wedged' \in [Rank -> [Rank -> BOOLEAN]]
    BY <2>1 DEF EInv, EdgeTypeOK, WedgedIsFinal, vars
  <2> QED
    BY <2>1, <2>3, <2>4, <2>5, FlagsArrive
<1> QED
    BY <1>1, <1>2, <1>3, <1>4, <1>5, <1>6 DEF EdgeNext

LEMMA EdgeStart == EdgeInit => EInv
<1> SUFFICES ASSUME EdgeInit
             PROVE  EInv
    OBVIOUS
<1>1. HInv /\ Backlog /\ Buffers /\ Room
  <2>1. HInv /\ Buffers /\ Room
    BY HistoryInit, BuffersInit, RoomInit DEF EdgeInit
  <2>2. Backlog
    BY DEF EdgeInit, Init, initialize_sst_row, Backlog, Findable, OnDisk
  <2> QED
    BY <2>1, <2>2
<1>2. ViewGoesOn
    BY <1>1 DEF ViewGoesOn, EdgeInit
<1>3. TypeOK /\ NumberingAgrees /\ IInv
    BY <1>1 DEF HInv, CInv, OInv, IInv, Orderly
<1>4. SeqNumCorrect
    BY <1>3, SeqNumIsCorrect
<1>5. EdgeTypeOK
  <2>1. globalMin \in [Rank -> [Rank -> -1 .. MaxIndex]]
    BY BoundsAssumption DEF EdgeInit
  <2>2. kept \in [Rank -> Seq(Upcall)]
    BY DEF EdgeInit
  <2> QED
    BY <1>3, <2>1, <2>2 DEF EdgeInit, EdgeTypeOK
<1> QED
    BY <1>2, <1>3, <1>4, <1>5 DEF EInv, WedgedIsFinal, ReadyIsCleaned, EdgeInit

\* The invariant of the end of a view: as long as no member has done its
\* cleanup the group is that of DerechoGroup; afterwards it is at rest, and
\* every member has delivered, or can still deliver, all that was accepted.
THEOREM EdgeCorrect == EdgeSpec => []EInv
<1> QED
    BY EdgeStart, EdgeStep, PTL DEF EdgeSpec

\* Every variable keeps its type to the end of the view.
THEOREM EdgeTypeCorrect == EdgeSpec => []EdgeTypeOK
<1>1. EInv => EdgeTypeOK
    BY DEF EInv
<1> QED
    BY <1>1, EdgeCorrect, PTL

\* derecho_row.h:24 and the counting of messages are right to the end.
THEOREM EdgeSeqNumSafety == EdgeSpec => [](SeqNumCorrect /\ NumberingAgrees)
<1>1. EInv => SeqNumCorrect /\ NumberingAgrees
    BY DEF EInv
<1> QED
    BY <1>1, EdgeCorrect, PTL

\* managed_group_impl.h:837-848: the minimum that the leader takes is never
\* invalidated by a member that still counts a message.
THEOREM FinalCounts == EdgeSpec => []CountsAreFinal
<1>1. EInv => CountsAreFinal
  <2> SUFFICES ASSUME EInv, globalMinReady[Leader][Leader]
               PROVE  \A k \in Rank : MinReceived(k, globalMin[Leader][k])
    BY DEF CountsAreFinal
  <2>1. Leader \in Rank
    BY NAssumption DEF Leader, Rank
  <2>2. Leader \in cleaned
    BY <2>1 DEF EInv, ReadyIsCleaned
  <2> QED
    BY <2>2 DEF EInv, ViewEnds, IsMinimum
<1> QED
    BY <1>1, EdgeCorrect, PTL

\* derecho_row.h:70: a member that has done its cleanup has delivered all
\* messages with content that the leader accepted.
THEOREM AcceptedDelivered == EdgeSpec => []AcceptedIsDelivered
<1>1. EInv => AcceptedIsDelivered
  <2> SUFFICES ASSUME EInv, NEW i \in cleaned, NEW e \in locally_stable_messages[i]
               PROVE  e.msg.index > globalMin[i][e.msg.sender_rank]
    BY DEF AcceptedIsDelivered
  <2>1. AfterCleanup(i, globalMin[Leader])
    BY DEF EInv, ViewEnds
  <2> QED
    BY <2>1 DEF AfterCleanup, AllDelivered
<1> QED
    BY <1>1, EdgeCorrect, PTL

\* Virtual synchrony: a message that any member gave to its application before
\* the cleanup is given to the application of every member that survives.
THEOREM VirtualSynchrony == EdgeSpec => []DeliveredSurvives
<1>1. EInv => DeliveredSurvives
  <2> SUFFICES ASSUME EInv, NEW i \in Rank, NEW j \in cleaned, NEW u \in Range(kept[i])
               PROVE  u \in GivenBy(j)
    BY DEF DeliveredSurvives
  <2>1. ViewEnds /\ kept[i] \in Seq(Upcall) /\ delivered[j] \in Seq(Upcall)
    BY DEF EInv, EdgeTypeOK, TypeOK
  <2>2. PICK n \in 1 .. Len(kept[i]) : u = kept[i][n]
    BY <2>1, LenProperties DEF Range
  <2>3. i \in cleaned
    BY <2>1, <2>2 DEF ViewEnds, BeforeCleanup
  <2>4. OfAccepted(u, globalMin[Leader])
    BY <2>1, <2>2, <2>3 DEF ViewEnds, AfterCleanup
  <2>5. u \in Upcall
    BY <2>1, <2>2, ElementOfSeq
  <2>6. PICK k \in Rank, b \in Nat : k = u.sender_rank /\ b = u.body
    BY <2>5 DEF Upcall
  <2>7. u = TheUpcall(k, b) /\ b <= globalMin[Leader][k]
    BY <2>4, <2>5, <2>6 DEF OfAccepted, TheUpcall, Upcall
  <2>8. PICK m \in 1 .. Len(sent[k]) : sent[k][m] = b
    BY <2>4, <2>6 DEF OfAccepted, IsSent
  <2>9. PICK p \in 1 .. Len(delivered[j]) : delivered[j][p] = u
    BY <2>1, <2>7, <2>8 DEF ViewEnds, AfterCleanup, AllDelivered
  <2>10. p \in DOMAIN delivered[j]
    BY <2>1, LenProperties
  <2> QED
    BY <2>9, <2>10 DEF GivenBy, Range
<1> QED
    BY <1>1, EdgeCorrect, PTL

\* derecho_group_impl.h:374: in a group without a file name RDMC finds a free
\* buffer to the end of the view; once a member is wedged it no longer asks.
THEOREM EdgeBufferAvailability == EdgeSpec => [](~ Persistent => BufferAvailable)
<1>1. EInv => (~ Persistent => BufferAvailable)
  <2> SUFFICES ASSUME EInv, ~ Persistent
               PROVE  BufferAvailable
    OBVIOUS
  <2>1. CASE cleaned = {}
    BY <2>1, BuffersSuffice DEF EInv, ViewGoesOn
  <2>2. CASE cleaned # {}
    <3>1. \A i, k \in Rank : ~ IncomingAt(i, k)
      BY <2>2 DEF EInv, ViewEnds, IncomingAt, rdmc_groups_open
    <3> QED
      BY <3>1 DEF BufferAvailable
  <2> QED
    BY <2>1, <2>2
<1> QED
    BY <1>1, EdgeCorrect, PTL

=============================================================================
