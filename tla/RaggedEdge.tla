------------------------------- MODULE RaggedEdge -------------------------------
(***************************************************************************)
(* The end of a view: the members wedge the group, the leader computes how *)
(* many messages to accept from each sender, and every member delivers     *)
(* what it still has to (View::wedge in view_impl.h; start_view_change and *)
(* the ragged_edge_cleanup functions in managed_group_impl.h;              *)
(* deliver_messages_upto in derecho_group_impl.h).  It runs on top of      *)
(* DerechoGroup, whose steps go on until a member is wedged.               *)
(*                                                                         *)
(* This is the view change that admits a new member: nobody has failed,    *)
(* the leader is the member of rank 0, and any member may find out at any  *)
(* time that the leader proposed a change.  The leader reads the nReceived *)
(* columns after it has seen wedged in every row; wedged comes after       *)
(* nReceived in the row and is set after the last receive handler, so what *)
(* it reads is final.  In the same way globalMinReady comes after          *)
(* globalMin, so whoever sees it may read the leader's own globalMin.      *)
(***************************************************************************)
EXTENDS DerechoGroup, SequencesExt

VARIABLES
    wedged,          \* [Rank -> [Rank -> BOOLEAN]]: reader, row
    globalMin,       \* [Rank -> [Rank -> Int]]: own row, by sender
    globalMinReady,  \* [Rank -> [Rank -> BOOLEAN]]: reader, row
    cleaned,         \* members that have run ragged_edge_cleanup
    kept             \* history: what each member had delivered before that

edgeVars == <<wedged, globalMin, globalMinReady, cleaned, kept>>

allVars == <<vars, edgeVars>>

Leader == 0

EdgeInit ==
    /\ Init
    /\ wedged = [i \in Rank |-> [j \in Rank |-> FALSE]]
    /\ globalMin = [i \in Rank |-> [k \in Rank |-> 0]]
    /\ globalMinReady = [i \in Rank |-> [j \in Rank |-> FALSE]]
    /\ cleaned = {}
    /\ kept = [i \in Rank |-> <<>>]

-----------------------------------------------------------------------------
(***************************************************************************)
(* View::wedge: when DerechoGroup::wedge() has returned, say so.           *)
(***************************************************************************)
ViewWedge(i) ==
    /\ wedge_state[i] = "destroyed"
    /\ ~ wedged[i][i]
    /\ wedged' = [wedged EXCEPT ![i][i] = TRUE]
    /\ UNCHANGED <<vars, globalMin, globalMinReady, cleaned, kept>>

WedgedArrives(i, j) ==
    /\ wedged[j][j] /\ ~ wedged[i][j]
    /\ wedged' = [wedged EXCEPT ![i][j] = TRUE]
    /\ UNCHANGED <<vars, globalMin, globalMinReady, cleaned, kept>>

GlobalMinReadyArrives(i, j) ==
    /\ globalMinReady[j][j] /\ ~ globalMinReady[i][j]
    /\ globalMinReady' = [globalMinReady EXCEPT ![i][j] = TRUE]
    /\ UNCHANGED <<vars, wedged, globalMin, cleaned, kept>>

\* Wrong: does not wait for the other members.
is_wedged_itself(i) == wedged[i][i]

is_meta_wedged(i) == \A j \in Rank : wedged[i][j]

(***************************************************************************)
(* deliver_messages_upto: the locally stable messages, in order, up to the *)
(* largest sequence number of an accepted message.  delivered_num stays.   *)
(***************************************************************************)
\* Wrong: stops before the last message.
BeforeLargest(i, accepted, seq) ==
    seq < delivered_num[i][i] \/ \E k \in Rank : seq < SeqNum(k, accepted[k])

\* seq <= max_seq_num.
UpToLargest(i, accepted, seq) ==
    seq <= delivered_num[i][i] \/ \E k \in Rank : seq <= SeqNum(k, accepted[k])

Due(i, accepted) ==
    {e \in locally_stable_messages[i] :
        delivered_num[i][i] <= e.seq /\ UpToLargest(i, accepted, e.seq)}

InOrder(batch) ==
    \A n, m \in DOMAIN batch : n < m => batch[n].seq < batch[m].seq

deliver_messages_upto(i, accepted) ==
    LET due == Due(i, accepted)
    IN  /\ locally_stable_messages' = [locally_stable_messages EXCEPT ![i] = @ \ due]
        /\ \E batch \in SetToSeqs({e \in due : e.msg.size > 0}) :
               /\ InOrder(batch)
               /\ delivered' = [delivered EXCEPT ![i] =
                      @ \o [n \in DOMAIN batch |-> UpcallOf(batch[n].msg)]]
               /\ IF Persistent
                  THEN /\ non_persistent_messages' =
                              [non_persistent_messages EXCEPT ![i] = @ \cup Range(batch)]
                       /\ writes' = [writes EXCEPT ![i] =
                              @ \o [n \in DOMAIN batch |-> batch[n].seq]]
                       /\ UNCHANGED free_message_buffers
                  ELSE /\ free_message_buffers' =
                              [free_message_buffers EXCEPT ![i] = @ + Len(batch)]
                       /\ UNCHANGED <<non_persistent_messages, writes>>
        /\ UNCHANGED <<sstVars, sendVars, current_receives, wedge_state, inflight,
                       sent>>

(***************************************************************************)
(* ragged_edge_cleanup.  The leader accepts from each sender what every    *)
(* member has received, announces it and delivers; the others copy what it *)
(* announced, announce it in turn and deliver.                             *)
(***************************************************************************)
Cleanup(i, accepted) ==
    /\ i \notin cleaned
    /\ globalMin' = [globalMin EXCEPT ![i] = accepted]
    /\ globalMinReady' = [globalMinReady EXCEPT ![i][i] = TRUE]
    /\ deliver_messages_upto(i, accepted)
    /\ cleaned' = cleaned \cup {i}
    /\ kept' = [kept EXCEPT ![i] = delivered[i]]
    /\ UNCHANGED wedged

MinReceived(k, min) ==
    /\ \E j \in Rank : min = nReceived[j][k]
    /\ \A j \in Rank : min <= nReceived[j][k]

leader_ragged_edge_cleanup ==
    /\ is_meta_wedged(Leader)
    /\ \E accepted \in [Rank -> -1 .. MaxIndex] :
           /\ \A k \in Rank : MinReceived(k, accepted[k])
           /\ Cleanup(Leader, accepted)

follower_ragged_edge_cleanup(i) ==
    /\ i # Leader
    /\ is_meta_wedged(i)
    /\ globalMinReady[i][Leader]
    /\ Cleanup(i, globalMin[Leader])

EdgeNext ==
    \/ Next /\ UNCHANGED edgeVars
    \/ leader_ragged_edge_cleanup
    \/ \E i \in Rank :
           \/ ViewWedge(i)
           \/ follower_ragged_edge_cleanup(i)
           \/ \E j \in Rank : WedgedArrives(i, j) \/ GlobalMinReadyArrives(i, j)

EdgeSpec == EdgeInit /\ [][EdgeNext]_allVars

-----------------------------------------------------------------------------
\* Every new variable keeps its type.
EdgeTypeOK ==
    /\ TypeOK
    /\ wedged \in [Rank -> [Rank -> BOOLEAN]]
    /\ globalMin \in [Rank -> [Rank -> -1 .. MaxIndex]]
    /\ globalMinReady \in [Rank -> [Rank -> BOOLEAN]]
    /\ cleaned \subseteq Rank
    /\ kept \in [Rank -> Seq(Upcall)]

GivenBy(i) == Range(delivered[i])

\* Virtual synchrony, one half: what any member delivered in the normal way
\* before its cleanup, every member has delivered after its own.
DeliveredSurvives ==
    \A i \in Rank, j \in cleaned : Range(kept[i]) \subseteq GivenBy(j)

\* After its cleanup a member has delivered every message (with content) that
\* the leader accepted, as derecho_row.h:70 asks.
AcceptedIsDelivered ==
    \A i \in cleaned : \A e \in locally_stable_messages[i] :
        e.msg.index > globalMin[i][e.msg.sender_rank]

\* What the leader accepted is final: no member, before or after its own
\* cleanup, still changes a count the leader took the minimum of.
CountsAreFinal ==
    globalMinReady[Leader][Leader] =>
        \A k \in Rank : MinReceived(k, globalMin[Leader][k])

=============================================================================
