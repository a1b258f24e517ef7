------------------------------- MODULE ViewChange -------------------------------
(***************************************************************************)
(* Group membership: the predicates of ManagedGroup (register_predicates   *)
(* in managed_group_impl.h) and the View they change (view_impl.h).  The   *)
(* members of a view share an SST.  Each suspects members it cannot reach; *)
(* the leader, the first member in rank order that has not failed,         *)
(* proposes joins and removals, everybody acknowledges them and stops      *)
(* (wedges) the multicast, the leader commits what all have acknowledged,  *)
(* and every member goes on to the next view once the ragged edge of the   *)
(* old one is settled.  RaggedEdge models that last part in detail.        *)
(*                                                                         *)
(* Of the multicast only the count of received messages of one sender is   *)
(* left here.  An SST row reaches another member as a whole, in the order  *)
(* of its columns; readers test the later columns first.  The ring of      *)
(* proposed changes is a sequence: within the bounds it does not wrap.     *)
(* Nodes crash or leave; only crashed nodes are reported by the SST.  An   *)
(* exception in a predicate's trigger ends the process.  The barrier at    *)
(* the start of a view (the SST's and RDMC's handshakes, sync_with_members)*)
(* is one joint step of the members of the new view; a client copies the   *)
(* leader's row in that step.  Each definition commented "Wrong" is a      *)
(* mistake that a property below catches.                                  *)
(***************************************************************************)
EXTENDS Integers, SequencesExt, FiniteSets

CONSTANTS
    Node,
    NoNode,       \* an entry of the list of changes that is not filled in
    Plans         \* bound: first views, and what may happen to each

\* The members of the first view in rank order, the nodes that may join, leave
\* and crash, and the number of messages of a view.
Plan == [members : Seq(Node), join : SUBSET Node, leave : SUBSET Node,
         crash : SUBSET Node, messages : Nat]

ASSUME NoNodeAssumption == NoNode \notin Node
ASSUME PlansAssumption ==
    \A p \in Plans : p \in Plan /\ p.members # <<>> /\ IsInjective(p.members)

VARIABLES
    plan,             \* the one of Plans that is looked at
    status,           \* what each node is
    curr_view,        \* [Node -> View]
    next_view,        \* [Node -> View], NoView if there is none
    stage,            \* how far the change to next_view has got
    row,              \* [Node -> Row]: a member's own row in its SST
    copy,             \* [Node -> [Node -> Row]]: reader, row
    last_suspected,   \* [Node -> SUBSET Nat]: ranks
    joining_client,   \* [Node -> SUBSET Node]: the socket, an optional
    chosen            \* history: the views that were computed as next_view

vars == <<plan, status, curr_view, next_view, stage, row, copy, last_suspected,
          joining_client, chosen>>

Status == {"out", "joining", "up", "left", "crashed"}

\* stable; waiting for meta-wedged; waiting for the leader's globalMinReady;
\* waiting for the members of the next view.
Stage == {"stable", "meta_wedged", "global_min", "transition"}

\* failed is the set of members marked failed; nFailed is counted separately.
View == [vid : Int, members : Seq(Node), failed : SUBSET Node, nFailed : Int,
         IKnowIAmLeader : BOOLEAN]

Row == [suspected : SUBSET Node, changes : Seq(Node), nCommitted : Nat,
        nAcked : Nat, nReceived : Nat, wedged : BOOLEAN, globalMin : Nat,
        globalMinReady : BOOLEAN]

NoView == [vid |-> -1, members |-> <<>>, failed |-> {}, nFailed |-> 0,
           IKnowIAmLeader |-> FALSE]

rank_of(view, q) == SelectInSeq(view.members, LAMBDA p : p = q)

Members(view) == ToSet(view.members)

num_members(view) == Len(view.members)

\* The members that are not in down, in rank order.
Order(view, down) == SelectSeq(view.members, LAMBDA q : q \notin down)

\* rank_of_leader: the first member that has not failed.
Leads(q, view, down) == Order(view, down) # <<>> /\ Head(Order(view, down)) = q

Leader(i) == Head(Order(curr_view[i], curr_view[i].failed))

IAmLeader(i) == Leader(i) = i

nChanges(r) == Len(r.changes)

ChangeAt(r, c) == IF c <= nChanges(r) THEN r.changes[c] ELSE NoNode

\* Member i's view of row j.
Seen(i, j) == IF j = i THEN row[i] ELSE copy[i][j]

Up(i) == status[i] = "up"

\* init_from_existing: what a row keeps in the next view.
FreshRow(r) ==
    [r EXCEPT !.suspected = {}, !.nReceived = 0, !.wedged = FALSE,
              !.globalMin = 0, !.globalMinReady = FALSE]

-----------------------------------------------------------------------------
(***************************************************************************)
(* A group that has grown to its members by joins: the first two members   *)
(* form view 0, every later one was a committed change.                    *)
(***************************************************************************)
Initial == plan.members

InitialVid == Len(Initial) - 2

FirstView(i) ==
    [vid |-> InitialVid, members |-> Initial, failed |-> {}, nFailed |-> 0,
     IKnowIAmLeader |-> i = Initial[1]]

FirstRow ==
    [suspected |-> {}, changes |-> SubSeq(Initial, 3, Len(Initial)),
     nCommitted |-> InitialVid, nAcked |-> InitialVid, nReceived |-> 0,
     wedged |-> FALSE, globalMin |-> 0, globalMinReady |-> FALSE]

Init ==
    /\ plan \in Plans
    /\ status = [i \in Node |-> IF i \in ToSet(Initial) THEN "up" ELSE "out"]
    /\ curr_view = [i \in Node |-> IF i \in ToSet(Initial) THEN FirstView(i) ELSE NoView]
    /\ next_view = [i \in Node |-> NoView]
    /\ stage = [i \in Node |-> "stable"]
    /\ row = [i \in Node |-> FirstRow]
    /\ copy = [i \in Node |-> [j \in Node |-> FirstRow]]
    /\ last_suspected = [i \in Node |-> {}]
    /\ joining_client = [i \in Node |-> {}]
    /\ chosen = {}

-----------------------------------------------------------------------------
(***************************************************************************)
(* The environment.                                                        *)
(***************************************************************************)
\* The multicast counts a message; a wedged one does not.
Receive(i) ==
    /\ Up(i) /\ ~ row[i].wedged
    /\ row[i].nReceived < plan.messages    \* bound
    /\ row' = [row EXCEPT ![i].nReceived = @ + 1]
    /\ UNCHANGED <<plan, status, curr_view, next_view, stage, copy, last_suspected,
                   joining_client, chosen>>

\* The SST: row j arrives at member i, unless i has frozen it.
Arrive(i, j) ==
    /\ Up(i) /\ stage[i] # "transition" /\ status[j] \in {"up", "left"}
    /\ j # i /\ j \in Members(curr_view[i]) \ curr_view[i].failed
    /\ curr_view[j].vid = curr_view[i].vid
    /\ copy[i][j] # row[j]
    /\ copy' = [copy EXCEPT ![i][j] = row[j]]
    /\ UNCHANGED <<plan, status, curr_view, next_view, stage, row, last_suspected,
                   joining_client, chosen>>

\* What the node knew goes with it.
Dies(i) ==
    /\ status' = [status EXCEPT ![i] = "crashed"]
    /\ curr_view' = [curr_view EXCEPT ![i] = NoView]
    /\ next_view' = [next_view EXCEPT ![i] = NoView]
    /\ stage' = [stage EXCEPT ![i] = "stable"]
    /\ row' = [row EXCEPT ![i] = FirstRow]
    /\ copy' = [copy EXCEPT ![i] = [j \in Node |-> FirstRow]]
    /\ last_suspected' = [last_suspected EXCEPT ![i] = {}]
    /\ joining_client' = [joining_client EXCEPT ![i] = {}]
    /\ UNCHANGED <<plan, chosen>>

Crash(i) == Up(i) /\ i \in plan.crash /\ Dies(i)

\* An exception that nobody catches.
Throw(i) == Dies(i)

\* leave(): wedge, delete the predicates, suspect oneself.
Leave(i) ==
    /\ Up(i) /\ stage[i] # "transition" /\ i \in plan.leave
    /\ status' = [status EXCEPT ![i] = "left"]
    /\ row' = [row EXCEPT ![i].suspected = @ \cup {i}]
    /\ UNCHANGED <<plan, curr_view, next_view, stage, copy, last_suspected,
                   joining_client, chosen>>

-----------------------------------------------------------------------------
(***************************************************************************)
(* report_failure: the SST cannot reach member q.                          *)
(***************************************************************************)
Majority(view) == (num_members(view) + 1) \div 2

report_failure(i, q) ==
    /\ Up(i) /\ status[q] = "crashed"
    /\ q \in Members(curr_view[i]) \ row[i].suspected
    /\ LET suspected == row[i].suspected \cup {q}
       IN  IF Cardinality(suspected) >= Majority(curr_view[i])
           THEN Throw(i)
           ELSE /\ row' = [row EXCEPT ![i].suspected = suspected]
                /\ UNCHANGED <<plan, status, curr_view, next_view, stage, copy,
                               last_suspected, joining_client, chosen>>

(***************************************************************************)
(* suspected_changed: collect the suspicions of all rows, freeze the rows  *)
(* of the members that are newly suspected, mark them failed in rank order *)
(* and stop the multicast; whoever leads after a mark proposes the removal.*)
(* last_suspected is indexed by rank.  A member that throws has, in the     *)
(* code, sent its row after each mark before; here its last row is lost    *)
(* with it, as rows that have not arrived are.                             *)
(***************************************************************************)
AllSuspected(i) ==
    Members(curr_view[i])
        \cap UNION {Seen(i, j).suspected : j \in Members(curr_view[i])}

suspected_changed(i) ==
    \E q \in AllSuspected(i) : rank_of(curr_view[i], q) \notin last_suspected[i]

\* changes_contains.
Pending(r) == {r.changes[c] : c \in r.nCommitted + 1 .. nChanges(r)}

\* The removals member i proposes when the members in new fail, in rank order.
Removals(i, new) ==
    SelectSeq(curr_view[i].members, LAMBDA q :
        /\ q \in new \ Pending(row[i])
        /\ Leads(i, curr_view[i], curr_view[i].failed \cup
               {p \in new : rank_of(curr_view[i], p) <= rank_of(curr_view[i], q)}))

\* copy_suspected: the entries beyond the last rank stay.
LastSuspected(i, suspected) ==
    {r \in last_suspected[i] : r > num_members(curr_view[i])}
        \cup {rank_of(curr_view[i], q) : q \in suspected}

SuspectedChanged(i) ==
    /\ Up(i) /\ stage[i] # "transition"
    /\ suspected_changed(i)
    /\ LET new == AllSuspected(i) \ curr_view[i].failed
           nFailed == curr_view[i].nFailed + Cardinality(new)
       IN  IF new # {} /\ nFailed >= Majority(curr_view[i])
           THEN Throw(i)
           ELSE /\ curr_view' = [curr_view EXCEPT ![i].failed = @ \cup new,
                                                  ![i].nFailed = nFailed]
                /\ row' = [row EXCEPT
                       ![i].suspected = AllSuspected(i),
                       ![i].wedged = @ \/ new # {},
                       ![i].changes = @ \o Removals(i, new)]
                /\ last_suspected' = [last_suspected EXCEPT
                       ![i] = LastSuspected(i, AllSuspected(i))]
                /\ UNCHANGED <<plan, status, next_view, stage, copy, joining_client,
                               chosen>>

(***************************************************************************)
(* start_join: the leader takes the connection of a client and proposes    *)
(* it, one client at a time.                                               *)
(***************************************************************************)
StartJoin(i, c) ==
    /\ Up(i) /\ stage[i] = "stable"
    /\ IAmLeader(i)
    /\ status[c] = "out" /\ c \in plan.join
    /\ joining_client[i] = {}
    /\ joining_client' = [joining_client EXCEPT ![i] = {c}]
    /\ status' = [status EXCEPT ![c] = "joining"]
    /\ row' = [row EXCEPT ![i].changes = Append(@, c), ![i].wedged = TRUE]
    /\ UNCHANGED <<plan, curr_view, next_view, stage, copy, last_suspected, chosen>>

(***************************************************************************)
(* commit_change: the leader commits what every member acknowledged.       *)
(***************************************************************************)
\* Wrong: commits what it has acknowledged itself.
OwnAcked(i, n) == n = row[i].nAcked

\* Wrong: waits for the failed members too.
MinAckedOfAll(i, n) ==
    /\ \E j \in Members(curr_view[i]) : n = Seen(i, j).nAcked
    /\ \A j \in Members(curr_view[i]) : n <= Seen(i, j).nAcked

min_acked(i, n) ==
    LET alive == {i} \cup (Members(curr_view[i]) \ curr_view[i].failed)
    IN  /\ \E j \in alive : n = Seen(i, j).nAcked
        /\ \A j \in alive : n <= Seen(i, j).nAcked

CommitChange(i) ==
    /\ Up(i) /\ stage[i] = "stable"
    /\ IAmLeader(i)
    /\ \E n \in row[i].nCommitted + 1 .. nChanges(row[i]) :
           /\ min_acked(i, n)
           /\ row' = [row EXCEPT ![i].nCommitted = n]
    /\ UNCHANGED <<plan, status, curr_view, next_view, stage, copy, last_suspected,
                   joining_client, chosen>>

(***************************************************************************)
(* ack_proposed_change: echo the leader's list, acknowledge it and wedge.  *)
(***************************************************************************)
\* Wrong: acknowledges without echoing.
NotEchoed(i, l) == row[i]

Echoed(i, l) ==
    [row[i] EXCEPT !.changes = Seen(i, l).changes, !.nCommitted = Seen(i, l).nCommitted]

AckChange(i) ==
    /\ Up(i) /\ stage[i] = "stable"
    /\ nChanges(Seen(i, Leader(i))) > row[i].nAcked
    /\ row' = [row EXCEPT ![i] =
           [Echoed(i, Leader(i)) EXCEPT !.nAcked = nChanges(Seen(i, Leader(i))),
                                        !.wedged = TRUE]]
    /\ UNCHANGED <<plan, status, curr_view, next_view, stage, copy, last_suspected,
                   joining_client, chosen>>

(***************************************************************************)
(* start_view_change: compute the next view from the first change that is  *)
(* not in this one, and wait until the multicast has stopped everywhere.   *)
(***************************************************************************)
ViewAfter(view, change) ==
    IF change \in Members(view)
    THEN [view EXCEPT !.vid = @ + 1, !.nFailed = @ - 1, !.failed = @ \ {change},
                      !.members = SelectSeq(@, LAMBDA p : p # change)]
    ELSE [view EXCEPT !.vid = @ + 1, !.members = Append(@, change)]

StartViewChange(i) ==
    /\ Up(i) /\ stage[i] = "stable"
    /\ Seen(i, Leader(i)).nCommitted > curr_view[i].vid
    /\ LET change == ChangeAt(row[i], curr_view[i].vid + 1)
           next == ViewAfter(curr_view[i], change)
       IN  IF change = i
           THEN Throw(i)
           ELSE /\ next_view' = [next_view EXCEPT ![i] = next]
                /\ chosen' = chosen \cup {[vid |-> next.vid, members |-> next.members]}
                /\ stage' = [stage EXCEPT ![i] = "meta_wedged"]
                /\ row' = [row EXCEPT ![i].wedged = TRUE]
                /\ UNCHANGED <<plan, status, curr_view, copy, last_suspected,
                               joining_client>>

-----------------------------------------------------------------------------
(***************************************************************************)
(* meta_wedged_continuation and globalMin_ready_continuation.  The leader  *)
(* adopts a globalMin it finds announced, or takes the minimum over all    *)
(* rows, failed ones included; the others copy the leader's.  Before the   *)
(* handshakes the leader sends a joining client its view.                  *)
(***************************************************************************)
is_meta_wedged(i) ==
    \A j \in Members(curr_view[i]) \ curr_view[i].failed : Seen(i, j).wedged

\* The rows that announce a globalMin, the first one in rank order.
Announced(i) ==
    SelectSeq(curr_view[i].members, LAMBDA j : Seen(i, j).globalMinReady)

\* Wrong: the leader's own count.
OwnCount(i, n) == n = row[i].nReceived

MinReceived(i, n) ==
    /\ \E j \in Members(curr_view[i]) : n = Seen(i, j).nReceived
    /\ \A j \in Members(curr_view[i]) : n <= Seen(i, j).nReceived

LeaderMin(i, n) ==
    IF Announced(i) # <<>>
    THEN n = Seen(i, Head(Announced(i))).globalMin
    ELSE MinReceived(i, n)

\* Echo the limit, deliver up to it, and go on to the handshakes.
Cleanup(i, n) ==
    /\ row' = [row EXCEPT ![i].globalMin = n, ![i].globalMinReady = TRUE]
    /\ stage' = [stage EXCEPT ![i] = "transition"]

IsJoin(i) == num_members(next_view[i]) > num_members(curr_view[i])

\* commit_join: the client on the leader's socket, if any, gets the view.
CommitJoin(i) ==
    IF IsJoin(i)
    THEN /\ next_view' = [c \in Node |->
                IF c \in joining_client[i]
                THEN [next_view[i] EXCEPT !.IKnowIAmLeader = FALSE]
                ELSE next_view[c]]
         /\ joining_client' = [joining_client EXCEPT ![i] = {}]
    ELSE UNCHANGED <<next_view, joining_client>>

LeaderMetaWedged(i) ==
    /\ Up(i) /\ stage[i] = "meta_wedged"
    /\ is_meta_wedged(i)
    /\ IAmLeader(i)
    /\ \E n \in 0 .. plan.messages : LeaderMin(i, n) /\ Cleanup(i, n)
    /\ CommitJoin(i)
    /\ UNCHANGED <<plan, status, curr_view, copy, last_suspected, chosen>>

FollowerMetaWedged(i) ==
    /\ Up(i) /\ stage[i] = "meta_wedged"
    /\ is_meta_wedged(i)
    /\ ~ IAmLeader(i)
    /\ stage' = [stage EXCEPT ![i] = "global_min"]
    /\ UNCHANGED <<plan, status, curr_view, next_view, row, copy, last_suspected,
                   joining_client, chosen>>

\* A follower that has become the leader waits for its own row.
GlobalMinReady(i) ==
    /\ Up(i) /\ stage[i] = "global_min"
    /\ Seen(i, Leader(i)).globalMinReady
    /\ Cleanup(i, Seen(i, Leader(i)).globalMin)
    /\ UNCHANGED <<plan, status, curr_view, next_view, copy, last_suspected,
                   joining_client, chosen>>

-----------------------------------------------------------------------------
(***************************************************************************)
(* transition_sst_and_rdmc, sync_with_members and what follows: the        *)
(* members of the next view that are not marked failed in it meet and      *)
(* start with fresh rows.  A client starts from the leader's row.  A new   *)
(* leader merges the proposed changes of all rows and adds the failed      *)
(* members that come before it, up to one that is already listed.          *)
(***************************************************************************)
Alive(view) == Members(view) \ view.failed

AtBarrier(j, view) ==
    /\ \/ Up(j) /\ stage[j] = "transition"
       \/ status[j] = "joining"
    /\ next_view[j].vid = view.vid
    /\ next_view[j].members = view.members
    /\ next_view[j].failed = view.failed

NewRow(view, j) ==
    IF Up(j)
    THEN FreshRow(row[j])
    ELSE FreshRow(row[Head(Order(view, view.failed))])

IAmTheNewLeader(view, j) ==
    ~ next_view[j].IKnowIAmLeader /\ Leads(j, view, view.failed)

\* Its own list if none is longer, the first of the longest ones otherwise.
LongestRow(view, j) ==
    LET longest(k) == \A l \in Alive(view) :
            nChanges(NewRow(view, l)) <= nChanges(NewRow(view, k))
    IN  IF longest(j)
        THEN NewRow(view, j)
        ELSE NewRow(view, Head(SelectSeq(view.members, LAMBDA k :
                                             k \in Alive(view) /\ longest(k))))

MergedRow(view, j) ==
    LET latest == Max({NewRow(view, k).nCommitted : k \in Alive(view)})
        merged == [NewRow(view, j) EXCEPT !.changes = LongestRow(view, j).changes,
                                          !.nCommitted = latest]
        unlisted == SelectSeq(view.members, LAMBDA q :
            \A p \in Members(view) : rank_of(view, p) <= rank_of(view, q) =>
                p \in view.failed \ Pending(merged))
    IN  [merged EXCEPT !.changes = @ \o unlisted]

InstallView(i) ==
    LET view == next_view[i]
        group == Alive(view)
    IN  /\ Up(i) /\ stage[i] = "transition"
        /\ \A j \in group : AtBarrier(j, view)
        /\ status' = [j \in Node |-> IF j \in group THEN "up" ELSE status[j]]
        /\ curr_view' = [j \in Node |->
               IF j \in group
               THEN [next_view[j] EXCEPT !.IKnowIAmLeader = @ \/ IAmTheNewLeader(view, j)]
               ELSE curr_view[j]]
        /\ next_view' = [j \in Node |-> IF j \in group THEN NoView ELSE next_view[j]]
        /\ stage' = [j \in Node |-> IF j \in group THEN "stable" ELSE stage[j]]
        /\ row' = [j \in Node |->
               IF j \notin group THEN row[j]
               ELSE IF IAmTheNewLeader(view, j) THEN MergedRow(view, j)
               ELSE NewRow(view, j)]
        /\ copy' = [j \in Node |->
               IF j \in group
               THEN [k \in Node |-> IF k \in group THEN NewRow(view, k) ELSE FirstRow]
               ELSE copy[j]]
        /\ UNCHANGED <<plan, last_suspected, joining_client, chosen>>

\* What the predicate thread of member i does, and the SST for it.
MemberStep(i) ==
    \/ \E j \in Node : Arrive(i, j) \/ report_failure(i, j)
    \/ SuspectedChanged(i)
    \/ CommitChange(i)
    \/ AckChange(i)
    \/ StartViewChange(i)
    \/ LeaderMetaWedged(i)
    \/ FollowerMetaWedged(i)
    \/ GlobalMinReady(i)
    \/ InstallView(i)

Next ==
    \E i \in Node :
        \/ MemberStep(i)
        \/ Receive(i)
        \/ Crash(i)
        \/ Leave(i)
        \/ \E c \in Node : StartJoin(i, c)

Spec == Init /\ [][Next]_vars

(***************************************************************************)
(* Fairness.  The predicate thread of every member runs, rows arrive, and  *)
(* the SST notices a crash.  No step can be repeated for ever, so fairness *)
(* to all these steps together is fairness to each.  Nobody has to join,   *)
(* leave, crash or send.                                                   *)
(***************************************************************************)
Fairness == WF_vars(\E i \in Node : MemberStep(i))

FairSpec == Spec /\ Fairness

-----------------------------------------------------------------------------
(***************************************************************************)
(* Correctness.                                                            *)
(***************************************************************************)
Chosen == [vid : Nat, members : Seq(Node)]

\* Every variable keeps its type; a member never takes a change from an
\* entry of the list that has not been filled in.
TypeOK ==
    /\ plan \in Plans
    /\ status \in [Node -> Status]
    /\ curr_view \in [Node -> View]
    /\ next_view \in [Node -> View]
    /\ stage \in [Node -> Stage]
    /\ row \in [Node -> Row]
    /\ copy \in [Node -> [Node -> Row]]
    /\ last_suspected \in [Node -> SUBSET Nat]
    /\ joining_client \in [Node -> SUBSET Node]
    /\ chosen \subseteq Chosen

\* The members agree on the sequence of views: nobody computes a next view
\* different from another member's of the same number.
ViewsAgree == \A v, w \in chosen : v.vid = w.vid => v = w

\* Nobody is told to deliver, at the end of a view, what it has not received.
EdgeIsReceived ==
    \A i \in Node : Up(i) /\ stage[i] = "transition"
        => row[i].globalMin <= row[i].nReceived

\* A change is committed only when every member that is not suspected has it
\* at the same place of its own list.
CommittedIsEchoed ==
    \A i, j \in Node :
        /\ Up(i) /\ Up(j) /\ curr_view[i].vid = curr_view[j].vid
        /\ j \in Members(curr_view[i]) \ curr_view[i].failed
        => \A c \in 1 .. row[i].nCommitted :
               c <= nChanges(row[j]) /\ row[j].changes[c] = row[i].changes[c]

\* managed_group.h:83: last_suspected "Helps the SST predicate detect when
\* there's been a change to suspected[]": a suspicion that has not been acted
\* upon makes the predicate true.
SuspicionIsNoticed ==
    \A i \in Node : Up(i) /\ AllSuspected(i) \ curr_view[i].failed # {}
        => suspected_changed(i)

\* managed_group_impl.h:400-530, the chain of predicates: again and again every
\* proposed change has become a view everywhere.  A client is admitted, and a
\* member that leaves or crashes is removed, while others acknowledge, wedge and
\* wait.  There are two exceptions: the first leader has gone, and a member waits
\* in the handshakes for one that has gone since the next view was computed.
Undecided(i) == Up(i) /\ nChanges(row[i]) > curr_view[i].vid

WaitsInVain(i) ==
    /\ Up(i) /\ stage[i] = "transition"
    /\ \E j \in Alive(next_view[i]) : status[j] \in {"left", "crashed"}

ChangesComplete ==
    []<>(\/ \A i \in Node : ~ Undecided(i)
         \/ ~ Up(Initial[1])
         \/ \E i \in Node : WaitsInVain(i))

=============================================================================
