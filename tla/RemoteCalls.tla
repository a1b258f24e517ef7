------------------------------ MODULE RemoteCalls ------------------------------
(***************************************************************************)
(* Remote calls over the group: orderedSend and orderedQuery, to the whole *)
(* group or to some nodes, p2pSend and p2pQuery, the replies, and what     *)
(* becomes of them when the view changes (derecho_caller.h,                *)
(* derechoCallerSend, tcpSend, deliver_message and rpc_process_loop in     *)
(* derecho_group_impl.h, connection_manager.cpp, and the view upcall of    *)
(* managed_group_impl.h).                                                  *)
(*                                                                         *)
(* The multicast below is what AtomicMulticast promises: one order of the  *)
(* calls of a view, of which every member delivers a prefix as long as the *)
(* view lasts.  In the cleanup at its end a member delivers what it has    *)
(* received up to a common limit, which may be more or less than what the  *)
(* others have received (RaggedEdge, NoMoreThanAccepted).  A caller sends  *)
(* again what it has not delivered of its own (GroupTransition).  A reply  *)
(* is written on the TCP connection to the caller; there is one per pair   *)
(* of nodes, which wedge() closes with what is unread.                     *)
(*                                                                         *)
(* A call is one of a function that returns a value: one that returns      *)
(* nothing has neither replies nor a PendingResults to fulfil.             *)
(*                                                                         *)
(* Every node has one application thread, the thread that delivers, and    *)
(* the RPC thread.  A node whose assertions fail, or whose behaviour       *)
(* becomes undefined, stops; state says why.                               *)
(***************************************************************************)
EXTENDS Naturals, Sequences, FiniteSets, SequencesExt

CONSTANTS
    Plans,      \* sequences of one or two views (sequences of ids) to look at
    Callers,    \* bound: the nodes that make calls
    Targets,    \* bound: the node lists of ordered calls; {} is the whole group
    Throwing,   \* the nodes whose handler throws
    MaxCalls    \* bound on the number of calls

Node == UNION {UNION {Range(plan[v]) : v \in DOMAIN plan} : plan \in Plans}
Call == 1 .. MaxCalls

ASSUME CallsAssumption ==
    /\ Plans \subseteq Seq(Seq(Nat))
    /\ \A plan \in Plans : Len(plan) \in {1, 2} /\ plan[1] # <<>>
    /\ Callers \subseteq Node /\ Throwing \subseteq Node
    /\ Targets \subseteq SUBSET Node
    /\ MaxCalls \in Nat

VARIABLES
    views,           \* the plan: the views of this group
    state,           \* [Node -> State]: running, or why it has stopped
    view,            \* [Node -> Nat]: which view a node is in
    phase,           \* [Node -> Phase]: how far its view change is
    order,           \* the multicast: for each view, the calls in their order
    delivered,       \* [Node -> Nat]: how many of them a node has delivered
    cut,             \* the limit of the cleanup in the first view
    missing,         \* [Node -> SUBSET Call]: below the limit, but not received
    chan,            \* [Node -> [Node -> Seq]]: from, to: unread on the socket
    calls,           \* the calls made, in order
    app,             \* [Node -> [pc, call, group]]: the application thread
    toFulfillQueue,  \* [Node -> Seq(Call)]
    fulfilledList,   \* [Node -> SUBSET Call]
    dest_nodes,      \* [Call -> SUBSET Node]: of a PendingResults
    outcomes,        \* [Call -> [Node -> Outcome]]: its populated_promises
    objects,         \* [Node -> Seq(Call)]: the group calls its objects have seen
    executions       \* history: how often a node has executed a call

groupVars == <<views, view, phase, order, cut, missing>>
callerVars == <<toFulfillQueue, fulfilledList, dest_nodes>>
vars == <<groupVars, state, delivered, chan, calls, app, callerVars, outcomes,
          objects, executions>>

members(i) == Range(views[view[i]])
First == Range(views[1])
Second == Range(views[Len(views)])

Running(i) == state[i] = "running"

\* No nodes: a call to the whole group.
CallTo(i, nodes) == [caller |-> i, nodes |-> nodes]

GroupCalls == {c \in DOMAIN calls : calls[c].nodes = {}}

ToGroup(c) == c \in GroupCalls

CallsOf(i) == {c \in DOMAIN calls : calls[c].caller = i}

\* The elements of a sequence that are in S.
Select(seq, S) ==
    LET selected[n \in 0 .. Len(seq)] ==
            IF n = 0 THEN <<>>
            ELSE IF seq[n] \in S THEN Append(selected[n - 1], seq[n])
            ELSE selected[n - 1]
    IN  selected[Len(seq)]

Idle == [pc |-> "idle", call |-> 0, group |-> 0]

\* A view change holds view_mutex from the cleanup to the end, a caller from
\* send() to the entry in toFulfillQueue or fulfilledList.
view_mutex_free(i) ==
    phase[i] \in {"running", "wedged"} /\ app[i].pc \notin {"sent", "spinning"}

-----------------------------------------------------------------------------
\* A member that joins later waits for the second view.
Init ==
    /\ views \in Plans
    /\ state = [i \in Node |-> "running"]
    /\ view = [i \in Node |-> 1]
    /\ phase = [i \in Node |-> IF i \in First THEN "running" ELSE "joining"]
    /\ order = << <<>>, <<>> >>
    /\ delivered = [i \in Node |-> 0]
    /\ cut = MaxCalls + 1
    /\ missing = [i \in Node |-> {}]
    /\ chan = [i \in Node |-> [j \in Node |-> <<>>]]
    /\ calls = <<>>
    /\ app = [i \in Node |-> Idle]
    /\ toFulfillQueue = [i \in Node |-> <<>>]
    /\ fulfilledList = [i \in Node |-> {}]
    /\ dest_nodes = [c \in Call |-> {}]
    /\ outcomes = [c \in Call |-> [n \in Node |-> "none"]]
    /\ objects = [i \in Node |-> <<>>]
    /\ executions = [c \in Call |-> [n \in Node |-> 0]]

(***************************************************************************)
(* PendingResults: set_value and set_exception on a promise that has been  *)
(* satisfied throw std::future_error, which nobody catches.                *)
(***************************************************************************)
Satisfied(c, n) == outcomes[c][n] # "none"

Fulfil(i, c, nodes) ==
    /\ dest_nodes' = [dest_nodes EXCEPT ![c] = @ \cup nodes]
    /\ fulfilledList' = [fulfilledList EXCEPT ![i] = @ \cup {c}]

SetOutcome(c, n, answer) == outcomes' = [outcomes EXCEPT ![c][n] = answer]

Execute(c, n) ==
    /\ executions' = [executions EXCEPT ![c][n] = @ + 1]
    /\ objects' = [objects EXCEPT ![n] = IF ToGroup(c) THEN Append(@, c) ELSE @]

Reply(n) == IF n \in Throwing THEN "exception" ELSE "value"

(***************************************************************************)
(* tcp_connections.  destroy() clears sockets; write asserts that there is *)
(* one; what is written to a node that has closed its own is lost.         *)
(***************************************************************************)
HasSocket(i, j) ==
    phase[i] \in {"running", "installed"} /\ j \in members(i) \ {i}

Arriving(i, j, m) == IF view[i] = 1 /\ phase[j] # "running" THEN <<>> ELSE <<m>>

write(i, j, m) == chan' = [chan EXCEPT ![i][j] = @ \o Arriving(i, j, m)]

Packet(c, kind) == [call |-> c, kind |-> kind]

\* What i has not read goes with its sockets.
Unread(i) == [j \in Node |-> [chan[j] EXCEPT ![i] = <<>>]]

Stopped(i, why) == state' = [state EXCEPT ![i] = why]

-----------------------------------------------------------------------------
(***************************************************************************)
(* An ordered call: get a buffer, then derechoCallerSend with view_mutex   *)
(* held.  send() refuses in a group that is wedged, which does not end     *)
(* while the caller holds the mutex.                                       *)
(***************************************************************************)
GetBuffer(i, nodes) ==
    /\ Running(i) /\ app[i] = Idle
    /\ Len(calls) < MaxCalls                         \* bound
    /\ phase[i] = "running"
    /\ calls' = Append(calls, CallTo(i, nodes))
    /\ app' = [app EXCEPT ![i] = [Idle EXCEPT !.pc = "buffer", !.call = Len(calls')]]
    /\ UNCHANGED <<groupVars, state, delivered, chan, callerVars, outcomes,
                   objects, executions>>

SendCall(i) ==
    /\ Running(i) /\ app[i].pc = "buffer" /\ view_mutex_free(i)
    /\ phase[i] = "running"
    /\ order' = [order EXCEPT ![view[i]] = Append(@, app[i].call)]
    /\ app' = [app EXCEPT ![i].pc = "sent"]
    /\ UNCHANGED <<views, view, phase, cut, missing, state, delivered, chan, calls,
                   callerVars, outcomes, objects, executions>>

SendSpins(i) ==
    /\ Running(i) /\ app[i].pc = "buffer" /\ view_mutex_free(i)
    /\ phase[i] = "wedged"
    /\ app' = [app EXCEPT ![i].pc = "spinning"]
    /\ UNCHANGED <<groupVars, state, delivered, chan, calls, callerVars,
                   outcomes, objects, executions>>

PushPending(i) ==
    LET c == app[i].call
    IN  /\ Running(i) /\ app[i].pc = "sent"
        /\ IF ToGroup(c)
           THEN /\ toFulfillQueue' = [toFulfillQueue EXCEPT ![i] = Append(@, c)]
                /\ UNCHANGED <<fulfilledList, dest_nodes>>
           ELSE Fulfil(i, c, calls[c].nodes) /\ UNCHANGED toFulfillQueue
        /\ app' = [app EXCEPT ![i] = Idle]
        /\ UNCHANGED <<groupVars, state, delivered, chan, calls, outcomes,
                       objects, executions>>

(***************************************************************************)
(* deliver_message, of the next call in the order.  An own call to the     *)
(* whole group fulfils the front of toFulfillQueue, which is undefined     *)
(* when the queue is empty.  In the cleanup the sockets are gone.          *)
(***************************************************************************)
Barrier ==
    \A i \in Second : Running(i) /\ view[i] = 2 /\ phase[i] \in {"installed", "running"}

Delivering(i) ==
    /\ Running(i)
    /\ delivered[i] < Len(order[view[i]])
    /\ \/ phase[i] = "running"
       \/ phase[i] = "cleaning" /\ delivered[i] < cut
       \/ phase[i] = "installed" /\ Barrier

NextCall(i) == order[view[i]][delivered[i] + 1]

Addressed(i, c) == ToGroup(c) \/ i \in calls[c].nodes

\* deliver_messages_upto finds no such message here.
NotHere(i, c) == view[i] = 1 /\ c \in missing[i]

Counted(i) == delivered' = [delivered EXCEPT ![i] = @ + 1]

PassOver(i) ==
    /\ Delivering(i)
    /\ NotHere(i, NextCall(i)) \/ ~ Addressed(i, NextCall(i))
    /\ Counted(i)
    /\ UNCHANGED <<groupVars, state, chan, calls, app, callerVars, outcomes,
                   objects, executions>>

DeliverRemote(i) ==
    LET c == NextCall(i)
        caller == calls[c].caller
    IN  /\ Delivering(i) /\ ~ NotHere(i, c)
        /\ Addressed(i, c) /\ caller # i
        /\ Execute(c, i)
        /\ Counted(i)
        /\ IF HasSocket(i, caller)
           THEN write(i, caller, Packet(c, Reply(i))) /\ UNCHANGED state
           ELSE Stopped(i, "socket") /\ UNCHANGED chan
        /\ UNCHANGED <<groupVars, calls, app, callerVars, outcomes>>

FrontPending(i) == Head(toFulfillQueue[i])

DeliverOwn(i) ==
    LET c == NextCall(i)
    IN  /\ Delivering(i) /\ ~ NotHere(i, c)
        /\ Addressed(i, c) /\ calls[c].caller = i
        /\ Execute(c, i)
        /\ Counted(i)
        /\ IF Satisfied(c, i)
           THEN Stopped(i, "promise") /\ UNCHANGED <<outcomes, callerVars>>
           ELSE /\ SetOutcome(c, i, Reply(i))
                /\ \/ ~ ToGroup(c) /\ UNCHANGED <<state, callerVars>>
                   \/ /\ ToGroup(c) /\ toFulfillQueue[i] # <<>>
                      /\ Fulfil(i, FrontPending(i), members(i))
                      /\ toFulfillQueue' = [toFulfillQueue EXCEPT ![i] = Tail(@)]
                      /\ UNCHANGED state
                   \/ /\ ToGroup(c) /\ toFulfillQueue[i] = <<>>
                      /\ Stopped(i, "queue") /\ UNCHANGED callerVars
        /\ UNCHANGED <<groupVars, chan, calls, app>>

(***************************************************************************)
(* rpc_process_loop, for the next packet from j.  The node executes a      *)
(* request and answers it; an answer goes to its promise.                  *)
(***************************************************************************)
\* Wrong: looks at the connections it has opened only.
ProbeOpened(i, j) == Running(i) /\ HasSocket(i, j) /\ chan[j][i] # <<>> /\ j < i

RpcReads(i, j) == Running(i) /\ HasSocket(i, j) /\ chan[j][i] # <<>>

RpcRequest(i, j) ==
    LET m == Head(chan[j][i])
    IN  /\ RpcReads(i, j)
        /\ m.kind = "request"
        /\ Execute(m.call, i)
        /\ chan' = [chan EXCEPT ![j][i] = Tail(@),
                                ![i][j] = @ \o Arriving(i, j, Packet(m.call, Reply(i)))]
        /\ UNCHANGED <<groupVars, state, delivered, calls, app, callerVars, outcomes>>

RpcAnswer(i, j) ==
    LET m == Head(chan[j][i])
    IN  /\ RpcReads(i, j)
        /\ m.kind # "request"
        /\ chan' = [chan EXCEPT ![j][i] = Tail(@)]
        /\ IF Satisfied(m.call, j)
           THEN Stopped(i, "promise") /\ UNCHANGED outcomes
           ELSE SetOutcome(m.call, j, m.kind) /\ UNCHANGED state
        /\ UNCHANGED <<groupVars, delivered, calls, app, callerVars, objects,
                       executions>>

(***************************************************************************)
(* tcpSend, without view_mutex.  The group the caller has begun with may   *)
(* be gone when it comes to fulfilledList.                                 *)
(***************************************************************************)
P2pWrite(i, j) ==
    /\ Running(i) /\ app[i] = Idle /\ phase[i] \notin {"joining", "joined"}
    /\ Len(calls) < MaxCalls                         \* bound
    /\ calls' = Append(calls, CallTo(i, {j}))
    /\ app' = [app EXCEPT ![i] =
           [pc |-> "written", call |-> Len(calls'), group |-> view[i]]]
    /\ IF HasSocket(i, j)
       THEN write(i, j, Packet(Len(calls'), "request")) /\ UNCHANGED state
       ELSE Stopped(i, "socket") /\ UNCHANGED chan
    /\ UNCHANGED <<groupVars, delivered, callerVars, outcomes, objects,
                   executions>>

P2pPush(i) ==
    LET c == app[i].call
    IN  /\ Running(i) /\ app[i].pc = "written"
        /\ IF app[i].group = view[i]
           THEN Fulfil(i, c, calls[c].nodes) /\ UNCHANGED state
           ELSE Stopped(i, "group") /\ UNCHANGED <<fulfilledList, dest_nodes>>
        /\ app' = [app EXCEPT ![i] = Idle]
        /\ UNCHANGED <<groupVars, delivered, chan, calls, toFulfillQueue,
                       outcomes, objects, executions>>

-----------------------------------------------------------------------------
(***************************************************************************)
(* The view change.  A member is removed after it has crashed.             *)
(***************************************************************************)
Crash(i) ==
    /\ Running(i) /\ i \in First \ Second
    /\ Stopped(i, "crashed")
    /\ UNCHANGED <<groupVars, delivered, chan, calls, app, callerVars, outcomes,
                   objects, executions>>

Wedge(i) ==
    /\ Running(i) /\ phase[i] = "running" /\ view[i] < Len(views)
    /\ \A j \in First \ Second : state[j] = "crashed"
    /\ phase' = [phase EXCEPT ![i] = "wedged"]
    /\ chan' = Unread(i)
    /\ UNCHANGED <<views, view, order, cut, missing, state, delivered, calls, app,
                   callerVars, outcomes, objects, executions>>

(***************************************************************************)
(* The leader accepts what everybody has received of each caller, and the  *)
(* largest sequence number of an accepted message, which need not be one   *)
(* of these calls, becomes the limit for all of them.  What a member has   *)
(* delivered before is accepted; of the calls between that and the limit   *)
(* each member has received a beginning of those of each caller.           *)
(***************************************************************************)
CutShort(calls_missing, n) ==
    \A p, q \in 1 .. n :
        /\ p < q /\ order[1][p] \in calls_missing
        /\ calls[order[1][p]].caller = calls[order[1][q]].caller
        => order[1][q] \in calls_missing

LeaderCleanup ==
    /\ cut > MaxCalls
    /\ \A i \in First : Running(i) => phase[i] = "wedged"
    /\ \E n \in 0 .. Len(order[1]) :
           /\ \A i \in First : delivered[i] <= n
           /\ cut' = n
           /\ LET late == {order[1][p] : p \in
                              {q \in 1 .. n : \A i \in First : delivered[i] < q}}
                  some == {calls_missing \in SUBSET late : CutShort(calls_missing, n)}
              IN  missing' \in
                      {m \in [Node -> some] : \A i \in Node \ (First \cap Second) : m[i] = {}}
    /\ UNCHANGED <<views, view, phase, order, state, delivered, chan, calls, app,
                   callerVars, outcomes, objects, executions>>

Cleanup(i) ==
    /\ Running(i) /\ phase[i] = "wedged" /\ view_mutex_free(i)
    /\ cut <= MaxCalls
    /\ phase' = [phase EXCEPT ![i] = "cleaning"]
    /\ UNCHANGED <<views, view, order, cut, missing, state, delivered, chan, calls, app,
                   callerVars, outcomes, objects, executions>>

\* Wrong: before the remaining calls have been delivered.
CleansUp(i) == phase[i] = "cleaning"

CleanedUp(i) == phase[i] = "cleaning" /\ delivered[i] = cut

\* The leader sends a client that joins the new view and its own objects.
SendObjects(i, j) ==
    /\ Running(i) /\ i = Head(views[1]) /\ CleanedUp(i)
    /\ phase[j] = "joining"
    /\ phase' = [phase EXCEPT ![j] = "joined"]
    /\ objects' = [objects EXCEPT ![j] = objects[i]]
    /\ UNCHANGED <<views, view, order, cut, missing, state, delivered, chan, calls, app,
                   callerVars, outcomes, executions>>

\* The second constructor: new sockets, and the messages that were not delivered
\* are sent again.
Handshake ==
    \A i \in Second :
        Running(i) /\ (phase[i] \in {"joined", "installed"} \/ CleanedUp(i))

\* Wrong: sends again what has been delivered, too.
AllOwn(i) == Select(order[1], CallsOf(i))

Undelivered(i) ==
    Select(SubSeq(order[1], 1, cut), CallsOf(i) \cap missing[i])
    \o Select(SubSeq(order[1], cut + 1, Len(order[1])), CallsOf(i))

InstallView(i) ==
    /\ i \in Second /\ phase[i] \in {"cleaning", "joined"}
    /\ cut <= MaxCalls /\ Handshake
    /\ phase' = [phase EXCEPT ![i] = "installed"]
    /\ view' = [view EXCEPT ![i] = 2]
    /\ order' = [order EXCEPT ![2] = @ \o Undelivered(i)]
    /\ delivered' = [delivered EXCEPT ![i] = 0]
    /\ UNCHANGED <<views, cut, missing, state, chan, calls, app, callerVars, outcomes,
                   objects, executions>>

(***************************************************************************)
(* std::set_difference walks through two sequences that it takes for       *)
(* sorted, at most one step for each element of both.                      *)
(***************************************************************************)
Advance(w, a, b) ==
    LET x == a[w.first]
        y == b[w.second]
    IN  IF w.first > Len(a) THEN w
        ELSE IF w.second > Len(b) \/ x < y
        THEN [w EXCEPT !.first = @ + 1, !.result = @ \cup {x}]
        ELSE IF y < x THEN [w EXCEPT !.second = @ + 1]
        ELSE [w EXCEPT !.first = @ + 1, !.second = @ + 1]

set_difference(a, b) ==
    LET at[n \in 0 .. Len(a) + Len(b)] ==
            IF n = 0 THEN [first |-> 1, second |-> 1, result |-> {}]
            ELSE Advance(at[n - 1], a, b)
    IN  at[Len(a) + Len(b)].result

\* Wrong: those who have joined.
JoinedMembers == set_difference(views[2], views[1])

\* set_exceptions_for_removed_nodes.
RemovedMembers == set_difference(views[1], views[2])

Affected(i, c, n) ==
    c \in fulfilledList[i] /\ n \in dest_nodes[c] \cap RemovedMembers /\ ~ Satisfied(c, n)

ViewUpcall(i) ==
    /\ Running(i) /\ phase[i] = "installed" /\ Barrier
    /\ phase' = [phase EXCEPT ![i] = "running"]
    /\ outcomes' = [c \in Call |-> [n \in Node |->
           IF Affected(i, c, n) THEN "removed" ELSE outcomes[c][n]]]
    /\ UNCHANGED <<views, view, order, cut, missing, state, delivered, chan, calls, app,
                   callerVars, objects, executions>>

\* What nobody has to do: make a call, crash, start a view change.
Environment ==
    \/ \E i \in Callers :
           \/ \E nodes \in Targets : GetBuffer(i, nodes)
           \/ \E j \in Node \ {i} : P2pWrite(i, j)
    \/ \E i \in Node : Crash(i) \/ Wedge(i)

\* The application between two calls to the library, which may also run into a
\* wedged group, and the threads of the library.
Threads ==
    \/ \E i \in Callers : SendCall(i) \/ PushPending(i) \/ P2pPush(i)
    \/ \E i \in Node :
           \/ PassOver(i) \/ DeliverRemote(i) \/ DeliverOwn(i)
           \/ \E j \in Node : RpcRequest(i, j) \/ RpcAnswer(i, j) \/ SendObjects(i, j)
           \/ Cleanup(i) \/ InstallView(i) \/ ViewUpcall(i)
    \/ LeaderCleanup

Next == Environment \/ Threads \/ \E i \in Callers : SendSpins(i)

Spec == Init /\ [][Next]_vars

\* Every thread runs, and a view change that has reached one member reaches all.
\* One condition for all threads together is enough: with a bounded number of
\* calls none of them can go on for ever while another waits.
Goes(i) == Wedge(i) /\ \E j \in First : phase[j] # "running"

Fairness == WF_vars(Threads \/ \E i \in Node : Goes(i))

FairSpec == Spec /\ Fairness

-----------------------------------------------------------------------------
Phase == {"joining", "joined", "running", "wedged", "cleaning", "installed"}
State == {"running", "crashed", "socket", "queue", "promise", "group"}
Kind == {"request", "value", "exception"}
Outcome == {"none", "value", "exception", "removed"}

Message == [call : Call, kind : Kind]
Made == [caller : Callers, nodes : SUBSET Node]
Activity == [pc : {"idle", "buffer", "sent", "spinning", "written"},
             call : 0 .. MaxCalls, group : {0, 1, 2}]

\* Every variable keeps its type.
TypeOK ==
    /\ views \in Plans
    /\ state \in [Node -> State]
    /\ view \in [Node -> {1, 2}] /\ phase \in [Node -> Phase]
    /\ order \in [1 .. 2 -> Seq(Call)]
    /\ delivered \in [Node -> 0 .. MaxCalls] /\ cut \in 0 .. MaxCalls + 1
    /\ missing \in [Node -> SUBSET Call]
    /\ chan \in [Node -> [Node -> Seq(Message)]]
    /\ calls \in Seq(Made) /\ Len(calls) <= MaxCalls
    /\ app \in [Node -> Activity]
    /\ toFulfillQueue \in [Node -> Seq(Call)]
    /\ fulfilledList \in [Node -> SUBSET Call]
    /\ dest_nodes \in [Call -> SUBSET Node]
    /\ outcomes \in [Call -> [Node -> Outcome]]
    /\ objects \in [Node -> Seq(Call)]
    /\ executions \in [Call -> [Node -> Nat]]

\* deliver_message takes the front of toFulfillQueue for the call it delivers:
\* the queue has the caller's own calls to the group that are not delivered, in
\* the order in which they will be: those that will be sent again because the
\* cleanup has passed over them, then those to come.  The last one may still be
\* on its way to the queue; a delivery that overtakes it finds no front.
FrontIsDelivered ==
    \A i \in Callers : Running(i) =>
        LET own == CallsOf(i) \cap GroupCalls
            passed == SubSeq(order[view[i]], 1, delivered[i])
            coming == SubSeq(order[view[i]], delivered[i] + 1, Len(order[view[i]]))
            pushing == IF app[i].pc = "sent" THEN <<app[i].call>> ELSE <<>>
        IN  toFulfillQueue[i] \o Select(pushing, own) =
                Select(passed, {c \in own : NotHere(i, c)}) \o Select(coming, own)

\* No promise is satisfied twice (std::future_error): wedge() has stopped the RPC
\* thread and closed the sockets before a removed member is reported.
PromiseSetOnce == \A i \in Node : state[i] # "promise"

\* derecho_caller.h:68: "has been removed from the group".  After the view upcall
\* the caller knows the outcome of a call to the group at everyone who is gone.
RemovedAreAnswered ==
    \A i \in Callers : Running(i) /\ view[i] = 2 /\ phase[i] = "running" =>
        \A c \in fulfilledList[i] : ToGroup(c) =>
            \A n \in dest_nodes[c] \ members(i) : Satisfied(c, n)

\* managed_group_impl.h:508: the objects of a client that joins come from the
\* leader.  Two members, or a member and a client that has joined, that have
\* delivered equally many messages of a view have executed the same calls to the
\* group in the same order, those that were sent again included.  The exceptions
\* are the calls that a member had not received in the cleanup and that are not
\* sent again, as their caller has delivered them or is gone.
Diverged ==
    {c \in DOMAIN calls :
        c \notin missing[calls[c].caller] /\ \E i \in Node : c \in missing[i]}

ObjectsAgree ==
    \A i, j \in {k \in Node : Running(k) /\ phase[k] \notin {"joining", "joined"}} :
        view[i] = view[j] /\ delivered[i] = delivered[j] =>
            Select(objects[i], Call \ Diverged) = Select(objects[j], Call \ Diverged)

\* What the application sees of its calls is what AbstractCalls allows.
Service == INSTANCE AbstractCalls WITH
    lost <- [c \in Call |->
                IF c \in DOMAIN calls THEN Node \ members(calls[c].caller) ELSE {}]

ImplementsCalls == Service!Spec

\* derecho_caller.h:160, "block until the map is fulfilled": every call to the
\* group gets its map, over a view change too, and as long as the view lasts all
\* who are in it answer.  Unless a node has stopped or a caller spins in send().
Answered(c) == dest_nodes[c] # {} /\ \A n \in dest_nodes[c] : Satisfied(c, n)

CallsComplete ==
    []<>(\A c \in DOMAIN calls :
            \/ Answered(c)
            \/ Len(views) = 2 /\ (dest_nodes[c] # {} \/ ~ ToGroup(c))
            \/ \E i \in Node : ~ Running(i) \/ app[i].pc = "spinning")

=============================================================================
