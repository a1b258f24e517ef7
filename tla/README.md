# TLA+ models of Derecho

Derecho replicates a sequence of messages in a group of processes that share
state through RDMA: an SST (a table with one row per member, replicated by
one-sided writes) and RDMC (a reliable multicast with one group per sender).
This directory holds models of its core, the TLC configurations that check
them and the proofs of their main safety properties.

Source files are named relative to `src/`. `PROJECT.json` maps every
definition to the lines it translates.

## 1. Inventory

| Component | State | Operations | Talks to |
|---|---|---|---|
| `DerechoGroup` (`derecho_group*.h`): the atomic multicast of one view | message indices, pending and current sends, received/stable/unpersisted messages, free buffers, `thread_shutdown` | `get_position`, `send`, `send_loop`, RDMC handlers, stability/delivery/sender predicates, file-written callback, `wedge`, `deliver_messages_upto` | SST columns of the other members, RDMC, `FileWriter`, application upcalls |
| Sender thread (`send_loop`) | the same, plus its wait on `sender_cv` | test, wait, send | everyone who notifies `sender_cv`, `wedge` |
| `FileWriter` (`filewriter.*`) | two queues, two threads, `exit` | `write_message`, `perform_writes`, `issue_callbacks`, destructor | `DerechoGroup` under `msg_state_mtx`, in both directions |
| `ManagedGroup` + `View` (`managed_group*.h`, `view*.h`): membership | `curr_view`, `next_view`, `last_suspected`, joining client, membership columns of the row | suspicion, join, proposal, acknowledgement, commit, wedge, ragged-edge cleanup, installation, `leave`, `report_failure` | SST predicates, `DerechoGroup::wedge`, joining clients |
| View persistence (`view_impl.h`) | view file and swap file | `persist_view`, `load_view`, recovery constructor | file system |
| Transition constructor (`derecho_group_impl.h:125-242`) | messages and buffers handed from one view to the next | one operation, `ManagedGroup::send` around it | old and new `DerechoGroup`, `FileWriter` callbacks |
| RPC (`derecho_caller.h` and `derechoCallerSend` ...) | pending results, `toFulfillQueue`, `fulfilledList`, replicated objects | ordered and peer-to-peer calls, replies, exceptions on removal, state transfer | delivery, TCP, view upcall |
| TCP connections (`connection_manager.*`) | map of sockets | add, remove, read, write | RPC |
| Log recovery (`log_recovery_helper.sh`, `log_tail_length.cpp`, ...) | logs and view files of all members | find the newest view, truncate | `persistence.h` formats |
| SST, RDMC, mutils | external libraries, not in this repository | | |

What makes each of them hard, and which property is about it, is listed line by
line under `hazards` in `PROJECT.json`. In short:

* **multicast**: members count messages instead of reading an index, skip turns
  together with a message, decide from copies of rows that are of different
  ages, and reuse a fixed number of buffers. Correct means: the columns keep
  their documented promises, all members deliver one sequence, nothing
  delivered anywhere is missing elsewhere, and what is queued is delivered;
* **sender thread** and **FileWriter**: condition variables whose notifications
  are sent without the mutex, waits without a predicate, destructors that join;
* **transition**: messages that are queued, on their way, half received or on
  their way to the disk when the view ends; correct means: each is delivered once
  and in order, under the index the new group will count, and no buffer is lost;
* **remote calls**: a queue of pending results in step with the order of
  delivery, promises that may be set once, connections that are closed at every
  view change; correct means: what `AbstractCalls` says, removed members are
  reported, the replicas agree on what everybody received or was sent again, and
  calls to the group complete;
* **membership**: crashes between any two steps of a view change, two leaders
  with different proposals, waits for everybody; correct means: one sequence of
  views, one outcome of the old view, and every proposal becomes a view;
* **view files and logs**: a crash at any statement must leave a complete view
  and records that say where the messages are; the search for the latest view
  must not end too early.

## 2. Modules

| Module | Models | Role |
|---|---|---|
| `AtomicMulticast` | what the group promises the application | abstract specification |
| `DerechoGroup` | the multicast of one view, all members | implements `AtomicMulticast` |
| `MCDerechoGroup` | | instances |
| `DerechoGroupSafetyProofs`, `DerechoGroupAtomicProofs` | | theorems about `DerechoGroup`, the second module on top of the first |
| `RaggedEdgeProofs` | | theorems about `RaggedEdge`, on top of those |
| `SenderThreadProofs` | | theorems about `SenderThread` |
| `FileWriterProofs` | | theorems about `FileWriter` |
| `LogRecoveryProofs` | | theorems about `LogRecovery` and `ViewFile` |
| `RemoteCallsProofs` | | theorems about `RemoteCalls` |
| `GroupTransitionProofs` | | theorems about `GroupTransition` |
| `RaggedEdge`, `MCRaggedEdge` | the end of a view on top of `DerechoGroup` | composition |
| `SenderThread` | `send_loop` at the granularity of mutex and condition variable | refines one step of `DerechoGroup` by hand |
| `GroupTransition`, `MCGroupTransition` | one member's messages across view changes | |
| `FileWriter` | the two threads of `FileWriter`, its files, a crash; `log_tail_length` | |
| `AbstractCalls` | what a remote call promises its caller | abstract specification |
| `RemoteCalls`, `MCRemoteCalls` | calls, replies, connections and a view change | implements `AbstractCalls` |
| `ViewChange`, `MCViewChange` | membership: suspicion to installation | |
| `ViewFile` | view files across crashes | |
| `LogRecovery`, `MCLogRecovery` | the search for the latest view, on top of `ViewFile` | composition |

### DerechoGroup

`x[i][j]` is member `i`'s copy of column `x` of row `j`. `nReceived` needs the
own row only, because the copies are read at the end of a view alone, after
`wedged` has arrived (`RaggedEdge`). Every column of eight aligned bytes
travels in a step of its own (`SeqNumArrives` ...). `inflight[k][i]` is RDMC's
group of sender `k` as receiver `i` sees it: reliable and in order; a receiver
is asked for a buffer first (`RdmcIncoming`) and called when the message is
complete (`RdmcReceive`, `OwnReceive`).

| Action | Code (`derecho_group_impl.h`) |
|---|---|
| `GetPosition`, `Send` | `get_position` 702-750, `send` 689-700 |
| `SenderStep` | one turn of `send_loop` 634-679 |
| `RdmcIncoming`, `RdmcReceive`, `OwnReceive` | 299-394, by way of `MessageReceived` |
| `StabilityTrig`, `DeliveryTrig` | 514-534, 536-565 |
| `FileWritten` | 244-270 |
| `Wedge` | 606-630, statement by statement |

The handlers exclude one another with `msg_state_mtx`, so each is one step. The
two places that run without it read columns that only grow, which is checked
(`ColumnsNeverRegress`). An optional is a set of at most one element; a message
carries its header (`index`, `pause`), its size (0 for a skipped turn) and its
payload (`body`: the index its sender gave it, so that a receiver's own count
can be compared with it). `AtomicMulticast` sees of the upcalls what an application
sees: sender and payload (`upcallsSeen`). Raw mode and the timeout thread, which re-puts an
unchanged row, are left out. The module is the life of one view; what crosses a
view change is in `GroupTransition`.

### SenderThread

`DerechoGroup` treats one turn of `send_loop` as a step. Here the test, the wait
and every notification are steps: `sender` is the program counter of the
thread, `wedge` that of `wedge()`. The columns are reduced to what
`should_send` compares: how many of this member's messages every member has
delivered (persisted). `file_writer` is chosen in `Init`, so that one run covers
both modes.

### GroupTransition

The messages of one member, `Me`, through a sequence of views. The handlers are
those of `DerechoGroup`, one step each, and the other members only send; where
the code takes a minimum over the rows, the member's own row stands for it,
because the other rows can only delay what it does. `EndOfView` is `wedge` and
the ragged-edge cleanup, with any counts the member has reached; `NextView` is the
second constructor. `body` is the place of a message among those given to
`send()`, so that what is delivered can be compared with what was sent. `writes`
is the FileWriter's queue: of a message it keeps index and sender id, and `KeyOf`
computes the sequence number in the view the callback runs in, as the code does.
Failed assertions set `aborted`; `carried_over` says that messages which were not
yet on disk have crossed a view change, after which the code does not keep its own
promises (see below). `rdmc_groups` says how many RDMC groups the constructor could
create: none if a member of the view had failed already, fewer than members if RDMC
refuses one. Such a view neither gives out buffers nor sends anything
(`rdmc_groups_created`); what waits is taken over by the next one. The other modules
(`DerechoGroup`, `SenderThread`, `RaggedEdge`, `RemoteCalls`) are about views whose
groups were created.

### FileWriter

`writer`, `callback`, `producer` and `destructor` are program counters. The
delivering thread calls `write_message` with `msg_state_mtx` held, the callback
takes the same mutex, hence `producer` has a state of its own. Threads begin in
`"starting"`, because the constructor returns before they run. Data and record
are flushed in two steps (`WriterDrain`, `WriterMetadata`), and `Crash` may come
between any two steps; the next run of the process appends to the same files,
with a header of its own and `current_offset` from 0, and `start` remembers how
long the files were. Messages have the length 1. `log_tail_length` is what the
recovery tool of that name computes from the two files.

### RemoteCalls

The multicast is reduced to what it promises: `order` is the sequence of calls of
each view, `delivered` how much of it a node has delivered, `cut` the limit of the
cleanup at the end of a view. Below the limit a member delivers what it has received,
and that may be less than what another has: `missing` is what it has not, any choice
that leaves out nothing somebody had delivered before and, of each caller, the last
calls only. This is what `RaggedEdge` finds of `deliver_messages_upto`. A caller that
has not received its own call sends it again in the next view. Per node there is an
application thread (`app`), the thread that delivers, and the RPC thread.

| Action | Code |
|---|---|
| `GetBuffer`, `SendCall`, `SendSpins`, `PushPending` | `orderedSend`, `orderedQuery`, `derechoCallerSend` |
| `PassOver` (a call to others, or one not received), `DeliverRemote`, `DeliverOwn` | `deliver_message`, cooked branch |
| `RpcRequest`, `RpcAnswer` | `rpc_process_loop`, `receive_call`, `receive_response` |
| `P2pWrite`, `P2pPush` | `tcpSend` |
| `Wedge`, `LeaderCleanup`, `Cleanup`, `SendObjects`, `InstallView`, `ViewUpcall` | `wedge`, the cleanup, `send_objects`, the second constructor, `set_exceptions_for_removed_nodes` |

`chan` holds what is unread on the sockets; `wedge` closes them with what is unread
(`Unread`), and what is written to a closed one is lost (`Arriving`). A node whose
assertion fails, whose `promise` is set twice or whose behaviour becomes undefined
stops, and `state` says why: `PromiseSetOnce` and `FrontIsDelivered` say which of
these cannot happen, the section on what was seen which can. `objects` is the state
of the replicated objects: the calls they have executed. The choice of the next
connection in `probe_all` is left open, and a reply is one packet.

### LogRecovery

Extends `ViewFile`, the files of the one member that recovers (`Local`), with the
group around it and the script. The group goes from view to view with its
barrier, and each member saves the view in its own time; the script fetches one
file at a time, in any order, or none of a member, and starts again with a newer
view. `due` remembers the view that all its members had saved when the search
began. Once the member founds a new group, the old one no longer moves.

### RaggedEdge

Extends `DerechoGroup` with `wedged`, `globalMin` and `globalMinReady`. The view
change is that of a join: nobody has failed and the leader has rank 0. The
model keeps that `deliver_messages_upto` turns all accepted counts into *one*
limit, and that it does not move `delivered_num`. The messages it gives to the
application are `batch`, the arrangement of what is due in the order of the map.

### ViewChange

Nodes with their view, their row, and copies of the other members' rows that
arrive as a whole (`Arrive`). One action per predicate and trigger of
`register_predicates`: `SuspectedChanged`, `StartJoin`, `CommitChange`,
`AckChange`, `StartViewChange`, `LeaderMetaWedged`, `FollowerMetaWedged`,
`GlobalMinReady`; `report_failure`, `Leave` and `Crash` come from outside. `stage`
says which predicates are registered; between the cleanup and the end of the
handshakes the predicate thread is inside one trigger and takes no other step.
`InstallView` is the barrier at the start of the next view
(`transition_sst_and_rdmc`, `sync_with_members`): a joint step of all members of
the next view that are not marked failed in it, with what follows it
(`init_from_existing`, `IAmTheNewLeader`, `merge_changes`). `failed` is a set and
`nFailed` a separate counter, as in the code. Uncaught exceptions end the process
(`Throw`). The list of changes is unbounded: within the bounds the ring
of `MAX_MEMBERS` entries does not wrap. Of the messages, one count per member
remains. The columns of a row do not arrive separately, because readers test the
later column first (`derecho_row.h:67-73`) and the row is ordered for that.

### ViewFile

The two files hold nothing, an incomplete view or a view; `persist_view` is a
step per system call, `Crash` may come between any two of them. Recovery is
that of the member that restarts the group.

## 3. Runs

Every passing run is exhaustive within its bounds. Deadlock is not checked:
every instance is bounded and nobody has to send another message, so every one
of them may stop; progress is checked by the liveness properties instead.

| Run | Bounds | Distinct states | Shows |
|---|---|---|---|
| `MCMulticast` | 2 members, window 1, indices 0..1, persistence, rank 0 may skip a turn, rank 1 may be wedged | 117 696 | columns, buffers, `persisted_num`, refinement of `AtomicMulticast`, liveness |
| `SenderThread` | window 2, 4 messages, both modes, wedge at any time | 12 182 | one message in the pipeline and a window of them unfinished (`PipelineBounded`), no lost wake-up and every queued message sent without persistence |
| `MCRaggedEdge` | 2 members, window 1, indices 0..2, no persistence, both may skip turns, both are wedged | 1 218 924 | numbering, buffers are there when RDMC asks, what is delivered anywhere survives, accepted messages are delivered |
| `MCGroupTransition` | 2 members, one joins or one is removed; window 2, 3 own messages, 2 of each other member, one skipped turn at a time, both modes, groups created or not | 109 891 | nothing lost or repeated, numbering, buffers, `send` gets through |
| `FileWriter` | 3 messages, one crash and restart, destructor at any time | 15 767 | order of upcalls, offsets, noticed work is done, destructor returns |
| `MCRemoteCalls` | 2 members; nothing changes, a third joins, or one is removed; 2 calls; the second member's handler throws | 342 332 | pending results, removed members, replicas, refinement of `AbstractCalls`, completion |
| `MCViewChange` | 2 members that may crash, a third joins and may leave again, one message; or 3 members, of which one may leave while a fourth joins | 210 403 | one sequence of views, safe cut, proposals become views |
| `MCLogRecovery` | 5 members that lose two, one after the other; views 0..2, up to 3 with restarts | 4 151 836 | a complete view is always found, the search finds the latest one |

Why these bounds: a window of 1 is reached with two messages, and the third
(`MCRaggedEdge`) reuses the buffer of the first; the skipped turn makes the
counts of two members jump by different amounts; ties and both orders of two
senders occur with two members. Two of `MCMulticast`'s properties cost more states
than the others: the refinement and the liveness property. With `MaxIndex = 2`
that instance has 338 444 states, the same properties hold, and the stall that
`RoundsAreDelivered` excepts (below) is reached. The pipeline of several messages
is in `SenderThread`.
`MCViewChange` has two plans. In the first the group has the size that
`ManagedGroup` starts with; the third member makes a majority that can lose one, and
either of the first two may crash, or the third leave, before, during or after the
join: a removal while another change is pending, a failure in the handshakes and a
change of leader all occur. In the second a member of three leaves while a fourth
joins, and the majority survives. With that member crashing instead of leaving the
second plan alone has 506 438 states, and the same four properties hold. In `MCGroupTransition`
a window of 2 lets several messages be on their way when the view ends, a skipped
turn between them makes old and new indices differ, and the two plans change the
rank of the member and the number of members. In `MCRemoteCalls` two
calls are enough for one to be sent again while another is pending, and every
kind of call and view change occurs with every other. `MCLogRecovery` needs five
members: only then can a majority of an old view answer without anyone
who knows the view after the next (with one answer instead of the quorum TLC finds
the search ending early).

`DeliveredIsReceived` and `DeliveredIsKnownStable` are what later view changes
rely on: a message delivered anywhere can be found at every survivor.
`DeliveredSurvives` closes the argument at the end of the view.
`EdgeIsReceived` says the same with failed members: the limit of the cleanup
never exceeds what a member has.

### Fairness

* `DerechoGroup`: weak fairness of each handler. The sender thread, the SST's
  predicate thread, RDMC and `FileWriter` run in loops that nothing else
  suspends. A caller that got a buffer from `get_position` calls `send`;
  nobody has to ask for a buffer, and nobody has to wedge.
* `SenderThread`, `FileWriter`: weak fairness of each thread. The destructor and
  `wedge()` finish if they are called.
* `GroupTransition`: weak fairness of `Send` (a caller that has a buffer sends, as
  `ManagedGroup::send` does in a loop; a view without its RDMC groups refuses), of the sender thread, of the member's own
  receive handler and of the constructor. Other members need not send, no view
  need end, and delivery and the disk are not assumed to go on.
* `RemoteCalls`: weak fairness of all threads together, and of `Wedge` once one
  member has been wedged. One condition is enough since with a bounded number of
  calls no thread can go on for ever while another waits. Making a call, crashing
  and starting a view change are not fair.
* `ViewChange`: weak fairness of the members' steps taken together: one thread per
  member evaluates all its predicates, rows arrive, and the SST reports a crash. One
  condition is enough, as no step can be repeated for ever. Joining, leaving,
  crashing and sending are not fair.
* `LogRecovery` is about safety only and has no fairness.

### Disagreements with the code's own words

Each of these is a run with `"expect": "violation"` and one property.

* `SenderThreadJoin` (`WedgeReturns`): `wedge()` sets `thread_shutdown` and notifies
  without `msg_state_mtx`. Between the sender thread's test and its wait that
  notification is lost and `join()` never returns.
* `MCRaggedEdgeAccepted` (`NoMoreThanAccepted`): a member delivers a message beyond
  `globalMin`, because the limit is the largest sequence number over all senders.
* `MCViewChangeLeader` (`ViewsAgree`): three members; the leader proposes a join and
  crashes. One survivor acknowledged the join, the other becomes leader and
  proposes the removal as the same change number. `nAcked` is only a count: the
  acknowledgement of the join passes for one of the removal, and the two survivors
  compute different next views. It takes four nodes and the crash of a leader in a
  join; in `MCViewChange`, where a leader's crash and four nodes do not come
  together, the views agree.
* `MCViewChangeRank` (`SuspicionIsNoticed`): `last_suspected` is indexed by rank and
  never reset. After the member of rank 1 has been removed, the next member of
  rank 1 that leaves is not noticed.

### Seen while modelling, not a run of their own

Multicast and persistence:

* With persistence a delivered message keeps its buffer until it is on disk, but
  `get_position` looks at `delivered_num` only, so the other members may send the
  next window while the buffers of this one wait for the disk:
  `assert(!free_message_buffers.empty())` (`derecho_group_impl.h:374`) can fail.
  An instance of `RaggedEdge` with persistence reaches the state. `BufferAvailable`
  is therefore checked without it, and `AssertionsHold` of `GroupTransition` speaks
  of groups without a file name.
* With persistence, `should_send` waits for `persisted_num` to reach the turn one
  window back. A skipped turn is never written, so a queued message may wait for
  ever (`derecho_group_impl.h:648`). `RoundsAreDelivered` names exactly this state
  as its exception (`WaitsForSkippedTurn`). `QueuedIsSent` of the sender thread
  speaks of groups without a file name, because the notification after
  `persisted_num` arrives may be lost as well.
* `FileWriter`'s threads wait without a predicate: the first message is not
  written until the second comes if it is handed over before the writer thread
  first waits, and not at all if the destructor comes first. `NoticedIsDone`
  therefore starts from a thread that has been woken.
* After a restart `FileWriter` counts offsets from 0 although the data file is
  opened for appending, and puts a second header between the records. The
  recovery tools expect one header: `RecordsLocateMessages` counts from where the
  process started, and `TailIsCounted` is about a log of one run.
* `send_loop` tests `thread_shutdown` just before `rdmc::send`, but `wedge` destroys
  the RDMC groups without `msg_state_mtx` (`derecho_group_impl.h:666`, 620): the group
  may be gone by then, and what RDMC does with the call is outside this repository.
* `log_tail_length` starts its scan with the numbers (0, 0, 0). For the first
  message of sender 0 in view 0 it reads no record and returns the whole length.

Transition:

* Messages that are not yet on disk keep the keys of the old view, while their
  callback computes a key in the new one (`derecho_group_impl.h:250-261`): the
  assertion fails, or the callback finds another message and `persisted_num` gets
  a number of the wrong one. A new message whose number is taken is not
  entered in `non_persistent_messages`, and its buffer is freed while `FileWriter`
  still reads it.
* The same messages go through `convert_msg`, which advances
  `future_message_index` for each of them. The receivers count from 0, so that the
  next message of this member has an index nobody will count, and `should_send`
  waits for it for ever.
* Callbacks that were bound before `set_message_written_upcall` call into the group
  that is gone; the assignment itself is not synchronized with the writer thread.

Remote calls (`RemoteCalls` reaches each state; `state` says which):

* delivery may overtake `toFulfillQueue.push` (`derecho_group_impl.h:776-785`), and
  `front()` of the empty queue is undefined;
* `while(!send())` spins in a wedged group with `view_mutex` held, and the view
  change waits for that mutex;
* the cleanup delivers calls after `wedge()` has cleared the sockets, and the
  assertion in `tcp_connections::write` fails;
* `p2pSend` and `p2pQuery` run without `view_mutex` and may write to a wedged
  group or end up in one that has been replaced;
* replies on their way at a view change are lost; nobody sends them again;
* in the cleanup a member may deliver calls of a sender that another member has not
  received (`MCRaggedEdgeAccepted`). If the caller has delivered its call, or is gone,
  nobody sends it again, and the objects of the two members differ from then on
  (`Diverged`). `ObjectsAgree` says that this is the only difference;
* a query to listed nodes that is entered after the view upcall hears nothing of a
  node that is gone;
* `std::set_difference` gets member lists in the order of joining, not sorted. It
  still names every member that is removed, but may also name one that stays: the
  change from `<2, 1>` to `<1>` reports member 1 (see "Remote calls" in section 4).

Not in the model: a function that returns nothing. Its `PendingResults` is pushed on
`toFulfillQueue` like any other (`derecho_group_impl.h:785`), but popped only when
there is a reply (lines 449-461), so that after such a call a query to the group
fulfills the wrong entry. And as it needs no reply, a member that delivers it in the
cleanup does not run into the assertion in `write` and goes on. Nor: `PendingResults::set_value` and `set_exception` run under different
mutexes in the new group; `p2pBuffer` is shared by all callers; `ret.count` is
asserted outside `ret_lock`; `probe_all` always serves the lowest id first; a
blocking TCP write holds `sockets_mutex`; the recovery constructor sends a
joining client no objects, which `join_existing` reads (`managed_group_impl.h:694`).

View files, recovery, membership:

* `load_view` declares an array whose size it may not have read (`RecoveryAborts`);
  the view number taken at recovery is not saved, so a second crash takes it again.
* `log_recovery_helper.sh` counts the answers of others only, so that the search
  never ends for a group of two. It removes `receive_dir` before it looks there for
  the members that answered (line 46): no log is ever compared or completed. It
  uses `my_rank` of the view it started with as an index into the latest one
  (line 67) and reads `local_ip` before `member_ips` is set (line 22).
* `View::merge_changes` does not reset `found` for each failed member
  (`view_impl.h:113`), and the proposals live in an array of `MAX_MEMBERS` entries
  (`managed_group_impl.h:705`); neither is reached by groups of the modelled size.
* `derecho_row.h:34` says `delivered_num` "must be at least stable_num"; it is at
  most `stable_num` (`DeliveredIsKnownStable`).
* `ViewChange`: a follower that waits for the old leader's `globalMinReady` and
  becomes the leader waits for its own row for ever; a member that fails between
  `start_view_change` and the handshakes is not marked failed in the next view
  and stops the barrier (`WaitsInVain`). These are the two exceptions of
  `ChangesComplete`: the first leader has gone, or a member waits in vain. The plan of
  `MCViewChangeLeader` reaches the first state, `MCViewChange` the second. A crash that leaves no majority ends in an exception at those who
  are left, the leader included, and so in the first exception. A suspicion that
  nobody notices (`MCViewChangeRank`) is not proposed and so is no change that has to
  complete. A member that installs a removal it had
  acknowledged without having marked the member failed ends up with
  `nFailed = -1`, which shifts the majority test by one.

### Invariants kept beside the runs

Every module has a type invariant. Those of `SenderThread`, `FileWriter`,
`ViewFile`, `LogRecovery`, `RaggedEdge`, `GroupTransition`, `RemoteCalls` and
`ViewChange` hold in the same instances and can be added to their cfgs; the runs
list the properties that say something about the system. `RecoveryGoesForward`
(`LogRecovery`) holds too and is proved instead.

### Mutants

Every checked property has an operator commented "Wrong" beside the definition
it replaces: a bug that a change to the code could make (a dropped condition,
a minimum over the wrong rows, a notification that wakes nobody, an echo that is
forgotten). `Next` never uses them; TLC finds the property violated when one takes
the place of the definition after it.

## 4. Proofs

Checked by TLAPS for all values of the constants that satisfy the named assumptions
of the modules: any number of members, any window, any bound, both modes.

| Theorem | Statement |
|---|---|
| `DerechoGroupSafetyProofs!TypeCorrect` | `Spec => []TypeOK` |
| `DerechoGroupSafetyProofs!InvariantCorrect` | `Spec => []IInv` |
| `DerechoGroupSafetyProofs!SeqNumSafety` | `Spec => []SeqNumCorrect` |
| `DerechoGroupSafetyProofs!StableNumSafety` | `Spec => []StableNumCorrect` |
| `DerechoGroupSafetyProofs!KnownStableSafety` | `Spec => []DeliveredIsKnownStable` |
| `DerechoGroupSafetyProofs!DeliverySafety` | `Spec => []DeliveredIsReceived` |
| `DerechoGroupSafetyProofs!NumberingSafety` | `Spec => []NumberingAgrees` |
| `DerechoGroupSafetyProofs!NoRegression` | `Spec => ColumnsNeverRegress` |
| `DerechoGroupSafetyProofs!PersistenceSafety` | `Spec => []PersistedPrefix` |
| `DerechoGroupAtomicProofs!HistoryCorrect` | `Spec => []HInv` |
| `DerechoGroupAtomicProofs!AtomicMulticastImplemented` | `Spec => ImplementsAtomicMulticast` |
| `DerechoGroupAtomicProofs!BufferSafety` | `Spec => []BuffersConserved` |
| `DerechoGroupAtomicProofs!BufferAvailability` | `Spec => [](~ Persistent => BufferAvailable)` |
| `RaggedEdgeProofs!EdgeCorrect` | `EdgeSpec => []EInv` |
| `RaggedEdgeProofs!EdgeTypeCorrect` | `EdgeSpec => []EdgeTypeOK` |
| `RaggedEdgeProofs!EdgeSeqNumSafety` | `EdgeSpec => [](SeqNumCorrect /\ NumberingAgrees)` |
| `RaggedEdgeProofs!FinalCounts` | `EdgeSpec => []CountsAreFinal` |
| `RaggedEdgeProofs!AcceptedDelivered` | `EdgeSpec => []AcceptedIsDelivered` |
| `RaggedEdgeProofs!VirtualSynchrony` | `EdgeSpec => []DeliveredSurvives` |
| `RaggedEdgeProofs!EdgeBufferAvailability` | `EdgeSpec => [](~ Persistent => BufferAvailable)` |
| `FileWriterProofs!InvariantCorrect` | `Spec => []IInv` |
| `FileWriterProofs!UpcallSafety` | `Spec => []UpcallsFollowTheFile` |
| `FileWriterProofs!OffsetSafety` | `Spec => []RecordsLocateMessages` |
| `FileWriterProofs!TailSafety` | `Spec => []TailIsCounted` |
| `FileWriterProofs!TypeCorrect` | `Spec => []TypeOK` |
| `SenderThreadProofs!PipelineSafety` | `Spec => []PipelineBounded` |
| `SenderThreadProofs!WakeupSafety` | `Spec => []NoLostWakeup` |
| `LogRecoveryProofs!SavedViewSafety` | `RecoverySpec => []SavedViewIsFound` |
| `LogRecoveryProofs!RecoveryForward` | `RecoverySpec => RecoveryGoesForward` |
| `LogRecoveryProofs!TypeCorrect` | `RecoverySpec => []RecoveryTypeOK` |
| `RemoteCallsProofs!TypeCorrect` | `Spec => []TypeOK` |
| `RemoteCallsProofs!FrontDelivered` | `Spec => []FrontIsDelivered` |
| `RemoteCallsProofs!RemovedAnswered` | `Spec => []RemovedAreAnswered` |
| `RemoteCallsProofs!ObjectsEqual` | `Spec => []ObjectsAgree` |
| `RemoteCallsProofs!WhenRemovedAreGone` | plans with ascending lists, or that only add members, satisfy `RemovedAreGone` |
| `RemoteCallsProofs!PromisesSetOnce` | `RemovedAreGone` implies `Spec => []PromiseSetOnce` |
| `RemoteCallsProofs!CallsImplemented` | `RemovedAreGone` implies `Spec => ImplementsCalls` |
| `GroupTransitionProofs!TransitionTypeCorrect` | `Spec => []TypeOK` |
| `GroupTransitionProofs!TransitionInvariance` | `Spec => []IInv` |
| `GroupTransitionProofs!NothingIsLost` | `Spec => []NothingLostOrRepeated` |
| `GroupTransitionProofs!NumberingIsContinued` | `Spec => []NumberingContinues` |
| `GroupTransitionProofs!NoBufferIsLost` | `Spec => []BuffersConserved` |
| `GroupTransitionProofs!AssertionsOfTransition` | `Spec => []AssertionsHold` |

### What the columns promise

`SeqNumCorrect` alone is not inductive: a message may be filed
under a number its sender did not give it as far as the type invariant knows, and
copies may say anything. `IInv` adds

* `CopiesTrail`: a copy of a growing column never exceeds the row it copies;
* `SeqNumBeforeGaps`: `seq_num` ends before the first missing message of every
  sender. The lemma `GapIsFirst` says that the first gap the handler computes
  (smallest count, first sender with it) has this property, by arithmetic on the
  round-robin order (`SeqNumMonotone`, `SeqNumReflectsOrder`);
* `StableNumCorrect` and `DeliveredIsKnownStable`, which follow from each other
  along the chain *received, stable, delivered* with `CopiesTrail` at each link;
* `OwnMessages` and `Filed`: senders send their own messages and no message is
  filed below its own number, so that a delivered sequence number bounds the
  index that is passed to the application;
* `DeliveredIsReceived` itself.

One lemma per action shows that it keeps `Promises` (`RdmcReceiveSafe`,
`StabilityTrigSafe`, `DeliveryTrigSafe`, ...); `NothingDisturbed` covers the
actions that touch none of it.

### Numbers

`NumberingAgrees` depends on the whole way of a message. `OInv` adds to `IInv` that
the messages of a sender form a chain: each has the number that follows the turns
skipped by the one before it (`After`). There are numbers `handed` and `queued` such
that the chain leads from the next number a receiver counts, through its
current receive and what RDMC has for it, to `handed`; from there through the queue
to `queued`; and through the allocated message to `future_message_index`
(`SenderChain`, `ReceiverChain`). Each action moves one message from one link to the
next. The sender thread is the interesting one: `should_send` lets it go on once
its previous message has been counted, and the chain shows that then nothing is
between the count and the queue. `OneReceive` and the arithmetic fact that no two
messages have one sequence number (`SeqNumInjective`) make the receive handler find
the message that RDMC has completed.

### Columns as counters

`seq_num` and `stable_num` cannot go back because the handlers test it;
`delivered_num` and `persisted_num` are assigned. `CInv` adds to `OInv` that what
waits for its delivery has been counted (`Counted`), has a number of its own
(`DistinctNumbers`) and comes after what has been delivered (`Undelivered`): a
message that is filed comes after `seq_num`, which bounds `stable_num`, which bounds
`delivered_num`. `DiskFollows` says the same of the queue of the FileWriter. For
`PersistedPrefix`, `Backlog` says which message of `delivered` each write is, and
that its map entry is found by its number.

### One sequence of upcalls

The refinement of `AtomicMulticast` has to say why a step of one member never
contradicts what another has already given to its application. `HInv` adds to
`CInv` what the history `sent` has to do with the variables of the code:

* `SentInOrder` and `AllAnnounced`: the numbers of the messages that are sent grow,
  and whatever is under way was sent by its sender, who has sent and will send
  nothing in the turns that the message skips;
* `ContentIsSent`: an entry that waits for its delivery has content exactly if its
  number was sent; the empty entries are the skipped turns;
* `CountedIsKept`: what was sent and has been counted is in the map or has been
  given, and nobody counts further than the sender can still send;
* `GivenInOrder`: a member gives messages in the round-robin order, below
  `delivered_num`;
* `CommonOrder` and `NoGaps`: position by position the members agree, and of each
  sender they have given a prefix.

The step that matters is `DeliveryTrig`: a message is given by `i` when it is the
first in its map and stable in all rows. If another member is ahead, its next upcall
has been counted by `i` (`DeliveredIsReceived`), so it is waiting at `i` and cannot
come before the first; and it was sent, so it is not skipped. Each handler then is
a step `Deliver` or `Submit` of the abstract specification, or a stutter (`GroupStep`).

### Buffers

`Buffers` says of each member that its places are finite sets (an optional has one
element at most) and that they add up (`Balanced`). One lemma per action moves a
buffer from one place to the next (`BuffersMoved`). Two of them need the earlier
invariants: the sender thread overwrites `current_send`, which is empty by the chain
of `OInv`; and a handler that files a message adds an entry that was not yet there,
because what is in the map has been counted.

That they are enough (`BufferAvailability`) is a counting argument over all senders.
`Room` adds `WithinWindow`: whatever number a sender has given out, every member has
delivered the turn one window back, because `get_position` has tested it and
`delivered_num` does not go back. Each buffer that a member uses is for a number
of one sender that it has not delivered itself: filed messages by `Undelivered`, all
others because they have not been counted (`NotDelivered`). So the numbers of one
sender lie in one window (`OneWindow`), no two uses are for the same number
(`UsesDiffer`), and if a message came while all `WindowSize * N` buffers were in
use, two uses would share one of `WindowSize * N` turns (the pigeonhole principle,
`FS_PigeonHole`). With persistence a delivered message keeps its buffer, and the
theorem would be false, hence `~ Persistent` in it.

### The end of the view

`EInv` has two halves. Until the leader's cleanup, `HInv` and `Buffers` hold as in a
running group (`ViewGoesOn`, with `Room`). The leader can do its cleanup only after every member
has said `wedged`, and says so only after the last handler, so that from then on
every member is frozen (`Frozen`) but for its own cleanup, and the minimum stays the
minimum (`IsMinimum`). For each member there is a state before and one after it:
`BeforeCleanup` says that it has given accepted messages only and still has all that
it counted; `AfterCleanup`, that it has given every accepted message of every sender
(`AllDelivered`). All that a member had given before is accepted because every member
had received it (`DeliveredIsReceived`): that is `VirtualSynchrony`.

### FileWriter

The messages of one run of the process are numbered from `start`. `current_offset` counts
those that have a record; one more may be in the data file only (`BeingWritten`), and
one may have its record while it is still at the head of `pending_writes`
(`BeingQueued`). The invariant says for each queue and file which of the messages of
the run it holds, in order: called back, waiting for the callback, waiting to be
written. A crash cuts all of it off at once and starts the count again.

### Sender thread

`PipelineBounded` and `NoLostWakeup` follow from an invariant of five parts: the
types, `QueueWithinWindow` (`get_position` never hands out more than a window),
`AwakeMaySend` (what made `should_wake` true stays true until the message is sent:
the columns only grow), `PipelineBounded` itself, and `SleepsForAReason`: without
persistence the thread goes to sleep, and stays asleep without a notification on its
way, only if nothing is queued or its previous message has not been received.

### View files

The invariant of `LogRecoveryProofs` says that the view file always holds the last
view saved, completely, and that the swap file is complete before it takes the
other's place (`FilesAreSafe`); that the member and its files have no view the group
has not agreed on (`FollowsGroup`); and that a script that runs has a view
(`ScriptHasView`). A restart takes the number after that of the complete view
it finds, which is at least the last one saved (`SavedViewIsFound`): that is
`RecoveryGoesForward`.

### Remote calls

For every set of plans with one or two views, whatever ids the members have and in
whatever order, every set of callers, of members that throw and of targets, and
any number of calls.

Two functions need an induction. `Select` (what of a sequence is in a set: the
constructor of the next group takes over a member's own undelivered messages in
their order) and `set_difference` (the loop of the standard library) are recursive
functions on sequences and on steps. The induction theorems of the library take an
operator as their parameter; here one set of naturals is shown to be all of `Nat`,
by its least missing element (`Least`, `NatSet`), and the lengths of sequences are
handled the same way (`SeqSet`). From `DifferenceWalk` follow `NothingMissed`,
that `set_difference` contains every element that is only in the first list, in
whatever order the lists are; and `NothingTooMuch`, that it contains no other if
both ascend. `NothingForJoining` says the same of a second list that continues the
first, ascending or not. `RemovedAreGone` is the hypothesis that it never names a
member that stays. `PromisesSetOnce` and `CallsImplemented` need it; the other
theorems hold without it.

The invariant `IInv` has these parts:

* `PhasesFit` and `CutFits`: in which phase of the view change a member can be, and
  that nobody delivers beyond the limit `cut` of the first view once the leader has
  set it;
* `MissingFits`: what a member has not received lies below `cut` and is, of each
  caller, the end of its calls;
* `OrdersFit`: a call has one place in the order of a view. It is in both orders
  only if it lies beyond `cut` in the first or its caller has not received it. A call
  that is sent again is not executed twice at a member that goes on: whoever has
  received it and executes it in the cleanup replies to the caller, for which there is
  no connection any more, and stops with the assertion in `write`;
* `QueuesFit`: `toFulfillQueue`, with the call that `derechoCallerSend` is about to
  push, is what the member has passed over of its own (`PassedOver`) and what it has yet
  to deliver of its own, in the order of delivery. This is `FrontIsDelivered`. The step
  that matters is the installation of the second view: what was passed over and what is
  beyond `cut` comes back in the same order (`SelectConcat`, `RestConcat`). It needs
  that what a member misses of its own is the end (`MissingFits`);
* `AppFits`, `FulfilledFits`, `AnswersFit`: whose call the application is busy with,
  who is to answer, and that in the second view nobody waits for a member that is
  gone. `DeliverOwn` fills `dest_nodes` in the first view and the view upcall
  answers for the ones that left; a call delivered in the second view waits for
  members of that view only;
* `ExecutionsFit` and `PacketsFit`: an ordered call is executed by whoever has
  delivered it, a request on its way has not been executed, an answer on its way
  has and is not known to the caller, and of one call there is one packet on a
  connection at most;
* `OutcomesFit`: who has answered has executed the call, and who is reported as
  removed is in `RemovedMembers` and the caller in the second view. As it has no
  connection to them any more, an answer that is late cannot arrive
  (`PromisesSetOnce`);
* `ObjectsFit`: the objects of a member have executed the calls to the group of the
  first view up to `cut` that they have seen (`SeenCalls`: the leader's in the case
  of a client, which gets its objects after the leader's cleanup), and then those of
  the second view that the member has delivered. Two members that go on differ in what
  they have seen only by calls that are in `Diverged`: hence `ObjectsAgree`.

Each part has a lemma that says that any step keeps it (`QueuesStep`, `ObjectsStep`,
...), with a case for every action that can disturb it; lemmas such as `CallsStay`,
`MembersStay` and `OrdersGrow` say once for all actions what does not change or
only grows.

### View changes

For every set of plans (sequences of views in which this member is), any window, any
number of messages and skipped turns, with or without persistence.

Two operators need an induction, done with sets of naturals as above. `Sorted`, the
order in which an iterator visits a map, picks for each place the entry with so many
entries before it; `RankOfAll` shows that every place is taken, and `SortedUnion`
that a map whose keys are all smaller comes first, so that a delivery takes a prefix
of what waits. `Turns` adds up the turns that messages take; it depends on the
pauses only (`TurnsSame`).

The invariant `IInv` has, besides the four properties themselves and `TypeOK`:

* `ViewsFit`: this member is in the views that are left, and nobody is there twice;
* `QueueFits` and `ChainFits`: `current_send`, `pending_sends` and `next_send` are
  the member's own messages and form one chain, each with the index after the turns
  of the one before, from the next number that is counted to
  `future_message_index`. What was carried over before it was on disk may leave gaps
  in the chain. Without gaps a chain is `NumberingContinues` (`ChainTurns`), and
  `convert_msg` makes a chain from 0 of whatever it gets (`NewNumbers`);
* `IncomingFits` and `FiledFits`: what another member sends is its next message, what
  waits for its delivery has been counted, lies above `delivered_num` and within its
  sender's window, and has the number of its index;
* `DiskFits`: the keys of unpersisted messages and of the writes that are to come
  are distinct and, until messages cross a view change, belong together:
  `FileWritten` finds its message;
* `WindowFits`: without a disk a member's own messages on their way, what it resends
  included, fit into one window. The messages of the others occupy distinct places of
  the other windows (`OthersWindow`), so that `receive_destination`, which needs
  one more place, finds a buffer (`BufferIsThere`).

Each action has a lemma (`SendKeeps`, `NextViewKeeps`, ...). That a view
ends only if there is another one (`EndFits`) is an invariant of its own.

### Model-checked only

The invariants of `ViewChange`, and `LatestViewIsFound`. Of
`ViewChange`, `ViewsAgree` is false in general (`MCViewChangeLeader`), so that
only what does not rest on it could be proved. Out of the prover's reach are the
liveness properties (fairness, ENABLED: `CallsComplete`, `QueuedIsSent`,
`ChangesComplete` and the others), and induction over data where a library theorem
takes an operator as its parameter, unless it can be written about a set of naturals
as above. No module declares a RECURSIVE operator.

## 5. Not modelled

The ring of changes filling up; the threads of `ManagedGroup` that accept clients
and clean up old views; the copying of log tails, which the script never
reaches; the restart of a group beyond its first member; raw mode
and the timeout thread; calls without a result and the templates that marshal
arguments; the logger, `main.cpp`, the test programs and `experiments/` (no state
of the group); what the SST, RDMC and verbs do inside. `GroupTransition` is the view
of one member: that the new group again implements `AtomicMulticast` follows
by hand from `NumberingIsContinued` and the theorems about `DerechoGroup`, whose initial state
is the one the second constructor leaves, up to the queue.

## 6. Plan

Order of work: the multicast first, as everything else exists to keep its
promise; then what surrounds it; then what persists. Done: `DerechoGroup`, its
abstract specification and first proofs, `SenderThread`, `RaggedEdge`,
`ViewChange`, `GroupTransition`, `RemoteCalls` with `AbstractCalls`, `FileWriter`
with its files, `ViewFile` and `LogRecovery`, and the proofs of section 4. Left:

1. `ViewChange` with four members and a leader crash during a join: agreement on
   `globalMin` between the old and the new leader; the ring of changes; an abstract
   specification (a sequence of views) and its refinement.
2. The restart of a whole group: the recovery constructor of every member on top of
   `LogRecovery`, with its objects.
3. `RemoteCalls` with two view changes and the data race on `PendingResults`.
4. Proofs: `EdgeIsReceived` of `ViewChange` under the condition that the views
   agree; that the group of the next view implements `AtomicMulticast` again, from
   `NumberingIsContinued`.
