------------------------------- MODULE LogRecovery -------------------------------
(***************************************************************************)
(* The search for the latest view before a member restarts                 *)
(* (log_recovery_helper.sh), on top of that member's own view file         *)
(* (ViewFile).  The script reads the member's view, fetches the view files *)
(* of the members of that view, starts again with the first newer view it  *)
(* meets, and stops when enough members of its view have answered and none *)
(* has a newer one.  create_state_file then writes the view with           *)
(* persist_view, for the constructor of ManagedGroup to find.              *)
(*                                                                         *)
(* The group that the member has been in goes from view to view as         *)
(* ViewChange describes: its members meet at the barrier of the next view  *)
(* and then save it, each in its own time.  ViewFile shows that a member's *)
(* file holds the view it saved last.  A fetch may come too late or not    *)
(* come at all, whether the process of the other member still runs or not. *)
(***************************************************************************)
EXTENDS ViewFile, FiniteSets

CONSTANTS
    Members,    \* ids of everyone that is in a view of the group
    Local,      \* the member that recovers
    MayCrash,   \* bound: the other members that may crash
    LastView,   \* bound on the number of a view of the group
    Views       \* bound: the members of each view the group goes through

ASSUME LogRecoveryAssumption ==
    /\ Members \subseteq Nat /\ IsFiniteSet(Members)
    /\ Local \in Members /\ MayCrash \subseteq Members \ {Local}
    /\ LastView \in Nat /\ LastView < MaxVid
    /\ Views \in [0 .. LastView -> SUBSET Members]

Others == Members \ {Local}

VARIABLES
    group_vid,     \* the view the group has agreed on last
    attending,     \* the members that were at its barrier
    other_saved,   \* the view each other member has saved, or -1
    crashed,       \* other members whose process has crashed
    restarted,     \* whether the member has founded a new group
    script,        \* where log_recovery_helper.sh is
    view,          \* $view: the number of the latest view it knows of
    receive_dir,   \* the view files fetched in this round, by sender
    latest_view,   \* whether the file latest_view.paxosstate exists
    due            \* history: the view the search has to find

groupVars == <<group_vid, attending, other_saved, crashed, restarted>>

scriptVars == <<script, view, receive_dir, latest_view, due>>

recoveryVars == <<vars, groupVars, scriptVars>>

ScriptState == {"off", "fetching", "found", "persisting", "done"}

RecoveryInit ==
    /\ Init
    /\ group_vid = 0
    /\ attending = Views[0]
    /\ other_saved = [m \in Others |-> -1]
    /\ crashed = {}
    /\ restarted = FALSE
    /\ script = "off" /\ view = -1
    /\ receive_dir = <<>>
    /\ latest_view = FALSE
    /\ due = -1

-----------------------------------------------------------------------------
(***************************************************************************)
(* The group.                                                              *)
(***************************************************************************)
Alive(m) ==
    IF m = Local THEN Up /\ ~ restarted /\ script # "persisting"
    ELSE m \notin crashed

\* m has finished the change to the current view.
UsesView(m) ==
    IF m = Local THEN group_vid \in installed /\ process = "running"
    ELSE other_saved[m] = group_vid

HasSaved(m) == IF m = Local THEN saved = group_vid ELSE other_saved[m] = group_vid

\* The members marked failed, the one that the next view removes included.
Failed == {m \in Views[group_vid] : Alive(m) => m \notin Views[group_vid + 1]}

\* Fewer members are marked failed than make suspected_changed_trig throw; of
\* its two tests the one after the increment is the stricter.
Majority == Cardinality(Failed) < (Cardinality(Views[group_vid]) + 1) \div 2

\* The members of the current view that have not failed go to the barrier of
\* the next one, together with a member that joins.
NextView ==
    /\ group_vid < LastView /\ ~ restarted      \* bound
    /\ Majority
    /\ \A m \in Views[group_vid] : Alive(m) => UsesView(m)
    /\ Local \in Views[group_vid + 1] \/ ~ Alive(Local)
    /\ \E m \in Views[group_vid] \cap Views[group_vid + 1] : Alive(m)
    /\ \A m \in Views[group_vid + 1] \ Views[group_vid] : Alive(m)
    /\ group_vid' = group_vid + 1
    /\ attending' = {m \in Views[group_vid'] : Alive(m)}
    /\ UNCHANGED <<vars, other_saved, crashed, restarted, scriptVars>>

\* Another member saves the view before it uses it.
SaveView ==
    /\ ~ restarted      \* bound
    /\ \E m \in attending \ {Local} :
        /\ m \notin crashed
        /\ other_saved[m] < group_vid
        /\ other_saved' = [other_saved EXCEPT ![m] = group_vid]
    /\ UNCHANGED <<vars, group_vid, attending, crashed, restarted, scriptVars>>

OtherCrashes ==
    /\ ~ restarted      \* bound
    /\ \E m \in MayCrash \ crashed : crashed' = crashed \cup {m}
    /\ UNCHANGED <<vars, group_vid, attending, other_saved, restarted, scriptVars>>

(***************************************************************************)
(* The member itself, as in ViewFile.                                      *)
(***************************************************************************)
LocalPersistView ==
    /\ \/ restarted
       \/ vid' = group_vid /\ Local \in attending
    /\ PersistView
    /\ UNCHANGED <<groupVars, scriptVars>>

LocalWrite == Write /\ UNCHANGED <<groupVars, scriptVars>>

LocalRename ==
    /\ script # "persisting"
    /\ Rename
    /\ UNCHANGED <<groupVars, scriptVars>>

\* The process or the script stops at any point.
LocalCrash ==
    /\ \/ Crash
       \/ process = "down" /\ script # "off" /\ UNCHANGED vars
    /\ script' = "off"
    /\ UNCHANGED <<groupVars, view, receive_dir, latest_view, due>>

\* The constructor for recovery, when the member is the first of the view it
\* finds: it starts a new group.  The script need not have been used.
LocalRecover ==
    /\ script \in {"off", "done"}
    /\ load_view.state = "complete"
    /\ ~ restarted => \A m \in Views[load_view.vid] : Local <= m
    /\ Recover
    /\ restarted' = TRUE
    /\ script' = "off"
    /\ UNCHANGED <<group_vid, attending, other_saved, crashed, view, receive_dir,
                   latest_view, due>>

LocalRecoveryAborts ==
    /\ script \in {"off", "done"}
    /\ RecoveryAborts
    /\ UNCHANGED <<groupVars, scriptVars>>

(***************************************************************************)
(* log_recovery_helper.sh.                                                 *)
(***************************************************************************)
\* The latest view that all the members at its barrier have saved.
SavedEverywhere ==
    IF \A m \in attending : HasSaved(m) THEN group_vid ELSE group_vid - 1

\* parse_state_file reads the member's own view.  Without one $view is empty
\* and the search never ends.
StartScript ==
    /\ process = "down" /\ script = "off"
    /\ ~ restarted      \* bound
    /\ load_view.state = "complete" /\ ~ SizeMissing
    /\ script' = "fetching"
    /\ view' = load_view.vid
    /\ receive_dir' = <<>>
    /\ due' = SavedEverywhere
    /\ UNCHANGED <<vars, groupVars, latest_view>>

Fetched == DOMAIN receive_dir

\* scp of the file of one member of the view.
FetchView ==
    /\ script = "fetching"
    /\ \E m \in Views[view] \ ({Local} \cup Fetched) :
        /\ other_saved[m] # -1
        /\ receive_dir' = [k \in Fetched \cup {m} |->
                               IF k = m THEN other_saved[m] ELSE receive_dir[k]]
    /\ UNCHANGED <<vars, groupVars, script, view, latest_view, due>>

NewerViews == {m \in Fetched : receive_dir[m] > view}

\* Wrong: one answer is enough.
OneAnswer == 1

quorum_size == Cardinality(Views[view]) \div 2 + 1

\* The first member in the order of the ranks that has a newer view; the
\* search starts again with that view.
AdoptView ==
    /\ script = "fetching"
    /\ \E m \in NewerViews :
        /\ \A k \in NewerViews : m <= k
        /\ view' = receive_dir[m]
    /\ receive_dir' = <<>>
    /\ latest_view' = TRUE
    /\ UNCHANGED <<vars, groupVars, script, due>>

\* Nobody has a newer view: retry, or stop if enough members have answered.
EndRound ==
    /\ script = "fetching"
    /\ NewerViews = {}
    /\ receive_dir' = <<>>
    /\ IF Cardinality(Fetched) < quorum_size
       THEN receive_dir # <<>> /\ UNCHANGED script
       ELSE script' = IF latest_view THEN "found" ELSE "done"
    /\ UNCHANGED <<vars, groupVars, view, latest_view, due>>

\* create_state_file: the file latest_view.paxosstate is never removed.
ScriptPersists ==
    /\ script = "found" /\ process = "down"
    /\ OpenSwap
    /\ vid' = view
    /\ process' = "write"
    /\ script' = "persisting"
    /\ UNCHANGED <<saved, installed, groupVars, view, receive_dir, latest_view, due>>

ScriptRenames ==
    /\ script = "persisting"
    /\ RenameSwap
    /\ process' = "down"
    /\ script' = "done"
    /\ UNCHANGED <<vid, installed, groupVars, view, receive_dir, latest_view, due>>

ScriptStep ==
    StartScript \/ FetchView \/ AdoptView \/ EndRound \/ ScriptPersists \/ ScriptRenames

RecoveryNext ==
    \/ NextView \/ SaveView \/ OtherCrashes
    \/ LocalPersistView \/ LocalWrite \/ LocalRename
    \/ LocalCrash \/ LocalRecover \/ LocalRecoveryAborts
    \/ ScriptStep

RecoverySpec == RecoveryInit /\ [][RecoveryNext]_recoveryVars

-----------------------------------------------------------------------------
\* Every variable keeps its type, and what was fetched is not newer than what
\* the group has agreed on.
RecoveryTypeOK ==
    /\ TypeOK
    /\ group_vid \in DOMAIN Views
    /\ attending \subseteq Views[group_vid]
    /\ other_saved \in [Others -> -1 .. group_vid]
    /\ crashed \subseteq Others
    /\ restarted \in BOOLEAN
    /\ script \in ScriptState
    /\ view \in -1 .. group_vid
    /\ Fetched \subseteq Others
    /\ \A m \in Fetched : receive_dir[m] \in 0 .. group_vid
    /\ latest_view \in BOOLEAN
    /\ due \in -1 .. group_vid

\* "a quorum of members are alive and we have the latest view!"
\* (log_recovery_helper.sh:132): the search does not end with a view older than
\* one that all its members had saved when the search began, whichever members
\* could be reached.
LatestViewIsFound ==
    [][script = "fetching" /\ script' \in {"found", "done"} => view >= due]_recoveryVars

=============================================================================
