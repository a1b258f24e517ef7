---------------------------- MODULE LogRecoveryProofs ----------------------------
(***************************************************************************)
(* Theorems about the view files of a member that crashes, recovers and    *)
(* runs log_recovery_helper.sh, for every group, every sequence of views   *)
(* and every schedule of crashes: the view saved last is always found.     *)
(***************************************************************************)
EXTENDS LogRecovery, TLAPS

(***************************************************************************)
(* The inductive invariant.                                                *)
(***************************************************************************)
\* The view file changes by rename only, and a file that is renamed is complete.
FilesAreSafe ==
    /\ saved = -1 => view_file = Absent
    /\ saved # -1 => view_file = Complete(saved)
    /\ process = "rename" => view_file_swap = Complete(vid)

\* Until the member founds a new group, no number it has comes from a later
\* view than the group has agreed on.
FollowsGroup ==
    ~ restarted =>
        vid <= group_vid /\ saved <= group_vid /\ view_file_swap.vid <= group_vid

\* The script runs in the old group only, and once it runs it has a view.
ScriptHasView ==
    /\ restarted => script = "off"
    /\ script \in {"fetching", "found", "persisting"} => view >= 0

IInv ==
    /\ RecoveryTypeOK
    /\ FilesAreSafe
    /\ FollowsGroup
    /\ ScriptHasView

(***************************************************************************)
(* The view files.                                                         *)
(***************************************************************************)
\* A file that load_view may choose has a number, if only -1.
LEMMA ContentVid ==
    ASSUME NEW c \in Content
    PROVE  /\ c.vid \in -1 .. MaxVid
           /\ c.state = "complete" <=> c.vid \in 0 .. MaxVid
           /\ c.state \in {"absent", "empty", "partial", "complete"}
BY ViewFileAssumption DEF Content, ViewFileAssumption

\* What the files may hold.
LEMMA ContentType ==
    /\ Absent \in Content /\ Empty \in Content /\ Partial \in Content
    /\ \A v \in 0 .. MaxVid : Complete(v) \in Content
BY DEF Content, Absent, Empty, Partial, Complete

\* load_view takes the newer of the two complete views.
LEMMA LoadView ==
    ASSUME TypeOK, FilesAreSafe
    PROVE  /\ load_view \in {view_file, view_file_swap}
           /\ saved # -1 => load_view.state = "complete" /\ load_view.vid >= saved
<1>1. load_view \in {view_file, view_file_swap}
    BY DEF load_view, Newer
<1>2. ASSUME saved # -1
      PROVE  load_view.state = "complete" /\ load_view.vid >= saved
  <2>1. view_file.state = "complete" /\ view_file.vid = saved /\ saved \in Int
    BY <1>2 DEF TypeOK, FilesAreSafe, Complete
  <2>2. view_file_swap.vid \in Int
    BY ContentVid DEF TypeOK
  <2> QED
    BY <2>1, <2>2 DEF load_view, Newer
<1> QED
    BY <1>1, <1>2

\* persist_view's open, write and rename keep the files safe, whoever calls it.
LEMMA OpenSwapSafe ==
    ASSUME TypeOK, FilesAreSafe, OpenSwap, saved' = saved, process' = "write",
           vid' \in 0 .. MaxVid, installed' = installed
    PROVE  TypeOK' /\ FilesAreSafe'
<1>1. TypeOK'
    BY ContentType DEF TypeOK, OpenSwap, ProcessState
<1>2. FilesAreSafe'
    BY DEF FilesAreSafe, OpenSwap
<1> QED
    BY <1>1, <1>2

LEMMA WriteSafe ==
    ASSUME TypeOK, FilesAreSafe, Write
    PROVE  TypeOK' /\ FilesAreSafe'
<1>1. TypeOK'
    BY ContentType DEF TypeOK, Write, ProcessState
<1>2. FilesAreSafe'
    BY DEF FilesAreSafe, Write
<1> QED
    BY <1>1, <1>2

LEMMA RenameSafe ==
    ASSUME TypeOK, FilesAreSafe, RenameSwap, process' \in {"running", "down"},
           vid' = vid, installed' \subseteq 0 .. MaxVid
    PROVE  TypeOK' /\ FilesAreSafe'
<1>1. CASE view_file' = view_file_swap /\ view_file_swap' = Absent /\ saved' = vid
  <2>1. view_file' = Complete(vid) /\ vid \in 0 .. MaxVid /\ vid # -1
    BY <1>1 DEF TypeOK, FilesAreSafe, RenameSwap
  <2>2. TypeOK'
    BY <1>1, <2>1, ContentType DEF TypeOK, ProcessState
  <2>3. FilesAreSafe'
    BY <1>1, <2>1 DEF FilesAreSafe
  <2> QED
    BY <2>2, <2>3
<1>2. CASE UNCHANGED <<view_file, view_file_swap, saved>>
  <2>1. TypeOK'
    BY <1>2 DEF TypeOK, ProcessState
  <2>2. FilesAreSafe'
    BY <1>2 DEF FilesAreSafe
  <2> QED
    BY <2>1, <2>2
<1> QED
    BY <1>1, <1>2 DEF RenameSwap

\* The member stops, or starts again with the view after the one it has found.
LEMMA CrashSafe ==
    ASSUME TypeOK, FilesAreSafe, Crash \/ RecoveryAborts \/ Recover
    PROVE  TypeOK' /\ FilesAreSafe'
<1>1. CASE Crash \/ RecoveryAborts
    BY <1>1 DEF TypeOK, FilesAreSafe, Crash, RecoveryAborts, ProcessState
<1>2. CASE Recover
  <2>1. load_view \in Content
    BY LoadView DEF TypeOK
  <2>2. vid' \in 0 .. MaxVid
    BY <1>2, <2>1, ContentVid, ViewFileAssumption
       DEF Recover, VidAfter, ViewFileAssumption
  <2> QED
    BY <1>2, <2>2 DEF TypeOK, FilesAreSafe, Recover, ProcessState
<1> QED
    BY <1>1, <1>2

(***************************************************************************)
(* The steps of the group, of the member and of the script.                *)
(***************************************************************************)
\* The numbers of the group's views, and who is in them.
LEMMA GroupType ==
    ASSUME RecoveryTypeOK
    PROVE  /\ LastView \in Nat /\ MaxVid \in Nat /\ LastView < MaxVid
           /\ group_vid \in 0 .. LastView
           /\ \A v \in 0 .. group_vid : Views[v] \subseteq Members
BY LogRecoveryAssumption, ViewFileAssumption
   DEF RecoveryTypeOK, LogRecoveryAssumption, ViewFileAssumption

\* The script and what it has fetched are as they were.
LEMMA ScriptKept ==
    ASSUME RecoveryTypeOK, UNCHANGED scriptVars, group_vid' \in 0 .. LastView,
           group_vid <= group_vid'
    PROVE  /\ script' \in ScriptState /\ latest_view' \in BOOLEAN
           /\ view' \in -1 .. group_vid' /\ due' \in -1 .. group_vid'
           /\ Fetched' \subseteq Others
           /\ \A m \in Fetched' : receive_dir'[m] \in 0 .. group_vid'
<1>1. group_vid \in Nat /\ group_vid' \in Nat
    BY GroupType
<1> QED
    BY <1>1 DEF RecoveryTypeOK, scriptVars, Fetched

\* The group goes on to its next view.
LEMMA NextViewSafe ==
    ASSUME IInv, NextView
    PROVE  IInv'
<1> USE DEF IInv
<1>1. /\ group_vid \in 0 .. LastView /\ LastView \in Nat
      /\ group_vid' = group_vid + 1 /\ group_vid' \in 0 .. LastView
    BY GroupType DEF NextView
<1>2. TypeOK' /\ FilesAreSafe' /\ ScriptHasView'
    BY DEF NextView, vars, scriptVars, RecoveryTypeOK, TypeOK, FilesAreSafe, ScriptHasView
<1>3. FollowsGroup'
  <2>1. vid \in Int /\ saved \in Int /\ view_file_swap.vid \in Int
    BY ContentVid DEF RecoveryTypeOK, TypeOK
  <2> QED
    BY <1>1, <2>1 DEF NextView, vars, FollowsGroup
<1>4. attending' \subseteq Views[group_vid]'
    BY DEF NextView
<1>5. other_saved' \in [Others -> -1 .. group_vid']
    BY <1>1 DEF NextView, RecoveryTypeOK
<1>6. group_vid' \in DOMAIN Views
    BY <1>1, LogRecoveryAssumption DEF LogRecoveryAssumption
<1>7. crashed' \subseteq Others /\ restarted' \in BOOLEAN
    BY DEF NextView, RecoveryTypeOK
<1>8. UNCHANGED scriptVars
    BY DEF NextView
<1>9. RecoveryTypeOK'
    BY <1>1, <1>2, <1>4, <1>5, <1>6, <1>7, <1>8, ScriptKept DEF RecoveryTypeOK
<1> QED
    BY <1>2, <1>3, <1>9

\* Another member saves its view or crashes.
LEMMA OthersSafe ==
    ASSUME IInv, SaveView \/ OtherCrashes
    PROVE  IInv'
<1> USE DEF IInv
<1>1. /\ UNCHANGED vars /\ UNCHANGED scriptVars
      /\ UNCHANGED <<group_vid, attending, restarted>>
    BY DEF SaveView, OtherCrashes
<1>2. TypeOK' /\ FilesAreSafe' /\ ScriptHasView' /\ FollowsGroup'
    BY <1>1 DEF vars, scriptVars, RecoveryTypeOK, TypeOK, FilesAreSafe, ScriptHasView,
                FollowsGroup
<1>3. group_vid \in 0 .. LastView /\ Views[group_vid] \subseteq Members
    BY GroupType
<1>4. other_saved' \in [Others -> -1 .. group_vid]
  <2>1. CASE SaveView
    BY <1>3, <2>1 DEF SaveView, RecoveryTypeOK, Others
  <2>2. CASE OtherCrashes
    BY <2>2 DEF OtherCrashes, RecoveryTypeOK
  <2> QED
    BY <2>1, <2>2
<1>5. crashed' \subseteq Others
    BY LogRecoveryAssumption
       DEF SaveView, OtherCrashes, RecoveryTypeOK, Others, LogRecoveryAssumption
<1>6. RecoveryTypeOK'
  <2>1. /\ script' \in ScriptState /\ latest_view' \in BOOLEAN
        /\ view' \in -1 .. group_vid' /\ due' \in -1 .. group_vid'
        /\ Fetched' \subseteq Others
        /\ \A m \in Fetched' : receive_dir'[m] \in 0 .. group_vid'
    BY <1>1, <1>3, ScriptKept
  <2> QED
    BY <1>1, <1>2, <1>4, <1>5, <2>1 DEF RecoveryTypeOK
<1> QED
    BY <1>2, <1>6

\* The member that recovers, its files and the script change, the group does not.
LEMMA GroupKept ==
    ASSUME RecoveryTypeOK, UNCHANGED groupVars, TypeOK',
           script' \in ScriptState, latest_view' \in BOOLEAN,
           view' \in -1 .. group_vid, due' \in -1 .. group_vid,
           DOMAIN receive_dir' \subseteq Others,
           \A m \in DOMAIN receive_dir' : receive_dir'[m] \in 0 .. group_vid
    PROVE  RecoveryTypeOK'
BY DEF RecoveryTypeOK, groupVars, Fetched

\* The same for the steps that leave the script alone.
LEMMA ScriptAlone ==
    ASSUME RecoveryTypeOK, UNCHANGED <<view, receive_dir, latest_view, due>>,
           script' \in ScriptState, TypeOK', UNCHANGED <<group_vid, attending,
           other_saved, crashed>>, restarted' \in BOOLEAN
    PROVE  RecoveryTypeOK'
BY DEF RecoveryTypeOK, Fetched

\* The member persists its view: the process writes and renames.
LEMMA LocalPersistSafe ==
    ASSUME IInv, LocalPersistView \/ LocalWrite \/ LocalRename
    PROVE  IInv'
<1> USE DEF IInv
<1>1. UNCHANGED groupVars /\ UNCHANGED scriptVars
    BY DEF LocalPersistView, LocalWrite, LocalRename
<1>2. TypeOK /\ group_vid \in Nat /\ MaxVid \in Nat
    BY GroupType DEF RecoveryTypeOK
<1>3. TypeOK' /\ FilesAreSafe'
  <2>1. CASE LocalPersistView
    <3>1. vid' \in 0 .. MaxVid
      BY <1>2, <2>1 DEF LocalPersistView, PersistView, TypeOK
    <3> QED
      BY <1>2, <2>1, <3>1, OpenSwapSafe DEF LocalPersistView, PersistView
  <2>2. CASE LocalWrite
    BY <1>2, <2>2, WriteSafe DEF LocalWrite
  <2>3. CASE LocalRename
    <3>1. installed' \subseteq 0 .. MaxVid
      BY <1>2, <2>3 DEF LocalRename, Rename, TypeOK
    <3> QED
      BY <1>2, <2>3, <3>1, RenameSafe DEF LocalRename, Rename
  <2> QED
    BY <2>1, <2>2, <2>3
<1>4. FollowsGroup'
  <2> SUFFICES ASSUME ~ restarted
               PROVE  vid' <= group_vid /\ saved' <= group_vid
                      /\ view_file_swap'.vid <= group_vid
    BY <1>1 DEF FollowsGroup, groupVars
  <2>1. CASE LocalPersistView
    BY <1>2, <2>1 DEF LocalPersistView, PersistView, OpenSwap, Empty, FollowsGroup
  <2>2. CASE LocalWrite
    BY <1>2, <2>2 DEF LocalWrite, Write, Partial, Complete, FollowsGroup
  <2>3. CASE LocalRename
    BY <1>2, <2>3 DEF LocalRename, Rename, RenameSwap, Absent, FollowsGroup
  <2> QED
    BY <2>1, <2>2, <2>3
<1>5. ScriptHasView'
    BY <1>1 DEF ScriptHasView, groupVars, scriptVars
<1>6. RecoveryTypeOK'
    BY <1>1, <1>3, ScriptAlone DEF groupVars, scriptVars, RecoveryTypeOK
<1> QED
    BY <1>3, <1>4, <1>5, <1>6

\* The process or the script stops; the process starts again, or fails to.
LEMMA LocalCrashSafe ==
    ASSUME IInv, LocalCrash \/ LocalRecover \/ LocalRecoveryAborts
    PROVE  IInv'
<1> USE DEF IInv
<1>1. TypeOK' /\ FilesAreSafe'
  <2>1. CASE Crash \/ Recover \/ RecoveryAborts
    BY <2>1, CrashSafe DEF RecoveryTypeOK
  <2>2. CASE UNCHANGED vars
    BY <2>2 DEF vars, RecoveryTypeOK, TypeOK, FilesAreSafe
  <2> QED
    BY <2>1, <2>2 DEF LocalCrash, LocalRecover, LocalRecoveryAborts
<1>2. script' \in ScriptState /\ restarted' \in BOOLEAN
    BY DEF LocalCrash, LocalRecover, LocalRecoveryAborts, ScriptState, RecoveryTypeOK,
           groupVars, scriptVars
<1>3. RecoveryTypeOK'
    BY <1>1, <1>2, ScriptAlone
       DEF LocalCrash, LocalRecover, LocalRecoveryAborts, groupVars, scriptVars
<1>4. FollowsGroup'
  <2>1. CASE LocalCrash \/ LocalRecoveryAborts
    BY <2>1 DEF LocalCrash, LocalRecoveryAborts, Crash, RecoveryAborts, groupVars, vars,
                FollowsGroup
  <2>2. CASE LocalRecover
    BY <2>2 DEF LocalRecover, FollowsGroup
  <2> QED
    BY <2>1, <2>2
<1>5. ScriptHasView'
    BY DEF LocalCrash, LocalRecover, LocalRecoveryAborts, groupVars, scriptVars, ScriptHasView
<1> QED
    BY <1>1, <1>3, <1>4, <1>5

\* The script reads the member's view, fetches files and ends a round.
LEMMA ScriptReadsSafe ==
    ASSUME IInv, StartScript \/ FetchView \/ AdoptView \/ EndRound
    PROVE  IInv'
<1> USE DEF IInv
<1>1. UNCHANGED vars /\ UNCHANGED groupVars /\ ~ restarted
    BY DEF StartScript, FetchView, AdoptView, EndRound, ScriptHasView
<1>2. TypeOK' /\ FilesAreSafe' /\ FollowsGroup'
    BY <1>1 DEF vars, groupVars, RecoveryTypeOK, TypeOK, FilesAreSafe, FollowsGroup
<1>3. group_vid \in Nat /\ (\A v \in 0 .. group_vid : Views[v] \subseteq Members)
    BY GroupType
<1>4. CASE StartScript
  <2>1. load_view \in {view_file, view_file_swap} /\ load_view \in Content
    BY LoadView DEF RecoveryTypeOK, TypeOK
  <2>2. load_view.vid \in 0 .. MaxVid
    BY <1>4, <2>1, ContentVid DEF StartScript
  <2>3. load_view.vid <= group_vid
    <3>1. view_file.vid <= group_vid
      BY <1>1, <1>3 DEF FilesAreSafe, FollowsGroup, Absent, Complete
    <3> QED
      BY <1>1, <2>1, <3>1 DEF FollowsGroup
  <2>4. view' \in 0 .. group_vid /\ script' = "fetching" /\ receive_dir' = <<>>
    BY <1>3, <1>4, <2>2, <2>3, GroupType DEF StartScript
  <2>5. due' \in -1 .. group_vid
    BY <1>3, <1>4 DEF StartScript, SavedEverywhere
  <2>6. RecoveryTypeOK'
    BY <1>1, <1>2, <1>4, <2>4, <2>5, GroupKept
       DEF StartScript, ScriptState, RecoveryTypeOK
  <2>7. ScriptHasView'
    BY <1>1, <2>4, <1>3 DEF ScriptHasView, groupVars
  <2> QED
    BY <1>2, <2>6, <2>7
<1>5. CASE FetchView
  <2>1. PICK m \in Views[view] \ ({Local} \cup Fetched) :
            /\ other_saved[m] # -1
            /\ receive_dir' = [k \in Fetched \cup {m} |->
                                   IF k = m THEN other_saved[m] ELSE receive_dir[k]]
    BY <1>5 DEF FetchView
  <2>2. view \in 0 .. group_vid
    BY <1>3, <1>5 DEF FetchView, ScriptHasView, RecoveryTypeOK
  <2>3. m \in Others /\ other_saved[m] \in 0 .. group_vid
    BY <1>3, <2>1, <2>2 DEF Others, RecoveryTypeOK
  <2>4. DOMAIN receive_dir' \subseteq Others
    BY <2>1, <2>3 DEF RecoveryTypeOK
  <2>5. \A k \in DOMAIN receive_dir' : receive_dir'[k] \in 0 .. group_vid
    BY <2>1, <2>3 DEF RecoveryTypeOK
  <2>6. UNCHANGED <<script, view, latest_view, due>>
    BY <1>5 DEF FetchView
  <2>7. RecoveryTypeOK'
    BY <1>1, <1>2, <2>4, <2>5, <2>6, GroupKept DEF RecoveryTypeOK
  <2>8. ScriptHasView'
    BY <1>1, <2>6 DEF ScriptHasView, groupVars
  <2> QED
    BY <1>2, <2>7, <2>8
<1>6. CASE AdoptView
  <2>1. view' \in 0 .. group_vid
    BY <1>6 DEF AdoptView, NewerViews, RecoveryTypeOK
  <2>2. receive_dir' = <<>> /\ latest_view' = TRUE /\ UNCHANGED <<script, due>>
    BY <1>6 DEF AdoptView
  <2>3. RecoveryTypeOK'
    BY <1>1, <1>2, <1>3, <2>1, <2>2, GroupKept DEF RecoveryTypeOK
  <2>4. ScriptHasView'
    BY <1>1, <1>3, <2>1, <2>2 DEF ScriptHasView, groupVars
  <2> QED
    BY <1>2, <2>3, <2>4
<1>7. CASE EndRound
  <2>1. /\ receive_dir' = <<>> /\ UNCHANGED <<view, latest_view, due>>
        /\ script' \in {"fetching", "found", "done"} /\ script = "fetching"
    BY <1>7 DEF EndRound
  <2>2. RecoveryTypeOK'
    BY <1>1, <1>2, <2>1, GroupKept DEF RecoveryTypeOK, ScriptState
  <2>3. ScriptHasView'
    BY <1>1, <2>1 DEF ScriptHasView, groupVars
  <2> QED
    BY <1>2, <2>2, <2>3
<1> QED
    BY <1>4, <1>5, <1>6, <1>7

\* create_state_file writes the view the script has found.
LEMMA ScriptWritesSafe ==
    ASSUME IInv, ScriptPersists \/ ScriptRenames
    PROVE  IInv'
<1> USE DEF IInv
<1>1. /\ UNCHANGED groupVars /\ UNCHANGED <<view, receive_dir, latest_view, due>>
      /\ ~ restarted /\ view \in 0 .. group_vid
      /\ script' \in {"persisting", "done"}
  <2>1. view >= 0 /\ view \in -1 .. group_vid /\ group_vid \in Nat
    BY GroupType DEF ScriptPersists, ScriptRenames, ScriptHasView, RecoveryTypeOK
  <2> QED
    BY <2>1 DEF ScriptPersists, ScriptRenames, ScriptHasView
<1>2. group_vid \in 0 .. MaxVid /\ group_vid \in Nat /\ MaxVid \in Nat
    BY GroupType
<1>3. TypeOK' /\ FilesAreSafe'
  <2>1. CASE ScriptPersists
    <3>1. vid' \in 0 .. MaxVid
      BY <1>1, <1>2, <2>1 DEF ScriptPersists
    <3> QED
      BY <2>1, <3>1, OpenSwapSafe DEF ScriptPersists, RecoveryTypeOK
  <2>2. CASE ScriptRenames
    <3>1. installed' \subseteq 0 .. MaxVid
      BY <2>2 DEF ScriptRenames, RecoveryTypeOK, TypeOK
    <3> QED
      BY <2>2, <3>1, RenameSafe DEF ScriptRenames, RecoveryTypeOK
  <2> QED
    BY <2>1, <2>2
<1>4. FollowsGroup'
  <2>1. CASE ScriptPersists
    BY <1>1, <1>2, <2>1 DEF ScriptPersists, OpenSwap, Empty, FollowsGroup, groupVars
  <2>2. CASE ScriptRenames
    BY <1>1, <1>2, <2>2 DEF ScriptRenames, RenameSwap, Absent, FollowsGroup, groupVars
  <2> QED
    BY <2>1, <2>2
<1>5. RecoveryTypeOK'
    BY <1>1, <1>3, ScriptAlone DEF ScriptState, groupVars, RecoveryTypeOK
<1>6. ScriptHasView'
    BY <1>1, <1>2 DEF ScriptHasView, groupVars
<1> QED
    BY <1>3, <1>4, <1>5, <1>6

\* The group starts with view 0; nothing has been saved or searched.
LEMMA InvariantInit == RecoveryInit => IInv
<1> SUFFICES ASSUME RecoveryInit
             PROVE  IInv
    OBVIOUS
<1>1. 0 \in DOMAIN Views /\ LastView \in Nat /\ MaxVid \in Nat
    BY LogRecoveryAssumption, ViewFileAssumption
       DEF LogRecoveryAssumption, ViewFileAssumption
<1>2. TypeOK
    BY <1>1, ContentType DEF RecoveryInit, Init, TypeOK, ProcessState
<1>3. FilesAreSafe /\ FollowsGroup /\ ScriptHasView
    BY DEF RecoveryInit, Init, FilesAreSafe, FollowsGroup, ScriptHasView, Absent
<1>4. other_saved \in [Others -> -1 .. group_vid]
    BY DEF RecoveryInit
<1>5. restarted \in BOOLEAN /\ latest_view \in BOOLEAN
    BY DEF RecoveryInit
<1>6. Fetched = {}
    BY DEF RecoveryInit, Fetched
<1>7. /\ attending \subseteq Views[group_vid] /\ group_vid = 0 /\ crashed = {}
      /\ script = "off" /\ view = -1 /\ due = -1
    BY DEF RecoveryInit
<1>8. RecoveryTypeOK
    BY <1>1, <1>2, <1>4, <1>5, <1>6, <1>7 DEF RecoveryTypeOK, ScriptState
<1> QED
    BY <1>3, <1>8 DEF IInv

\* Every step keeps the invariant.
LEMMA InvariantStep == IInv /\ [RecoveryNext]_recoveryVars => IInv'
<1> SUFFICES ASSUME IInv, [RecoveryNext]_recoveryVars
             PROVE  IInv'
    OBVIOUS
<1>1. CASE NextView
    BY <1>1, NextViewSafe
<1>2. CASE SaveView \/ OtherCrashes
    BY <1>2, OthersSafe
<1>3. CASE LocalPersistView \/ LocalWrite \/ LocalRename
    BY <1>3, LocalPersistSafe
<1>4. CASE LocalCrash \/ LocalRecover \/ LocalRecoveryAborts
    BY <1>4, LocalCrashSafe
<1>5. CASE StartScript \/ FetchView \/ AdoptView \/ EndRound
    BY <1>5, ScriptReadsSafe
<1>6. CASE ScriptPersists \/ ScriptRenames
    BY <1>6, ScriptWritesSafe
<1>7. CASE UNCHANGED recoveryVars
    BY <1>7 DEF recoveryVars, vars, groupVars, scriptVars, IInv, RecoveryTypeOK, TypeOK,
                FilesAreSafe, FollowsGroup, ScriptHasView, Fetched
<1> QED
    BY <1>1, <1>2, <1>3, <1>4, <1>5, <1>6, <1>7 DEF RecoveryNext, ScriptStep

(***************************************************************************)
(* The theorems.                                                           *)
(***************************************************************************)
\* The files, the numbers and what the script has fetched are of their types.
THEOREM TypeCorrect == RecoverySpec => []RecoveryTypeOK
<1>1. IInv => RecoveryTypeOK
    BY DEF IInv
<1> QED
    BY <1>1, InvariantInit, InvariantStep, PTL DEF RecoverySpec

\* persist_view and load_view: whatever crashes, a complete view that is at least
\* as new as the last one saved can be loaded at any moment.
THEOREM SavedViewSafety == RecoverySpec => []SavedViewIsFound
<1>1. IInv => SavedViewIsFound
    BY LoadView DEF IInv, RecoveryTypeOK, SavedViewIsFound
<1> QED
    BY <1>1, InvariantInit, InvariantStep, PTL DEF RecoverySpec

\* The recovery constructor never restarts the member with the number of a view
\* it has saved, or with an older one.
THEOREM RecoveryForward == RecoverySpec => RecoveryGoesForward
<1>1. ASSUME IInv, [RecoveryNext]_recoveryVars
      PROVE  [process = "down" /\ process' = "running" => vid' > saved]_vars
  <2> SUFFICES ASSUME process = "down", process' = "running"
               PROVE  vid' > saved
    BY DEF vars
  <2>1. TypeOK /\ FilesAreSafe
    BY <1>1 DEF IInv, RecoveryTypeOK
  <2>2. Recover
    <3>1. ~ UNCHANGED vars
      BY DEF vars
    <3> QED
      BY <1>1, <3>1
         DEF RecoveryNext, ScriptStep, NextView, SaveView, OtherCrashes, LocalPersistView,
             PersistView, LocalWrite, Write, LocalRename, Rename, RenameSwap, LocalCrash,
             Crash, LocalRecover, LocalRecoveryAborts, RecoveryAborts, StartScript,
             FetchView, AdoptView, EndRound, ScriptPersists, ScriptRenames, recoveryVars
  <2>3. load_view \in Content /\ load_view.state = "complete"
    BY <2>1, <2>2, LoadView DEF Recover, TypeOK
  <2>4. load_view.vid \in Nat
    BY <2>3, ContentVid
  <2>5. saved \in Int /\ (saved = -1 \/ load_view.vid >= saved)
    BY <2>1, LoadView DEF TypeOK
  <2> QED
    BY <2>2, <2>4, <2>5 DEF Recover, VidAfter
<1> QED
    BY <1>1, InvariantInit, InvariantStep, PTL DEF RecoverySpec, RecoveryGoesForward

=============================================================================
