-------------------------------- MODULE ViewFile --------------------------------
(***************************************************************************)
(* How a member keeps its view across crashes: persist_view and load_view  *)
(* (view_impl.h), called by ManagedGroup at the start of a group, at every *)
(* view change and at recovery (managed_group_impl.h).  A file is written  *)
(* with a size first and the serialized view after it; persist_view writes *)
(* a swap file and renames it.  The process may crash at any step; what    *)
(* the operating system has been given stays in the file.                  *)
(*                                                                         *)
(* load_view does not look whether it could read the size: the size is     *)
(* then not initialized, and the array of that size that it declares next  *)
(* may or may not abort the process.                                       *)
(***************************************************************************)
EXTENDS Integers

CONSTANT MaxVid      \* bound on the number of a view
ASSUME ViewFileAssumption == MaxVid \in Nat

VARIABLES
    view_file,
    view_file_swap,
    process,      \* what the member is doing
    vid,          \* the number of its current view
    saved,        \* history: the last view persist_view has saved, or -1
    installed     \* history: the views the member has used, with restarts

vars == <<view_file, view_file_swap, process, vid, saved, installed>>

\* What a file holds.  "empty": the size is missing; "partial": the view is.
Content ==
    [state : {"absent", "empty", "partial"}, vid : {-1}]
        \cup [state : {"complete"}, vid : 0 .. MaxVid]

Absent == [state |-> "absent", vid |-> -1]
Empty == [state |-> "empty", vid |-> -1]
Partial == [state |-> "partial", vid |-> -1]
Complete(v) == [state |-> "complete", vid |-> v]

\* persist_view is at the statement named; "down" and "aborted": no process.
ProcessState == {"running", "write", "write_rest", "rename", "down", "aborted"}

Up == process \notin {"down", "aborted"}

\* The first constructor starts a group with view 0 and saves it.
Init ==
    /\ view_file = Absent /\ view_file_swap = Absent
    /\ process = "running"
    /\ vid = 0
    /\ saved = -1
    /\ installed = {}

-----------------------------------------------------------------------------
(***************************************************************************)
(* A view change: the next view becomes the current one and is saved.      *)
(***************************************************************************)
\* Wrong: writes the file in place.
OpenInPlace ==
    /\ view_file' = Empty
    /\ UNCHANGED view_file_swap

OpenSwap ==
    /\ view_file_swap' = Empty
    /\ UNCHANGED view_file

\* The constructor's persist_view, or a view change's: "write the new view to
\* disk before using it" (managed_group_impl.h).
PersistView ==
    /\ process = "running"
    /\ process' = "write"
    /\ \/ vid \notin installed /\ UNCHANGED vid
       \/ vid \in installed /\ vid < MaxVid /\ vid' = vid + 1      \* bound
    /\ OpenSwap
    /\ UNCHANGED <<saved, installed>>

\* The stream's buffer may reach the file in two parts.
Write ==
    /\ \/ process = "write" /\ process' = "write_rest" /\ view_file_swap' = Partial
       \/ /\ process \in {"write", "write_rest"}
          /\ process' = "rename"
          /\ view_file_swap' = Complete(vid)
    /\ UNCHANGED <<view_file, vid, saved, installed>>

\* rename succeeds, or fails and is reported.
RenameSwap ==
    /\ process = "rename"
    /\ \/ /\ view_file' = view_file_swap
          /\ view_file_swap' = Absent
          /\ saved' = vid
       \/ UNCHANGED <<view_file, view_file_swap, saved>>

\* The view is used, whether it could be saved or not.
Rename ==
    /\ RenameSwap
    /\ process' = "running"
    /\ installed' = installed \cup {vid}
    /\ UNCHANGED vid

Crash ==
    /\ Up
    /\ process' = "down"
    /\ UNCHANGED <<view_file, view_file_swap, vid, saved, installed>>

(***************************************************************************)
(* Recovery: load_view takes the newer of the two complete views; a leader *)
(* that restarts goes on with the next number.  It is not saved.           *)
(***************************************************************************)
Newer(view, swap) ==
    IF \/ swap.state # "complete"
       \/ view.state = "complete" /\ view.vid >= swap.vid
    THEN view
    ELSE swap

load_view == Newer(view_file, view_file_swap)

\* Reading a size that is not there; without any view, the recovery
\* constructor dereferences a null pointer.
SizeMissing == view_file.state = "empty" \/ view_file_swap.state = "empty"

VidAfter(view) == view.vid + 1

Recover ==
    /\ process = "down"
    /\ load_view.state = "complete"
    /\ load_view.vid < MaxVid      \* bound
    /\ vid' = VidAfter(load_view)
    /\ process' = "running"
    /\ installed' = installed \cup {vid'}
    /\ UNCHANGED <<view_file, view_file_swap, saved>>

RecoveryAborts ==
    /\ process = "down"
    /\ SizeMissing \/ load_view.state # "complete"
    /\ process' = "aborted"
    /\ UNCHANGED <<view_file, view_file_swap, vid, saved, installed>>

Next == PersistView \/ Write \/ Rename \/ Crash \/ Recover \/ RecoveryAborts

Spec == Init /\ [][Next]_vars

-----------------------------------------------------------------------------
\* Every variable keeps its type.
TypeOK ==
    /\ view_file \in Content
    /\ view_file_swap \in Content
    /\ process \in ProcessState
    /\ vid \in 0 .. MaxVid
    /\ saved \in -1 .. MaxVid
    /\ installed \subseteq 0 .. MaxVid

\* "Use the 'safe save' paradigm to ensure a crash won't corrupt our saved
\* View file": at any moment load_view would find a complete
\* view that is at least as new as the last one saved.
SavedViewIsFound ==
    saved # -1 => load_view.state = "complete" /\ load_view.vid >= saved

\* A member that recovers never goes back behind a view it has saved.
RecoveryGoesForward == [][process = "down" /\ process' = "running" => vid' > saved]_vars

=============================================================================
