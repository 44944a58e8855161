------------------------------ MODULE SafeDir ------------------------------
(***************************************************************************)
(* The controller's state directory (core/src/runtime/state.rs, SafeDir):  *)
(* files replaced through a synced temporary and a rename, or unlinked,    *)
(* with the directory synced afterwards.                                   *)
(*                                                                         *)
(* disk[f] is what a process reads from f now; an absent file reads None.  *)
(* stable[f] is the set of contents f may have after a power loss: a       *)
(* rename or an unlink whose directory sync failed is visible but may or   *)
(* may not survive.  One successful sync settles every file of the         *)
(* directory.                                                              *)
(***************************************************************************)
CONSTANTS File,     \* the files of the directory a specification tells apart
          Value,    \* their possible contents
          None      \* absent: the contents of a missing file

VARIABLES disk, stable

Untouched == disk' = disk /\ stable' = stable

\* Contents the directory may show after a power loss.
Surviving == {d \in [File -> Value \cup {None}] : \A f \in File : d[f] \in stable[f]}

\* File::open(path).sync_all() on the directory: every visible entry is durable.
Sync == stable' = [f \in File |-> {disk'[f]}]

\* atomic_write succeeded: temporary written and synced, renamed, directory synced.
AtomicWriteOk(f, v) ==
    /\ disk' = [disk EXCEPT ![f] = v]
    /\ Sync

\* atomic_write failed.  Before the rename nothing changed; when the directory
\* sync after the rename failed, the new contents are already visible.
AtomicWriteErr(f, v) ==
    \/ Untouched
    \/ /\ disk' = [disk EXCEPT ![f] = v]
       /\ stable' = [stable EXCEPT ![f] = @ \cup {v}]

\* remove_file_with_outcome: Ok, BeforeUnlink and AfterUnlink.
RemoveOk(f) == AtomicWriteOk(f, None)

RemoveBeforeUnlink == Untouched

RemoveAfterUnlink(f) ==
    /\ disk' = [disk EXCEPT ![f] = None]
    /\ stable' = [stable EXCEPT ![f] = @ \cup {None}]

\* remove_file folds both failures into one error.
RemoveErr(f) == RemoveBeforeUnlink \/ RemoveAfterUnlink(f)

\* The machine loses power: unsynced directory entries are kept or lost.
LosePower ==
    /\ disk' \in Surviving
    /\ Sync
=============================================================================
