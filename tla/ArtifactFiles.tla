--------------------------- MODULE ArtifactFiles ---------------------------
(***************************************************************************)
(* The files attachments are saved to (LocalArtifactWriter of              *)
(* adapters/reads.py): every download writes a temporary file of its own   *)
(* beside the destination and renames it over the destination, which it    *)
(* has looked at before and just before the rename, and looks at again     *)
(* after it.  Several downloads may name one destination, other programs   *)
(* use the same directory, and the worker thread that writes goes on when  *)
(* the call that waits for it is cancelled.                                *)
(*                                                                         *)
(* Abstractions.  There is one destination.  What makes a parent or an     *)
(* existing destination unfit (a link, another owner, open permissions, no *)
(* regular file) is one fact about it.  Choosing the default path is left  *)
(* out; a name drawn at random is never taken.                             *)
(***************************************************************************)
EXTENDS Integers, FiniteSets

CONSTANTS
  Downloads,     \* calls that may save an attachment
  MaxOutside     \* bound on what other programs do to the destination

VARIABLES
  parent,     \* the directories above the destination
  target,     \* the destination: who wrote what is there, and whether all of it
  temporary,  \* the temporary file of each download
  saving,     \* the worker of each download
  outside     \* what other programs have done

fileVars == <<parent, target, temporary, saving, outside>>

Absent == [by |-> "nobody", whole |-> FALSE]
Owned == [by |-> "owner", whole |-> TRUE]          \* a file of the same user
Foreign == [by |-> "foreign", whole |-> TRUE]      \* nothing that may be replaced
Saved(d, state) == [by |-> "download", of |-> d, whole |-> state = "whole"]

SaveOver == {"saved", "failed"}

FileInit ==
  /\ parent \in {"absent", "fit", "unfit"}
  /\ target \in {Absent, Owned, Foreign}
  /\ temporary = [d \in Downloads |-> "none"]
  /\ saving = [d \in Downloads |-> "none"]
  /\ outside = 0

(* _open_posix_parent makes the directories that are missing and refuses   *)
(* one that is unfit; _validate_existing_target refuses what may not be    *)
(* replaced.                                                               *)
OpenParent == parent' = IF parent = "absent" THEN "fit" ELSE parent

Acceptable == parent # "unfit" /\ target # Foreign

BeginSave(d) ==
  /\ saving[d] = "none"
  /\ saving' = [saving EXCEPT ![d] = "queued"]
  /\ UNCHANGED <<parent, target, temporary, outside>>

DropSave(d) ==
  /\ saving[d] = "queued"
  /\ saving' = [saving EXCEPT ![d] = "failed"]
  /\ UNCHANGED <<parent, target, temporary, outside>>

(* Mutant: no cleanup. *)
GiveUpLeaving(d) ==
  /\ saving' = [saving EXCEPT ![d] = "failed"]
  /\ UNCHANGED temporary

(* The cleanup of _write_posix: its temporary file goes if it is still there. *)
GiveUp(d) ==
  /\ saving' = [saving EXCEPT ![d] = "failed"]
  /\ temporary' = [temporary EXCEPT ![d] = "none"]

OpenTemporary(d) ==
  /\ saving[d] = "queued"
  /\ OpenParent
  /\ \/ /\ Acceptable
        /\ saving' = [saving EXCEPT ![d] = "writing"]
        /\ temporary' = [temporary EXCEPT ![d] = "partial"]
     \/ GiveUp(d)      \* unfit, or the directory takes no new file
  /\ UNCHANGED <<target, outside>>

WriteTemporary(d) ==
  /\ saving[d] = "writing"
  /\ \/ /\ temporary' = [temporary EXCEPT ![d] = "whole"]
        /\ saving' = [saving EXCEPT ![d] = "written"]
     \/ GiveUp(d)
  /\ UNCHANGED <<parent, target, outside>>

(* The destination is looked at again immediately before the rename. *)
RecheckTarget(d) ==
  /\ saving[d] = "written"
  /\ IF target = Foreign
     THEN GiveUp(d)
     ELSE saving' = [saving EXCEPT ![d] = "checked"] /\ UNCHANGED temporary
  /\ UNCHANGED <<parent, target, outside>>

ReplaceTarget(d) ==
  /\ saving[d] = "checked"
  /\ \/ /\ target' = Saved(d, temporary[d])
        /\ temporary' = [temporary EXCEPT ![d] = "none"]
        /\ saving' = [saving EXCEPT ![d] = "replaced"]
     \/ GiveUp(d) /\ UNCHANGED target
  /\ UNCHANGED <<parent, outside>>

(* What is at the destination must be the file this worker has written. *)
VerifyTarget(d) ==
  /\ saving[d] = "replaced"
  /\ saving' = [saving EXCEPT ![d] = IF target = Saved(d, "whole") THEN "saved" ELSE "failed"]
  /\ UNCHANGED <<parent, target, temporary, outside>>

(* Another program puts something at the destination or takes it away. *)
TouchTarget ==
  /\ outside < MaxOutside
  /\ target' \in {Absent, Owned, Foreign} \ {target}
  /\ outside' = outside + 1
  /\ UNCHANGED <<parent, temporary, saving>>

SaveStep(d) ==
  OpenTemporary(d) \/ WriteTemporary(d) \/ RecheckTarget(d) \/ ReplaceTarget(d) \/ VerifyTarget(d)

-----------------------------------------------------------------------------
(* Properties. *)

(* A reader of the destination never sees part of an attachment, whichever *)
(* downloads race for it and whenever they fail or are cancelled, and a    *)
(* download that is over leaves no temporary file beside it.               *)
TargetIsWhole ==
  /\ target.by # "nobody" => target.whole
  /\ \A d \in Downloads : saving[d] \in {"none"} \cup SaveOver => temporary[d] = "none"
=============================================================================
