---------------------------- MODULE LargeResults ---------------------------
(***************************************************************************)
(* The spill store of large results (large_results.py): a private          *)
(* directory of the process, one artifact per oversized answer, written by *)
(* a worker thread under the store's lock, and a close that removes what   *)
(* it can vouch for.  A worker goes on after the call that waited for it   *)
(* was cancelled.                                                          *)
(*                                                                         *)
(* Abstractions.  A writer is the call that spills, and it spills once, so *)
(* it names its artifact.  Permissions, identities and sizes are one fact: *)
(* somebody else has touched the file, or the directory, or not.  The      *)
(* Windows branches are the POSIX ones with other system calls.            *)
(***************************************************************************)
EXTENDS Integers, FiniteSets

CONSTANTS
  Writers      \* calls that may spill

VARIABLES
  root,      \* the directory: absent, present, touched by others or removed
  artifact,  \* the file of each writer
  tracked,   \* LocalLargeResultWriter._paths
  closed,    \* LocalLargeResultWriter._closed
  holder,    \* who holds the lock
  job        \* the worker of each writer

spillVars == <<root, artifact, tracked, closed, holder, job>>

Free == [by |-> "nobody"]
Worker(w) == [by |-> "worker", of |-> w]
Closer == [by |-> "close"]

Over == {"written", "refused", "failed"}

SpillInit ==
  /\ root = "absent"
  /\ artifact = [w \in Writers |-> "none"]
  /\ tracked = {}
  /\ closed = FALSE
  /\ holder = Free
  /\ job = [w \in Writers |-> "none"]

(* write: the call hands its bytes to a worker thread. *)
BeginSpill(w) ==
  /\ job[w] = "none"
  /\ job' = [job EXCEPT ![w] = "queued"]
  /\ UNCHANGED <<root, artifact, tracked, closed, holder>>

(* The thread pool had not started the worker when its call was cancelled. *)
DropSpill(w) ==
  /\ job[w] = "queued"
  /\ job' = [job EXCEPT ![w] = "failed"]
  /\ UNCHANGED <<root, artifact, tracked, closed, holder>>

(* Mutant: a worker that gets the lock after the close does not notice. *)
EnterSpillLate(w) ==
  /\ job[w] = "queued" /\ holder = Free
  /\ job' = [job EXCEPT ![w] = "running"]
  /\ holder' = Worker(w)
  /\ UNCHANGED <<root, artifact, tracked, closed>>

(* The worker takes the lock and looks whether the store is closed. *)
EnterSpill(w) ==
  /\ job[w] = "queued" /\ holder = Free
  /\ IF closed
     THEN job' = [job EXCEPT ![w] = "refused"] /\ holder' = holder
     ELSE job' = [job EXCEPT ![w] = "running"] /\ holder' = Worker(w)
  /\ UNCHANGED <<root, artifact, tracked, closed>>

(* The end of the locked block. *)
LeaveSpill(w, how) ==
  /\ job' = [job EXCEPT ![w] = how]
  /\ holder' = Free

(* _validate_file and the identity: the file is as it was written. *)
Intact(w) == artifact[w] = "whole"

(* _validate_root and the identity fail. *)
RootTouched == root = "touched"

(* The directory is made on first use and looked at every time; an artifact *)
(* is created empty.                                                        *)
OpenArtifact(w) ==
  /\ job[w] = "running" /\ artifact[w] = "none"
  /\ \/ /\ ~RootTouched
        /\ root' = "present"
        /\ artifact' = [artifact EXCEPT ![w] = "partial"]
        /\ UNCHANGED <<job, holder>>
     \/ /\ \/ root' = root                 \* it cannot be made private, is not
           \/ ~RootTouched /\ root' = "present"     \* any more, or takes no file
        /\ artifact' = artifact
        /\ LeaveSpill(w, "failed")
  /\ UNCHANGED <<tracked, closed>>

(* The bytes go to the file; on an error the file is unlinked, if it can be. *)
FillArtifact(w) ==
  /\ job[w] = "running" /\ artifact[w] = "partial"
  /\ \/ /\ artifact' = [artifact EXCEPT ![w] = "whole"]
        /\ UNCHANGED <<job, holder>>
     \/ /\ \/ artifact' = [artifact EXCEPT ![w] = "none"]
           \/ RootTouched /\ artifact' = artifact
        /\ LeaveSpill(w, "failed")
  /\ UNCHANGED <<root, tracked, closed>>

(* The file is looked at again before it is remembered and named. *)
CheckArtifact(w) ==
  /\ job[w] = "running" /\ artifact[w] \in {"whole", "touched"}
  /\ \/ Intact(w) /\ tracked' = tracked \cup {w} /\ LeaveSpill(w, "written")
     \/ (~Intact(w) \/ RootTouched) /\ tracked' = tracked /\ LeaveSpill(w, "failed")
  /\ UNCHANGED <<root, artifact, closed>>

(* Somebody else touches an artifact that is complete. *)
Meddle(w) ==
  /\ artifact[w] = "whole"
  /\ artifact' = [artifact EXCEPT ![w] = "touched"]
  /\ UNCHANGED <<root, tracked, closed, holder, job>>

(* Somebody else replaces the directory or changes its permissions. *)
MeddleRoot ==
  /\ root = "present"
  /\ root' = "touched"
  /\ UNCHANGED <<artifact, tracked, closed, holder, job>>

(* _close: under the lock, once; in a directory that is as it was made it   *)
(* removes the artifacts that are as they were written, and the directory   *)
(* when that was all of them.                                               *)
BeginClose ==
  /\ holder = Free
  /\ closed' = TRUE
  /\ holder' = IF closed \/ root = "absent" \/ RootTouched THEN Free ELSE Closer
  /\ UNCHANGED <<root, artifact, tracked, job>>

InDirectory(w) == artifact[w] \in {"partial", "whole", "touched"}

RemoveArtifact(w) ==
  /\ holder = Closer /\ w \in tracked /\ Intact(w)
  /\ artifact' = [artifact EXCEPT ![w] = "removed"]
  /\ UNCHANGED <<root, tracked, closed, holder, job>>

(* rmdir fails, and is allowed to, while a file is left in the directory.   *)
(* If the directory is touched only now, files in it may be out of reach.   *)
RemoveRoot ==
  /\ holder = Closer
  /\ RootTouched \/ \A w \in tracked : ~Intact(w)
  /\ \/ root' = root /\ (RootTouched \/ \E w \in Writers : InDirectory(w))
     \/ root' = "removed" /\ \A w \in Writers : ~InDirectory(w)
  /\ holder' = Free
  /\ UNCHANGED <<artifact, tracked, closed, job>>

ClosedDown == closed /\ holder # Closer

SpillStep(w) == EnterSpill(w) \/ OpenArtifact(w) \/ FillArtifact(w) \/ CheckArtifact(w)

CloseStep == (\E w \in Writers : RemoveArtifact(w)) \/ RemoveRoot

-----------------------------------------------------------------------------
(* Properties. *)

(* Nothing of the process's results is left behind by a store that has been  *)
(* closed and whose workers have returned, whatever was being written when   *)
(* the close came, unless somebody else has touched an artifact or the       *)
(* directory.                                                                *)
NothingLeft ==
  ClosedDown /\ (\A w \in Writers : job[w] \notin {"queued", "running"}) =>
    \/ RootTouched \/ \E w \in Writers : artifact[w] = "touched"
    \/ root # "present" /\ \A w \in Writers : artifact[w] \in {"none", "removed"}
=============================================================================
