------------------------------ MODULE Relocate ------------------------------
(***************************************************************************)
(* The first thing /init does (pkg/transferroot/transferroot.go): a root   *)
(* in memory is moved, entry by entry, to a new file system in memory on   *)
(* which pivot_root works, and /init is executed once more from there.     *)
(***************************************************************************)
EXTENDS Naturals, FiniteSets

CONSTANTS
  Regular,       \* regular files of the initial root
  Special,       \* its links, devices and pipes
  MaxMoveFaults  \* bound: failing calls

ASSUME RelocateAssumption == Regular \cap Special = {} /\ MaxMoveFaults \in Nat

VARIABLES
  stage,       \* the next part of Relocate
  ram,         \* the root is a ramfs or a tmpfs
  marked,      \* MACULAOS_RELOCATED is in the environment
  old, new,    \* what the two file systems hold
  moved,       \* what the walk has come past
  moveFaults

moveVars == <<stage, ram, marked, old, new, moved, moveFaults>>

Entries == Regular \cup Special
Stages == {"start", "dirs", "move", "delete", "exec", "fatal", "done"}

RelocateTypeOK ==
  /\ stage \in Stages
  /\ ram \in BOOLEAN /\ marked \in BOOLEAN
  /\ old \subseteq Entries /\ new \subseteq Entries /\ moved \subseteq Entries
  /\ moveFaults \in 0 .. MaxMoveFaults

RelocateInit ==
  /\ stage = "start" /\ ram \in BOOLEAN /\ marked = FALSE
  /\ old = Entries /\ new = {} /\ moved = {} /\ moveFaults = 0

MoveFault == moveFaults < MaxMoveFaults /\ moveFaults' = moveFaults + 1

\* The marker is taken out of the environment, so that no program inherits it.
Decide ==
  /\ stage = "start"
  /\ stage' = IF marked \/ ~ram THEN "done" ELSE "dirs"
  /\ marked' = FALSE
  /\ UNCHANGED <<ram, old, new, moved, moveFaults>>

\* copyFS mounts the new root and makes every directory first.
CopyDirs ==
  /\ stage = "dirs" /\ stage' = "move"
  /\ UNCHANGED <<ram, marked, old, new, moved, moveFaults>>

\* A regular file is copied and removed at once; that the removal fails is all
\* right.  Links and devices are made anew and stay.
MoveFile ==
  /\ stage = "move"
  /\ \E e \in Entries \ moved :
       /\ new' = new \cup {e} /\ moved' = moved \cup {e}
       /\ \/ e \in Regular /\ old' = old \ {e} /\ UNCHANGED moveFaults
          \/ e \in Regular /\ UNCHANGED old /\ MoveFault
          \/ e \in Special /\ UNCHANGED <<old, moveFaults>>
  /\ UNCHANGED <<stage, ram, marked>>

\* Mutant: files are removed first, to save memory.
Delete_Unmoved ==
  /\ stage = "move"
  /\ old' = {}
  /\ stage' = "exec"
  /\ UNCHANGED <<ram, marked, new, moved, moveFaults>>

\* After the last entry what is left is deleted, as far as it goes.
DeleteRest ==
  /\ stage = "move" /\ moved = Entries
  /\ old' \in SUBSET old
  /\ IF old' = {} THEN UNCHANGED moveFaults ELSE MoveFault
  /\ stage' = "exec"
  /\ UNCHANGED <<ram, marked, new, moved>>

\* The new root is moved over the old one and /init starts again: what there is
\* from now on is `new`.
Reexec ==
  /\ stage = "exec" /\ stage' = "start" /\ marked' = TRUE
  /\ UNCHANGED <<ram, old, new, moved, moveFaults>>

\* Any other failure is fatal to process 1.
MoveFails ==
  /\ stage \in {"dirs", "move", "exec"} /\ MoveFault
  /\ stage' = "fatal"
  /\ UNCHANGED <<ram, marked, old, new, moved>>

RelocateNext ==
  Decide \/ CopyDirs \/ MoveFile \/ DeleteRest \/ Reexec \/ MoveFails

=============================================================================
