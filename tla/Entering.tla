------------------------------ MODULE Entering ------------------------------
(***************************************************************************)
(* A machine's /init relocates its root (cmd main.go:initrd), looks for    *)
(* its image and enters it; in the system that it becomes, containers with *)
(* the same program enter theirs on the same kernel.                       *)
(***************************************************************************)
EXTENDS Relocate, EnterRoot, ImageSearch

CONSTANTS
  Machine,   \* the machine's own process
  Shipped    \* bound: the programs of machines whose containers are followed

ASSUME MachineAssumption == Machine \in Enters

vars == <<moveVars, enterVars, searchVars>>

TypeOK == RelocateTypeOK /\ EnterTypeOK /\ SearchTypeOK

Init == RelocateInit /\ EnterInit /\ SearchInit /\ Machine \in first

\* Containers come when the system is up, and end with it.
Runs(p) ==
  IF p = Machine THEN stage = "done"
  ELSE step[Machine] = "init" /\ program \in Shipped

\* The machine has found its image, or its root, without looking into its program.
Beside == offset = 0 /\ ahead = 0 /\ result = "none"

\* What findRoot returned decides how the machine goes on.
FindsRoot ==
  step[Machine] = "start" =>
    \/ Beside
    \/ result = "image" /\ step'[Machine] # "pivot"
    \/ result # "none" /\ step'[Machine] = "gone"

Next ==
  \/ RelocateNext /\ UNCHANGED <<enterVars, searchVars>>
  \/ /\ stage = "done" /\ step[Machine] = "start"
     /\ SearchNext
     /\ UNCHANGED <<moveVars, enterVars>>
  \/ \E p \in Enters :
       Runs(p) /\ Enter(p) /\ (p = Machine => FindsRoot) /\ UNCHANGED <<moveVars, searchVars>>

Spec == Init /\ [][Next]_vars

-----------------------------------------------------------------------------
(* Properties *)

\* At no time is an entry of the initial root in neither file system, and a
\* system that goes on from the new one has them all; no more than one regular
\* file is held twice beyond those whose removal failed, which is what
\* transferroot.go:24-27 is careful about.
MovesWhole ==
  /\ old \cup new = Entries
  /\ ram /\ stage = "done" => new = Entries
  /\ Cardinality(old \cap new \cap Regular) <= moveFaults

\* A process has its own image as its root, or none, unless losetup.Attach hid
\* from somebody that it attached nothing, or a device was not mounted after
\* three seconds, or one was detached that the kernel had cleared, and given to
\* another, already (enter.go:113-132).
RootIsMine ==
  ~beaten /\ ~late /\ ~stale =>
    \A p \in Enters : root[p] \in {None, p}

\* A device whose process is gone is free, or will be when its last user
\* leaves; process 1 keeps its own.  So does who was killed, or whose Detach
\* failed in silence, before the goroutine woke up or after a call of it had
\* failed in silence, and who could not undo an attachment (enter.go:117-140).
NothingLeaks ==
  \A d \in Devices :
    /\ file[d] # None /\ step[file[d]] = "gone"
    /\ file[d] \notin first \cup lost
    => d \in auto /\ users[d] # {}

=============================================================================
