----------------------------- MODULE EnterRoot -----------------------------
(***************************************************************************)
(* How /init enters the squashfs that holds the system                     *)
(* (pkg/enterchroot/enter.go): it attaches a loop device to the image,     *)
(* starts itself again as enter-root, as process 1 by exec and otherwise   *)
(* as a child, which mounts the device, pivots into it and executes        *)
(* /usr/init.  All who share a kernel, containers too, share the devices.  *)
(*                                                                         *)
(* Nobody detaches a device that process 1 attached.  Otherwise the parent *)
(* does after the child has ended, and a goroutine asks the kernel for it  *)
(* after three seconds, in case the parent is killed.  Neither looks at    *)
(* whether that works.                                                     *)
(***************************************************************************)
EXTENDS Naturals, FiniteSets

CONSTANTS
  Enters,    \* processes that run /init
  Devices    \* loop devices

VARIABLES
  file,      \* whose image a device is attached to
  auto,      \* devices that the kernel clears when their last user leaves
  users,     \* who has a device mounted
  step,      \* where a process is
  first,     \* the ones that are process 1, of the machine or of a container
  mine,      \* the device a process takes for its own
  asks,      \* how far the goroutine of a process is
  root,      \* whose image is mounted as the root of a process
  \* history
  beaten,    \* one attached nothing, mostly because its device was taken by then
  late,      \* one was not mounted after three seconds
  stale,     \* one detached a device that was another's by then
  lost       \* ended, killed or not, without detaching its device and before the
             \* kernel was asked for it

devVars == <<file, auto, users>>
enterVars == <<devVars, step, first, mine, asks, root, beaten, late, stale, lost>>

None == "none"

ASSUME NamesAssumption == None \notin Enters \cup Devices

EnterTypeOK ==
  /\ file \in [Devices -> Enters \cup {None}]
  /\ auto \subseteq Devices
  /\ users \in [Devices -> SUBSET Enters]
  /\ step \in [Enters -> {"start", "attach", "mount", "pivot", "init", "exit", "gone"}]
  /\ mine \in [Enters -> Devices \cup {None}]
  /\ root \in [Enters -> Enters \cup {None}]
  /\ asks \in [Enters -> {"none", "asleep", "info", "failed", "done"}]
  /\ {first, lost} \subseteq SUBSET Enters /\ {beaten, late, stale} \subseteq BOOLEAN

EnterInit ==
  /\ file = [d \in Devices |-> None] /\ auto = {} /\ users = [d \in Devices |-> {}]
  /\ step = [p \in Enters |-> "start"] /\ first \in SUBSET Enters
  /\ mine = [p \in Enters |-> None] /\ asks = [p \in Enters |-> "none"]
  /\ root = [p \in Enters |-> None]
  /\ beaten = FALSE /\ late = FALSE /\ stale = FALSE /\ lost = {}

Goto(p, s) == step' = [step EXCEPT ![p] = s]

\* p's namespace is gone, and with it its mount; the kernel clears what it was
\* asked to.
Leaves(p) ==
  LET left == [d \in Devices |-> users[d] \ {p}]
      cleared == {d \in auto : p \in users[d] /\ left[d] = {}} IN
  /\ users' = left
  /\ file' = [d \in Devices |-> IF d \in cleared THEN None ELSE file[d]]
  /\ auto' = auto \ cleared
  /\ root' = [root EXCEPT ![p] = None]

-----------------------------------------------------------------------------
(* Mount *)

\* ensureloop, and LOOP_CTL_GET_FREE.
GetFree(p) ==
  /\ step[p] = "start"
  /\ \E d \in Devices : file[d] = None /\ mine' = [mine EXCEPT ![p] = d]
  /\ Goto(p, "attach")
  /\ UNCHANGED <<devVars, first, asks, root, beaten, late, stale, lost>>

\* ENTER_ROOT, or the file beside the program, is a directory: it is bound.
Bind(p) ==
  /\ step[p] = "start"
  /\ root' = [root EXCEPT ![p] = p]
  /\ Goto(p, "pivot")
  /\ UNCHANGED <<devVars, first, mine, asks, beaten, late, stale, lost>>

\* LOOP_SET_FD and LOOP_SET_STATUS.  losetup.Attach does not report that the
\* first failed, because the device was taken or for another reason.
Attach(p) ==
  LET d == mine[p] IN
  /\ step[p] = "attach"
  /\ \/ file[d] = None /\ file' = [file EXCEPT ![d] = p] /\ UNCHANGED beaten
     \/ beaten' = TRUE /\ UNCHANGED file
  /\ asks' = IF p \in first THEN asks ELSE [asks EXCEPT ![p] = "asleep"]
  /\ Goto(p, "mount")
  /\ UNCHANGED <<auto, users, first, mine, root, late, stale, lost>>

\* There is no image or no free device, or an earlier call fails.  If the second
\* call does, what Attach has done is undone, or that fails as well.
EnterFails(p) ==
  LET d == mine[p] IN
  /\ step[p] \in {"start", "attach"}
  /\ \/ UNCHANGED <<file, lost>>
     \/ /\ step[p] = "attach" /\ file[d] = None
        /\ file' = [file EXCEPT ![d] = p] /\ lost' = lost \cup {p}
  /\ Goto(p, "gone")
  /\ UNCHANGED <<auto, users, first, mine, asks, root, beaten, late, stale>>

Asking(p, s) == asks' = [asks EXCEPT ![p] = s]

\* The kernel clears the device when its last user leaves, or at once.
Clear(d) ==
  IF file[d] = None THEN UNCHANGED <<file, auto>>
  ELSE IF users[d] = {} THEN file' = [file EXCEPT ![d] = None] /\ auto' = auto \ {d}
  ELSE auto' = auto \cup {d} /\ UNCHANGED file

\* Three seconds later; the goroutine returns in silence if there is nothing
\* attached, or a call fails.
GetInfo(p) ==
  /\ asks[p] = "asleep"
  /\ \/ file[mine[p]] # None /\ Asking(p, "info")
     \/ Asking(p, "failed")
  /\ UNCHANGED <<devVars, step, first, mine, root, beaten, late, stale, lost>>

\* Mutant: the flag is set as soon as the device is attached.
SetInfo_Soon(p) ==
  /\ asks[p] \in {"asleep", "info"}
  /\ Clear(mine[p]) /\ Asking(p, "done")
  /\ UNCHANGED <<users, step, first, mine, root, beaten, late, stale, lost>>

\* A device that nobody has mounted is cleared there and then, when SetInfo
\* closes it.
SetInfo(p) ==
  /\ asks[p] = "info"
  /\ \/ /\ file[mine[p]] # None /\ Clear(mine[p]) /\ Asking(p, "done")
        /\ late' = (late \/ step[p] = "mount")
     \/ Asking(p, "failed") /\ UNCHANGED <<file, auto, late>>
  /\ UNCHANGED <<users, step, first, mine, root, beaten, stale, lost>>

\* The process ends, and its goroutine with it.
Quits(p) == Asking(p, "none") /\ Goto(p, "gone")

\* The kernel holds no order to clear what p attached.
Unasked(p) == p \notin first /\ mine[p] # None /\ asks[p] # "done"

\* The deferred Detach, after the child has ended; a device in use is cleared
\* by its last user.  Its error is ignored.
Detach(p) ==
  LET d == mine[p] IN
  /\ step[p] = "exit" /\ p \notin first /\ d # None
  /\ \/ /\ Clear(d) /\ UNCHANGED lost
        /\ stale' = (stale \/ file[d] \notin {None, p})
     \/ /\ UNCHANGED <<file, auto, stale>>
        /\ lost' = IF Unasked(p) THEN lost \cup {p} ELSE lost
  /\ Quits(p)
  /\ UNCHANGED <<users, first, mine, root, beaten, late>>

\* Mutant: the error of the child is returned at once, without the deferred call.
Gone_Undetached(p) ==
  /\ step[p] = "exit"
  /\ Quits(p)
  /\ UNCHANGED <<devVars, first, mine, root, beaten, late, stale, lost>>

\* Process 1 has become the child: there is nobody left to detach.
Gone(p) ==
  /\ step[p] = "exit" /\ (p \in first \/ mine[p] = None)
  /\ Goto(p, "gone")
  /\ UNCHANGED <<devVars, first, mine, asks, root, beaten, late, stale, lost>>

-----------------------------------------------------------------------------
(* run, in the child *)

MountImage(p) ==
  LET d == mine[p] IN
  /\ step[p] = "mount" /\ file[d] # None
  /\ root' = [root EXCEPT ![p] = file[d]]
  /\ users' = [users EXCEPT ![d] = @ \cup {p}]
  /\ Goto(p, "pivot")
  /\ UNCHANGED <<file, auto, first, mine, asks, beaten, late, stale, lost>>

\* Mutant: without /usr/init in the image a shell is started instead.
Pivot_Shell(p) ==
  /\ step[p] = "pivot"
  /\ Goto(p, "shell")
  /\ UNCHANGED <<devVars, first, mine, asks, root, beaten, late, stale, lost>>

\* Links, pivot_root, chroot, and exec of /usr/init.
Pivot(p) ==
  /\ step[p] = "pivot"
  /\ Goto(p, "init")
  /\ UNCHANGED <<devVars, first, mine, asks, root, beaten, late, stale, lost>>

\* enter-root fails, or the system that it became ends.
ChildEnds(p) ==
  /\ step[p] \in {"mount", "pivot", "init"}
  /\ Leaves(p)
  /\ Goto(p, "exit")
  /\ UNCHANGED <<first, mine, asks, beaten, late, stale, lost>>

\* The parent is killed, and the child with it (Pdeathsig).
Killed(p) ==
  /\ step[p] \in {"mount", "pivot", "init"} /\ p \notin first
  /\ Leaves(p)
  /\ lost' = IF Unasked(p) THEN lost \cup {p} ELSE lost
  /\ Quits(p)
  /\ UNCHANGED <<first, mine, beaten, late, stale>>

Enter(p) ==
  \/ GetFree(p) \/ Bind(p) \/ EnterFails(p) \/ Attach(p) \/ GetInfo(p)
  \/ SetInfo(p) \/ Detach(p) \/ Gone(p) \/ MountImage(p) \/ Pivot(p) \/ ChildEnds(p) \/ Killed(p)

=============================================================================
