------------------------------ MODULE Upgrade ------------------------------
(***************************************************************************)
(* `maculaos upgrade`: Run (pkg/cli/upgrade/upgrade.go) calls              *)
(* CopyComponent (pkg/system/component.go) for macula, k3s and kernel, in  *)
(* that order, under an flock on one lock file.                            *)
(*                                                                         *)
(* One action is one system call (or an unobservable group of them), so    *)
(* that a killed process, an I/O error or the reboot asked for by another  *)
(* run can fall between any two.  A step reads its control state from pc:  *)
(*                                                                         *)
(*   flock -> stat -> symlink -> mkdtemp -> copy -> stash -> install       *)
(*         -> dropPrevious -> keepPrevious -> switch -> restore -> unlink  *)
(*         -> stat (next component) or sync -> reboot                      *)
(*                                                                         *)
(* restore and unlink are the deferred calls, last in first out; an error  *)
(* before its defer statement is reached skips them.                       *)
(***************************************************************************)
EXTENDS Naturals

CONSTANTS
  Process,     \* runs of `maculaos upgrade`: an operator's, an upgrade pod's
  Version,     \* names of version directories
  Factory,     \* the version the installer wrote
  None,        \* no version: a link that is missing, a source without one
  Installed,   \* the components the destination holds
  Requests,    \* what a run may be asked for (flags and source image)
  MaxFaults,   \* bound: I/O errors in a behaviour
  MaxKills     \* bound: runs cut short in a behaviour

Component == {"macula", "k3s", "kernel"}

\* How much of a directory tree is there.
Extent == {"absent", "partial", "complete"}

\* The flags, and for each component the version `current` names in the source.
Request ==
  [parts   : (SUBSET Component) \ {{}},
   remount : BOOLEAN,
   sync    : BOOLEAN,
   reboot  : BOOLEAN,
   source  : [Component -> Version \cup {None}]]

ASSUME FactoryAssumption == Factory \in Version
ASSUME NoneAssumption == None \notin Version \cup Process \cup Request
ASSUME InstalledAssumption == Installed \subseteq Component
ASSUME RequestsAssumption == Requests \subseteq Request
ASSUME BoundsAssumption == MaxFaults \in Nat /\ MaxKills \in Nat

VARIABLES
  \* the destination's system root, by component
  current,     \* target of the link `current`
  previous,    \* target of the link `previous`
  pending,     \* target of the link `current.tmp`
  tree,        \* the version directories
  aside,       \* the directories `<version>.old`
  unsynced,    \* version directories the disk may not hold yet
  writable,    \* the file system is mounted read-write
  \* the machine
  holder,      \* who holds the flock
  rebooting,   \* a reboot was asked for
  \* the runs
  pc,          \* next system call of a run
  req,         \* what it was asked for; doRemount is req.remount
  todo,        \* components it has still to copy
  scratch,     \* its temporary directory
  stashed,     \* it renamed a directory to `.old`
  copied,      \* atLeastOneComponentCopied
  \* history: calls on a component that failed, their error dropped
  dropped,
  \* the bounds
  faults, kills

root  == <<current, previous, pending, tree, aside>>
host  == <<unsynced, writable, holder, rebooting>>
runs  == <<pc, req, todo, scratch, stashed, copied>>
tally == <<faults, kills>>
vars  == <<root, host, runs, dropped, tally>>

Step ==
  {"flock", "stat", "symlink", "mkdtemp", "copy", "stash", "install",
   "dropPrevious", "keepPrevious", "switch", "restore", "unlink",
   "sync", "reboot"}

\* The calls of CopyComponent whose error it drops and that matter: the stat of
\* the destination's version, and the deferred rename and removal.
Unchecked == {"stat", "restore", "unlink"}

TypeOK ==
  /\ current \in [Component -> Version \cup {None}]
  /\ previous \in [Component -> Version \cup {None}]
  /\ pending \in [Component -> Version \cup {None}]
  /\ tree \in [Component -> [Version -> Extent]]
  /\ aside \in [Component -> [Version -> Extent]]
  /\ unsynced \subseteq Component \X Version
  /\ writable \in BOOLEAN
  /\ holder \in Process \cup {None}
  /\ rebooting \in BOOLEAN
  /\ pc \in [Process -> Step \cup {"idle"}]
  /\ req \in [Process -> Request \cup {None}]
  /\ todo \in [Process -> SUBSET Component]
  /\ scratch \in [Process -> Extent]
  /\ stashed \in [Process -> BOOLEAN]
  /\ copied \in [Process -> BOOLEAN]
  /\ dropped \subseteq Unchecked \X Component
  /\ faults \in 0..MaxFaults
  /\ kills \in 0..MaxKills

\* install.sh's do_copy wrote one version of every component and its `current`.
Init ==
  /\ current = [c \in Component |-> IF c \in Installed THEN Factory ELSE None]
  /\ previous = [c \in Component |-> None]
  /\ pending = [c \in Component |-> None]
  /\ tree = [c \in Component |-> [v \in Version |->
               IF c \in Installed /\ v = Factory THEN "complete" ELSE "absent"]]
  /\ aside = [c \in Component |-> [v \in Version |-> "absent"]]
  /\ unsynced = {}
  /\ writable = FALSE
  /\ holder = None
  /\ rebooting = FALSE
  /\ pc = [p \in Process |-> "idle"]
  /\ req = [p \in Process |-> None]
  /\ todo = [p \in Process |-> {}]
  /\ scratch = [p \in Process |-> "absent"]
  /\ stashed = [p \in Process |-> FALSE]
  /\ copied = [p \in Process |-> FALSE]
  /\ dropped = {}
  /\ faults = 0
  /\ kills = 0

-----------------------------------------------------------------------------
(* The component a run works on, and the version it is to bring.           *)

\* Run tries macula, then k3s, then kernel.
First(S) == IF "macula" \in S THEN "macula"
            ELSE IF "k3s" \in S THEN "k3s" ELSE "kernel"

Part(p) == First(todo[p])
Target(p) == req[p].source[Part(p)]

Goto(p, step) == pc' = [pc EXCEPT ![p] = step]

\* A call fails for a reason outside the model: no space, an I/O error.
Fault == faults < MaxFaults /\ faults' = faults + 1 /\ UNCHANGED kills

\* Such a failure of a call that drops its error, on the component of p.
Drop(p, call) == Fault /\ dropped' = dropped \cup {<<call, Part(p)>>}

\* CopyComponent returns: Run goes on with the next component, error or not.
Return(p) ==
  /\ todo' = [todo EXCEPT ![p] = @ \ {Part(p)}]
  /\ Goto(p, IF todo[p] = {Part(p)} THEN "sync" ELSE "stat")

\* The processes in P are gone, and with them their locals and open files.
Gone(P) ==
  /\ pc' = [p \in Process |-> IF p \in P THEN "idle" ELSE pc[p]]
  /\ req' = [p \in Process |-> IF p \in P THEN None ELSE req[p]]
  /\ todo' = [p \in Process |-> IF p \in P THEN {} ELSE todo[p]]
  /\ scratch' = [p \in Process |-> IF p \in P THEN "absent" ELSE scratch[p]]
  /\ stashed' = [p \in Process |-> IF p \in P THEN FALSE ELSE stashed[p]]
  /\ copied' = [p \in Process |-> IF p \in P THEN FALSE ELSE copied[p]]
  /\ holder' = IF holder \in P THEN None ELSE holder

-----------------------------------------------------------------------------
(* Run, up to the first component.                                         *)

Start(p) ==
  /\ pc[p] = "idle"
  /\ \E r \in Requests :
       /\ req' = [req EXCEPT ![p] = r]
       /\ todo' = [todo EXCEPT ![p] = r.parts]
  /\ Goto(p, "flock")
  /\ UNCHANGED <<root, host, scratch, stashed, copied, dropped, tally>>

\* Mutant: the result of flock is ignored.
Lock_Ignored(p) ==
  /\ pc[p] = "flock"
  /\ holder' = p
  /\ Goto(p, "stat")
  /\ UNCHANGED <<root, unsynced, writable, rebooting, req, todo, scratch, stashed,
                 copied, dropped, tally>>

\* LOCK_EX | LOCK_NB: who does not get the lock is gone (logrus.Fatal).
Lock(p) ==
  /\ pc[p] = "flock"
  /\ \/ /\ holder = None
        /\ holder' = p
        /\ Goto(p, "stat")
        /\ UNCHANGED <<req, todo, scratch, stashed, copied>>
     \/ /\ holder # None
        /\ Gone({p})
  /\ UNCHANGED <<root, unsynced, writable, rebooting, dropped, tally>>

-----------------------------------------------------------------------------
(* CopyComponent, for Part(p).                                             *)

\* StatComponentVersion finds a directory behind `current`.
Resolves(c) == current[c] # None /\ tree[c][current[c]] # "absent"

\* Mutant: the names of the two versions are not compared.
UpToDate_NoCompare(p) == Target(p) = None

\* Nothing to do: the source has no such component, or the names match.
UpToDate(p) ==
  \/ Target(p) = None
  \/ Resolves(Part(p)) /\ current[Part(p)] = Target(p)

\* The comparison is over: the file system is made writable if asked for.
Begin(p) ==
  /\ writable' = (writable \/ req[p].remount)
  /\ Goto(p, "symlink")
  /\ UNCHANGED todo

\* Mutant: the answer for each component overwrites atLeastOneComponentCopied.
Stat_Overwrites(p) ==
  /\ pc[p] = "stat"
  /\ \/ /\ UpToDate(p)
        /\ Return(p)
        /\ copied' = [copied EXCEPT ![p] = FALSE]
        /\ UNCHANGED writable
     \/ /\ ~UpToDate(p)
        /\ Begin(p)
        /\ UNCHANGED copied
  /\ UNCHANGED <<root, unsynced, holder, rebooting, req, scratch, stashed, dropped,
                 tally>>

\* An error of the stat of the source or of the remount returns.  One of the
\* stat of the destination is dropped: what is up to date is brought once more.
Stat(p) ==
  /\ pc[p] = "stat"
  /\ \/ UpToDate(p) /\ Return(p) /\ UNCHANGED <<writable, dropped, tally>>
     \/ ~UpToDate(p) /\ Begin(p) /\ UNCHANGED <<dropped, tally>>
     \/ ~UpToDate(p) /\ Fault /\ Return(p) /\ UNCHANGED <<writable, dropped>>
     \/ /\ UpToDate(p) /\ Target(p) # None
        /\ Drop(p, "stat")
        /\ Begin(p)
  /\ UNCHANGED <<root, unsynced, holder, rebooting, req, scratch, stashed, copied>>

\* Mutant: an existing current.tmp is replaced.
CanLink_Replaces(p) == Part(p) \in Installed /\ writable

\* os.Symlink(version, current.tmp) fails when the name exists, the component
\* has no directory or the file system is read-only.
CanLink(p) == Part(p) \in Installed /\ writable /\ pending[Part(p)] = None

\* No defer is registered yet: an error returns with nothing to undo.
Symlink(p) ==
  /\ pc[p] = "symlink"
  /\ \/ /\ CanLink(p)
        /\ pending' = [pending EXCEPT ![Part(p)] = Target(p)]
        /\ Goto(p, "mkdtemp")
        /\ UNCHANGED <<todo, tally>>
     \/ /\ ~CanLink(p)
        /\ Return(p)
        /\ UNCHANGED <<pending, tally>>
     \/ /\ Fault
        /\ Return(p)
        /\ UNCHANGED pending
  /\ UNCHANGED <<current, previous, tree, aside, host, req, scratch, stashed, copied,
                 dropped>>

\* Mutant: the removal of current.tmp is deferred only after TempDir.
MkdTemp_LateDefer(p) ==
  /\ pc[p] = "mkdtemp"
  /\ \/ /\ scratch' = [scratch EXCEPT ![p] = "partial"]
        /\ Goto(p, "copy")
        /\ UNCHANGED <<todo, tally>>
     \/ /\ Fault
        /\ Return(p)
        /\ UNCHANGED scratch
  /\ UNCHANGED <<root, host, req, stashed, copied, dropped>>

MkdTemp(p) ==
  /\ pc[p] = "mkdtemp"
  /\ \/ /\ scratch' = [scratch EXCEPT ![p] = "partial"]
        /\ Goto(p, "copy")
        /\ UNCHANGED tally
     \/ /\ Fault
        /\ Goto(p, "unlink")
        /\ UNCHANGED scratch
  /\ UNCHANGED <<root, host, req, todo, stashed, copied, dropped>>

\* Mutant: the error of copy.Copy is dropped.
CopyTree_NoCheck(p) ==
  /\ pc[p] = "copy"
  /\ \/ scratch' = [scratch EXCEPT ![p] = "complete"] /\ UNCHANGED tally
     \/ Fault /\ UNCHANGED scratch
  /\ Goto(p, "stash")
  /\ UNCHANGED <<root, host, req, todo, stashed, copied, dropped>>

\* A copy that fails leaves what it had written.
CopyTree(p) ==
  /\ pc[p] = "copy"
  /\ \/ /\ scratch' = [scratch EXCEPT ![p] = "complete"]
        /\ Goto(p, "stash")
        /\ UNCHANGED tally
     \/ /\ Fault
        /\ Goto(p, "unlink")
        /\ UNCHANGED scratch
  /\ UNCHANGED <<root, host, req, todo, stashed, copied, dropped>>

\* The directory of p's version moves to `.old`.
SetAside(p) ==
  LET c == Part(p)
      v == Target(p)
  IN
  /\ aside' = [aside EXCEPT ![c][v] = tree[c][v]]
  /\ tree' = [tree EXCEPT ![c][v] = "absent"]

\* Mutant: an old `.old` is replaced.
Stash_Replaces(p) ==
  /\ pc[p] = "stash"
  /\ SetAside(p)
  /\ stashed' = [stashed EXCEPT ![p] = tree[Part(p)][Target(p)] # "absent"]
  /\ Goto(p, "install")
  /\ UNCHANGED <<current, previous, pending, host, req, todo, scratch, copied, dropped,
                 tally>>

\* A rename to `.old` can only succeed when there is no `.old` from an earlier
\* run (that one is not empty).  If os.Stat fails, the directory is not seen and
\* stays where it is.
Stash(p) ==
  LET old == tree[Part(p)][Target(p)]
      taken == aside[Part(p)][Target(p)] # "absent"
  IN
  /\ pc[p] = "stash"
  /\ \/ /\ old = "absent"
        /\ Goto(p, "install")
        /\ UNCHANGED <<tree, aside, stashed, tally>>
     \/ /\ old # "absent" /\ ~taken
        /\ SetAside(p)
        /\ stashed' = [stashed EXCEPT ![p] = TRUE]
        /\ Goto(p, "install")
        /\ UNCHANGED tally
     \/ /\ old # "absent" /\ taken
        /\ Goto(p, "unlink")
        /\ UNCHANGED <<tree, aside, stashed, tally>>
     \/ /\ old # "absent"
        /\ Fault
        /\ Goto(p, "unlink") \/ Goto(p, "install")
        /\ UNCHANGED <<tree, aside, stashed>>
  /\ UNCHANGED <<current, previous, pending, host, req, todo, scratch, copied, dropped>>

\* The temporary directory takes the version's name, which fails when that is
\* still taken (the directory is not empty); chmod is best effort.
Install(p) ==
  LET c == Part(p)
      v == Target(p)
  IN
  /\ pc[p] = "install"
  /\ \/ /\ tree[c][v] = "absent"
        /\ tree' = [tree EXCEPT ![c][v] = scratch[p]]
        /\ scratch' = [scratch EXCEPT ![p] = "absent"]
        /\ unsynced' = unsynced \cup {<<c, v>>}
        /\ Goto(p, "dropPrevious")
        /\ UNCHANGED tally
     \/ /\ (tree[c][v] # "absent" /\ UNCHANGED tally) \/ Fault
        /\ Goto(p, "restore")
        /\ UNCHANGED <<tree, scratch, unsynced>>
  /\ UNCHANGED <<current, previous, pending, aside, writable, holder, rebooting,
                 req, todo, stashed, copied, dropped>>

\* The two steps that move `previous` only log their errors.
DropPrevious(p) ==
  /\ pc[p] = "dropPrevious"
  /\ \/ previous' = [previous EXCEPT ![Part(p)] = None] /\ UNCHANGED tally
     \/ Fault /\ UNCHANGED previous
  /\ Goto(p, "keepPrevious")
  /\ UNCHANGED <<current, pending, tree, aside, host, req, todo, scratch, stashed,
                 copied, dropped>>

\* Mutant: `previous` is taken from the link that is about to be `current`.
KeepPrevious_FromPending(p) ==
  LET c == Part(p) IN
  /\ pc[p] = "keepPrevious"
  /\ previous' = [previous EXCEPT ![c] = IF @ = None THEN pending[c] ELSE @]
  /\ Goto(p, "switch")
  /\ UNCHANGED <<current, pending, tree, aside, host, req, todo, scratch, stashed,
                 copied, dropped, tally>>

\* copy.Copy makes a link with the target `current` has; a link there is EEXIST.
KeepPrevious(p) ==
  LET c == Part(p) IN
  /\ pc[p] = "keepPrevious"
  /\ \/ /\ previous' = [previous EXCEPT ![c] = IF @ = None THEN current[c] ELSE @]
        /\ UNCHANGED tally
     \/ Fault /\ UNCHANGED previous
  /\ Goto(p, "switch")
  /\ UNCHANGED <<current, pending, tree, aside, host, req, todo, scratch, stashed,
                 copied, dropped>>

\* current.tmp becomes `current`.  Back in Run, doRemount is cleared.
Switch(p) ==
  LET c == Part(p) IN
  /\ pc[p] = "switch"
  /\ \/ /\ pending[c] # None
        /\ current' = [current EXCEPT ![c] = pending[c]]
        /\ pending' = [pending EXCEPT ![c] = None]
        /\ copied' = [copied EXCEPT ![p] = TRUE]
        /\ req' = [req EXCEPT ![p].remount = FALSE]
        /\ dropped' = dropped \ {<<"stat", c>>}
        /\ UNCHANGED tally
     \/ /\ Fault
        /\ UNCHANGED <<current, pending, copied, req, dropped>>
  /\ Goto(p, "restore")
  /\ UNCHANGED <<previous, tree, aside, host, todo, scratch, stashed>>

\* Deferred: `.old` goes back to its name, unless that name is taken again; the
\* error of the rename is dropped.
Restore(p) ==
  LET c == Part(p)
      v == Target(p)
      owed == stashed[p] /\ tree[c][v] = "absent"
  IN
  /\ pc[p] = "restore"
  /\ \/ /\ owed
        /\ tree' = [tree EXCEPT ![c][v] = aside[c][v]]
        /\ aside' = [aside EXCEPT ![c][v] = "absent"]
        /\ UNCHANGED <<dropped, tally>>
     \/ /\ ~owed
        /\ UNCHANGED <<tree, aside, dropped, tally>>
     \/ /\ owed
        /\ Drop(p, "restore")
        /\ UNCHANGED <<tree, aside>>
  /\ stashed' = [stashed EXCEPT ![p] = FALSE]
  /\ Goto(p, "unlink")
  /\ UNCHANGED <<current, previous, pending, host, req, todo, scratch, copied>>

\* Mutant: only the temporary directory is removed.
Unlink_KeepsLink(p) ==
  /\ pc[p] = "unlink"
  /\ scratch' = [scratch EXCEPT ![p] = "absent"]
  /\ Return(p)
  /\ UNCHANGED <<root, host, req, stashed, copied, dropped, tally>>

\* Deferred: the temporary directory and current.tmp go.  Their errors are
\* dropped; the temporary directory has a name nobody looks up again.
Unlink(p) ==
  LET c == Part(p) IN
  /\ pc[p] = "unlink"
  /\ scratch' = [scratch EXCEPT ![p] = "absent"]
  /\ \/ /\ pending' = [pending EXCEPT ![c] = None]
        /\ UNCHANGED <<dropped, tally>>
     \/ /\ pending[c] # None
        /\ Drop(p, "unlink")
        /\ UNCHANGED pending
  /\ Return(p)
  /\ UNCHANGED <<current, previous, tree, aside, host, req, stashed, copied>>

-----------------------------------------------------------------------------
(* Run, after the last component.                                          *)

\* Mutant: the reboot does not depend on anything having been copied.
Sync_AlwaysReboots(p) ==
  /\ pc[p] = "sync"
  /\ unsynced' = IF copied[p] /\ req[p].sync THEN {} ELSE unsynced
  /\ IF req[p].reboot
     THEN Goto(p, "reboot") /\ UNCHANGED <<holder, req, todo, scratch, stashed, copied>>
     ELSE Gone({p})
  /\ UNCHANGED <<root, writable, rebooting, dropped, tally>>

Sync(p) ==
  /\ pc[p] = "sync"
  /\ unsynced' = IF copied[p] /\ req[p].sync THEN {} ELSE unsynced
  /\ IF copied[p] /\ req[p].reboot
     THEN Goto(p, "reboot") /\ UNCHANGED <<holder, req, todo, scratch, stashed, copied>>
     ELSE Gone({p})
  /\ UNCHANGED <<root, writable, rebooting, dropped, tally>>

\* `nsenter ... reboot` returns as soon as init has the request: the run ends,
\* the lock with it, and the machine goes down later.
Reboot(p) ==
  /\ pc[p] = "reboot"
  /\ \/ rebooting' = TRUE /\ UNCHANGED tally
     \/ Fault /\ UNCHANGED rebooting
  /\ Gone({p})
  /\ UNCHANGED <<root, unsynced, writable, dropped>>

-----------------------------------------------------------------------------
(* What happens to a run.                                                  *)

Active == {p \in Process : pc[p] # "idle"}

\* SIGKILL, an evicted pod, the OOM killer: no deferred call runs, and the
\* temporary directory stays under a name nobody looks up again.
Kill(p) ==
  /\ pc[p] # "idle"
  /\ kills < MaxKills
  /\ kills' = kills + 1
  /\ Gone({p})
  /\ UNCHANGED <<root, unsynced, writable, rebooting, dropped, faults>>

\* The machine goes down in order (file systems are synced) and comes up with
\* /macula/system read-only; a run still active is cut short.
Restart ==
  /\ rebooting
  /\ rebooting' = FALSE
  /\ writable' = FALSE
  /\ unsynced' = {}
  /\ \/ Active = {} /\ UNCHANGED kills
     \/ Active # {} /\ kills < MaxKills /\ kills' = kills + 1
  /\ Gone(Process)
  /\ UNCHANGED <<root, dropped, faults>>

Advance(p) ==
  \/ Lock(p) \/ Stat(p) \/ Symlink(p) \/ MkdTemp(p) \/ CopyTree(p) \/ Stash(p)
  \/ Install(p) \/ DropPrevious(p) \/ KeepPrevious(p) \/ Switch(p)
  \/ Restore(p) \/ Unlink(p) \/ Sync(p) \/ Reboot(p)

Next ==
  \/ \E p \in Process : Start(p) \/ Advance(p) \/ Kill(p)
  \/ Restart

Spec == Init /\ [][Next]_vars

(* A run that was started goes on, and a requested reboot happens.  Nothing *)
(* in the code starts a run again: one whose components all failed exits 0.  *)
Fairness ==
  /\ \A p \in Process : WF_vars(Advance(p))
  /\ SF_vars(Restart)

FairSpec == Spec /\ Fairness
-----------------------------------------------------------------------------
(* Properties.                                                             *)

\* Whatever a run, a fault or a kill does to the tree, the version `current`
\* names - what sbin/init and GRUB's first entry will run - is there in full:
\* CopyComponent copies beside it, renames, and moves the link last.  The one
\* exception is the price of component.go:53: when the stat of the destination
\* failed and its error was dropped, the active version is renamed too, and may
\* be there, just as whole, under the name `.old` only.
CurrentComplete ==
  \A c \in Component :
    current[c] # None =>
      \/ tree[c][current[c]] = "complete"
      \/ /\ <<"stat", c>> \in dropped
         /\ tree[c][current[c]] = "absent"
         /\ aside[c][current[c]] = "complete"

Usable(c) ==
  /\ previous[c] \notin {None, current[c]}
  /\ tree[c][previous[c]] = "complete"

\* GRUB's "MaculaOS Previous" entry has something else to boot: between runs,
\* when none was cut short and no call failed, `previous` names a complete
\* version other than `current`, and it is there once a component was upgraded.
FallbackUsable ==
  (holder = None /\ faults = 0 /\ kills = 0) =>
    \A c \in Component :
      (previous[c] # None \/ current[c] \notin {None, Factory}) => Usable(c)

\* "Previous version always preserved until next successful update"
\* (plans/PLAN_MACULAOS.md:589): between runs, an upgraded component has a
\* version to go back to, also after an update that did not succeed.
PreviousPreserved ==
  holder = None =>
    \A c \in Component : current[c] \notin {None, Factory} => Usable(c)

\* However CopyComponent returns - skipped, failed at any call, done - its
\* deferred calls leave no current.tmp behind and no version that exists only
\* under the name `.old`, unless it is the deferred call itself that fails.
CleanupComplete ==
  (holder = None /\ kills = 0) =>
    \A c \in Component :
      /\ pending[c] # None => <<"unlink", c>> \in dropped
      /\ (\E v \in Version : aside[c][v] # "absent" /\ tree[c][v] = "absent")
           => <<"restore", c>> \in dropped

\* A run that asks to sync and reboot never asks for the reboot while a version
\* it or any earlier run installed is only in the page cache: the lock keeps
\* others from installing between its sync and its request.
SyncedBeforeReboot ==
  \A p \in Process : pc[p] = "reboot" /\ req[p].sync => unsynced = {}

\* Where every request says --sync and no run is killed, the version `current`
\* names is on the disk, but for the time between the switch and the sync of the
\* run that holds the lock: a link that another run moved, or an earlier
\* component of this one, waits for no later run (upgrade.go:135-162).  A version
\* brought once more over itself, after a stat whose error was dropped, is
\* excepted: its link may not move, and then nothing is synced.
CurrentDurable ==
  (kills = 0 /\ \A r \in Requests : r.sync) =>
    \A c \in Component :
      <<c, current[c]>> \in unsynced =>
        \/ holder # None /\ copied[holder] /\ pc[holder] # "reboot"
        \/ <<"stat", c>> \in dropped

\* The run that made the link current.tmp of c is still there to remove it.
OwnsLink(p, c) ==
  /\ pc[p] \in {"mkdtemp", "copy", "stash", "install", "dropPrevious",
                "keepPrevious", "switch", "restore", "unlink"}
  /\ Part(p) = c

Orphan(c) == pending[c] # None /\ \A p \in Process : ~OwnsLink(p, c)

\* The price of os.Symlink on a fixed name: once a killed run has left its
\* current.tmp, no later run, retry or reboot removes it, and the component
\* keeps the version it has.
OrphanBlocks ==
  [][\A c \in Component :
       Orphan(c) => Orphan(c)' /\ current'[c] = current[c]]_vars

\* A directory and its `.old` both exist, and no run is past its rename to it.
Frozen(c, v) ==
  /\ tree[c][v] # "absent"
  /\ aside[c][v] # "absent"
  /\ current[c] # v
  /\ \A p \in Process :
       ~ /\ pc[p] \in {"dropPrevious", "keepPrevious", "switch"}
         /\ Part(p) = c
         /\ Target(p) = v

\* Nothing removes a `.old` whose name was taken again, so a version that was
\* activated over an earlier copy of itself and then replaced can never be
\* activated again: going back to it works once.
FrozenForever ==
  [][\A c \in Component, v \in Version : Frozen(c, v) => Frozen(c, v)']_vars

\* The versions c has in full in one of the two places.
Full(place, c) == {v \in Version : place[c][v] = "complete"}

\* The steps of a run are, to whoever boots the machine, those of
\* AtomicActivation: a link moves at once, to a version that is whole, and no
\* version that was whole is ever lost.
Abstract ==
  INSTANCE AtomicActivation WITH
    active   <- current,
    fallback <- previous,
    whole    <- [c \in Component |-> Full(tree, c)],
    kept     <- [c \in Component |-> Full(aside, c)],
    mistaken <- {c \in Component : <<"stat", c>> \in dropped},
    Shipped  <- [c \in Component |-> IF c \in Installed THEN Factory ELSE None]

ImplementsAtomicActivation == Abstract!Spec
=============================================================================
