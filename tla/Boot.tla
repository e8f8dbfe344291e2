-------------------------------- MODULE Boot --------------------------------
(***************************************************************************)
(* One disk from its installation to the system that runs on it:           *)
(*   install.sh                            partition, unpack, markers, GRUB *)
(*   overlay/libexec/macula/mode-disk      the first stage of every boot    *)
(*   overlay/init, .../mode                how the stages are entered       *)
(*                                                                         *)
(* The machine may lose power between any two commands.  What it has to    *)
(* remember is on the disk: empty marker files in macula/system that the   *)
(* scripts touch and remove, and files whose mere existence they test.     *)
(* Commands reach the disk in the order they are run.                      *)
(*                                                                         *)
(* The first stage runs from an initrd, in this order:                     *)
(*   mount -> copy -> move -> link -> init -> claim -> unlinkSbin -> clear *)
(*     -> release -> empty -> leave                          (takeover)    *)
(*     -> wipe -> unmark                                     (reset)       *)
(*     -> pivot                                                            *)
(***************************************************************************)
EXTENDS Naturals

CONSTANTS
  Disks,       \* the disks a behaviour may start with
  Requests,    \* the options install.sh may be run with
  MaxCrashes,  \* bound: power losses in a behaviour
  MaxFaults    \* bound: failing commands in a behaviour

Extent == {"absent", "partial", "complete"}
Piece == {"kernel", "bin", "tmp"}

\* What do_copy's tar brings.
Payload == {"kernel", "bin", "link"}

Marker == {"growpart", "takeover", "poweroff", "factory-reset", "ephemeral"}
Loader == {"none", "foreign", "macula", "net"}
Sbin == {"none", "dir", "link"}
InitLink == {"none", "dangling", "resolving", "file", "astray", "macula"}

\* The options --no-format (negated), --takeover and --poweroff.
Request == [format : BOOLEAN, takeover : BOOLEAN, poweroff : BOOLEAN]

\* A disk before MaculaOS: what boots from it, the system on it, its sbin and
\* what sbin/init is there - a link that leads into the system's files or, seen
\* from the initrd, nowhere, or a file of its own in sbin, as which counts a link
\* to a name that the initrd has, too - and whether macula/data holds something.
Disk ==
  {d \in [loader : Loader \ {"macula"}, foreign : {"absent", "complete"}, sbin : Sbin,
          init : {"none", "dangling", "resolving", "file"}, labelled : BOOLEAN,
          data : SUBSET {"old"}] :
     /\ d.loader = "foreign" => d.foreign = "complete"
     /\ d.init = "file" => d.sbin = "dir"
     /\ d.loader = "net" => d.labelled}

ASSUME DisksAssumption == Disks \subseteq Disk
ASSUME RequestsAssumption == Requests \subseteq Request
ASSUME BoundsAssumption == MaxCrashes \in Nat /\ MaxFaults \in Nat

VARIABLES
  \* the disk
  labelled,    \* a partition has the label MACULAOS_STATE
  loader,      \* what the firmware starts
  tree,        \* kernel, macula/<version>/maculaos, and its copy under .tmp
  link,        \* macula/current names that version
  holes,       \* history: what the last tar was to bring and left out or cut short
  foreign,     \* the files of the system that was there before
  sbin,        \* a directory of its own, or a link into foreign's usr
  init,        \* what sbin/init is
  data,        \* what macula/data holds: from before, from users
  marks,       \* the markers in macula/system
  \* the machine
  pc,          \* the command it is about to run
  req,         \* the options of the installer
  rest,        \* what tar has still to unpack
  \* history
  asked,       \* since the last local boot, the operator asked for a reset, or
               \* takeover's marker was still there
  \* the bounds
  crashes, faults

place  == <<labelled, loader>>
files  == <<tree, link, holes>>
old    == <<foreign, sbin, init>>
disk   == <<place, files, old, data, marks>>
inst   == <<req, rest>>
vars   == <<disk, inst, pc, asked, crashes, faults>>

Installing == {"partition", "mkfs", "unpack", "takeover", "poweroff", "grub", "finish"}
Booting == {"mount", "copy", "move", "link", "init", "claim", "unlinkSbin", "clear",
            "release", "empty", "leave", "wipe", "unmark", "pivot"}
Place == {"off", "host", "medium", "rescue", "local"} \cup Installing \cup Booting

TypeOK ==
  /\ labelled \in BOOLEAN
  /\ loader \in Loader
  /\ tree \in [Piece -> Extent]
  /\ link \in BOOLEAN
  /\ holes \subseteq Payload
  /\ foreign \in Extent
  /\ sbin \in Sbin
  /\ init \in InitLink
  /\ data \subseteq {"old", "user"}
  /\ marks \subseteq Marker
  /\ pc \in Place
  /\ req \in Request
  /\ rest \subseteq Payload
  /\ asked \in BOOLEAN
  /\ crashes \in 0..MaxCrashes
  /\ faults \in 0..MaxFaults

Goto(step) == pc' = step

\* The values the scripts' flags have before install.sh has parsed any.
NoRequest == [format |-> FALSE, takeover |-> FALSE, poweroff |-> FALSE]

Init ==
  /\ \E d \in Disks :
       /\ loader = d.loader
       /\ foreign = d.foreign
       /\ sbin = d.sbin
       /\ init = d.init
       /\ labelled = d.labelled
       /\ data = d.data
  /\ tree = [x \in Piece |-> "absent"]
  /\ link = FALSE
  /\ holes = {}
  /\ marks = {}
  /\ pc = "off"
  /\ req = NoRequest
  /\ rest = {}
  /\ asked = FALSE
  /\ crashes = 0
  /\ faults = 0

\* A command fails for a reason outside the model: no space, an I/O error.
Fault == faults < MaxFaults /\ faults' = faults + 1

-----------------------------------------------------------------------------
(* The machine.                                                            *)

\* The firmware starts the disk's boot loader or the network's, and what that
\* loads, which a kernel that is not whole may or may not survive; with neither,
\* someone inserts an installation medium.
PowerOn ==
  /\ pc = "off"
  /\ \/ loader = "foreign" /\ Goto("host")
     \/ loader = "none" /\ Goto("medium")
     \/ loader = "net" /\ Goto("mount")
     \/ loader = "macula" /\ tree["kernel"] # "absent" /\ Goto("mount")
     \/ loader = "macula" /\ tree["kernel"] # "complete" /\ Goto("rescue")
  /\ UNCHANGED <<disk, inst, asked, crashes, faults>>

Crash ==
  /\ pc # "off"
  /\ crashes < MaxCrashes
  /\ crashes' = crashes + 1
  /\ Goto("off")
  /\ UNCHANGED <<disk, inst, asked, faults>>

\* Whoever finds the rescue shell, a boot loader without a kernel or a kernel
\* that panicked restarts it.
Reset ==
  /\ pc = "rescue"
  /\ Goto("off")
  /\ UNCHANGED <<disk, inst, asked, crashes, faults>>

-----------------------------------------------------------------------------
(* install.sh, run on the system to be taken over or from a medium.        *)

\* do_format: an existing file system only gets the label.  A disk that a running
\* system is on can only be installed to in that way: it is in use.
Start ==
  /\ pc \in {"host", "medium"}
  /\ \E r \in Requests :
       /\ req' = r
       /\ \/ /\ r.format /\ pc = "medium"
             /\ Goto("partition")
             /\ UNCHANGED labelled
          \/ /\ ~r.format
             /\ labelled \/ foreign # "absent"
             /\ labelled' = TRUE
             /\ Goto("unpack")
  /\ rest' = Payload
  /\ UNCHANGED <<loader, files, old, data, marks, asked, crashes, faults>>

\* do_format: dd and parted; all that was on the disk is gone.
Partition ==
  /\ pc = "partition"
  /\ labelled' = FALSE
  /\ loader' = "none"
  /\ tree' = [x \in Piece |-> "absent"]
  /\ link' = FALSE
  /\ holes' = {}
  /\ foreign' = "absent"
  /\ sbin' = "none"
  /\ init' = "none"
  /\ data' = {}
  /\ marks' = {}
  /\ Goto("mkfs")
  /\ UNCHANGED <<inst, asked, crashes, faults>>

Mkfs ==
  /\ pc = "mkfs"
  /\ labelled' = TRUE
  /\ Goto("unpack")
  /\ UNCHANGED <<loader, files, old, data, marks, inst, asked, crashes, faults>>

\* do_copy: `tar cf - | tar xvf -` writes one file after the other, in the order
\* of the medium.  Under `set -e` without pipefail nobody looks at the status of
\* the tar that reads: a file it cannot open is left out, one it cannot read to
\* the end is cut short, and the installer goes on.
Unpack ==
  /\ pc = "unpack"
  /\ \E x \in rest :
       \/ /\ x = "link"
          /\ link' = TRUE
          /\ rest' = rest \ {x}
          /\ holes' = holes \ {x}
          /\ UNCHANGED <<tree, faults>>
       \/ /\ x # "link" /\ tree[x] # "partial"
          /\ \A y \in rest \ {"link"} : tree[y] # "partial"
          /\ tree' = [tree EXCEPT ![x] = "partial"]
          /\ UNCHANGED <<link, holes, rest, faults>>
       \/ /\ x # "link" /\ tree[x] = "partial"
          /\ tree' = [tree EXCEPT ![x] = "complete"]
          /\ rest' = rest \ {x}
          /\ holes' = holes \ {x}
          /\ UNCHANGED <<link, faults>>
       \/ /\ Fault
          /\ rest' = rest \ {x}
          /\ holes' = holes \cup {x}
          /\ UNCHANGED <<tree, link>>
  /\ UNCHANGED <<place, old, data, marks, pc, req, asked, crashes>>

\* Mutant: the installer goes on while tar still writes.
WriteMarkers_Early ==
  /\ \/ /\ pc = "unpack"
        /\ marks' = IF req.format THEN marks \cup {"growpart"} ELSE marks
        /\ Goto(IF req.takeover THEN "takeover" ELSE "grub")
     \/ /\ pc = "takeover"
        /\ marks' = marks \cup {"takeover"}
        /\ Goto(IF req.poweroff THEN "poweroff" ELSE "grub")
     \/ /\ pc = "poweroff"
        /\ marks' = marks \cup {"poweroff"}
        /\ Goto("grub")
  /\ UNCHANGED <<place, files, old, data, inst, asked, crashes, faults>>

\* do_copy: the markers, after the files.
WriteMarkers ==
  /\ \/ /\ pc = "unpack" /\ rest = {}
        /\ marks' = IF req.format THEN marks \cup {"growpart"} ELSE marks
        /\ Goto(IF req.takeover THEN "takeover" ELSE "grub")
     \/ /\ pc = "takeover"
        /\ marks' = marks \cup {"takeover"}
        /\ Goto(IF req.poweroff THEN "poweroff" ELSE "grub")
     \/ /\ pc = "poweroff"
        /\ marks' = marks \cup {"poweroff"}
        /\ Goto("grub")
  /\ UNCHANGED <<place, files, old, data, inst, asked, crashes, faults>>

\* install_grub writes over the boot loader's files in place.
InstallGrub ==
  /\ \/ /\ pc = "grub" /\ loader # "none"
        /\ loader' = "none"
        /\ UNCHANGED pc
     \/ /\ pc = "grub" /\ loader = "none"
        /\ loader' = "macula"
        /\ Goto("finish")
  /\ UNCHANGED <<labelled, files, old, data, marks, inst, asked, crashes, faults>>

\* The machine is restarted or turned off, by the script or whoever ran it.
Finish ==
  /\ pc = "finish"
  /\ Goto("off")
  /\ UNCHANGED <<disk, inst, asked, crashes, faults>>

\* set -e: any other failing command ends the installer, the tar that writes
\* included.
Abort ==
  /\ pc \in Installing \ {"finish"}
  /\ Fault
  /\ Goto(IF loader = "foreign" THEN "host" ELSE "medium")
  /\ UNCHANGED <<disk, inst, asked, crashes>>

-----------------------------------------------------------------------------
(* The first stage of a boot: mode-disk, up to takeover.                   *)

\* current/maculaos exists.
BinFound == link /\ tree["bin"] # "absent"

AfterLinks == IF "takeover" \in marks THEN "claim" ELSE "wipe"

\* setup_mounts, where growing is best effort, then the test of setup_macula.
Mount ==
  /\ pc = "mount"
  /\ marks' = marks \ {"growpart"}
  /\ Goto(IF BinFound THEN "init" ELSE IF tree["bin"] = "absent" THEN "copy" ELSE "link")
  /\ UNCHANGED <<place, files, old, data, inst, asked, crashes, faults>>

\* Mutant: the initrd's binary is copied to its final name.
Copy_InPlace ==
  /\ pc = "copy"
  /\ tree' = [tree EXCEPT !["bin"] = IF @ = "partial" THEN "complete" ELSE "partial"]
  /\ Goto(IF tree["bin"] = "partial" THEN "link" ELSE "copy")
  /\ UNCHANGED <<place, link, holes, old, data, marks, inst, asked, crashes, faults>>

\* setup_macula: cp to .tmp, truncating what an earlier boot left there.
Copy ==
  /\ pc = "copy"
  /\ \/ /\ tree["tmp"] # "partial"
        /\ tree' = [tree EXCEPT !["tmp"] = "partial"]
        /\ UNCHANGED pc
     \/ /\ tree["tmp"] = "partial"
        /\ tree' = [tree EXCEPT !["tmp"] = "complete"]
        /\ Goto("move")
  /\ UNCHANGED <<place, link, holes, old, data, marks, inst, asked, crashes, faults>>

\* setup_macula: mv, then ln.
Move ==
  /\ pc = "move"
  /\ tree' = [tree EXCEPT !["bin"] = tree["tmp"], !["tmp"] = "absent"]
  /\ holes' = holes \ {"bin"}
  /\ Goto("link")
  /\ UNCHANGED <<place, link, old, data, marks, inst, asked, crashes, faults>>

Link ==
  /\ pc = "link"
  /\ link' = TRUE
  /\ holes' = holes \ {"link"}
  /\ Goto("init")
  /\ UNCHANGED <<place, tree, old, data, marks, inst, asked, crashes, faults>>

\* sbin/init leads to something, seen from the initrd; among files that takeover
\* is about to remove it may or may not.
Resolves ==
  \/ init = "file"
  \/ init = "resolving" /\ foreign = "complete"
  \/ init = "macula" /\ BinFound

MayResolve == Resolves \/ (init = "resolving" /\ foreign = "partial")

\* sbin is a link into files that are going, or gone: what it names may be gone.
Stranded == sbin = "link" /\ foreign # "complete"

\* setup_init keeps what resolves.  The link it makes is relative: inside the
\* directory that a linked sbin names it leads astray.  mkdir fails on a sbin
\* that leads nowhere.
SetupInit ==
  /\ pc = "init"
  /\ \/ /\ MayResolve
        /\ Goto(AfterLinks)
        /\ UNCHANGED <<sbin, init>>
     \/ /\ ~Resolves
        /\ sbin = "link" => foreign # "absent"
        /\ init' = IF sbin = "link" THEN "astray" ELSE "macula"
        /\ sbin' = IF sbin = "none" THEN "dir" ELSE sbin
        /\ Goto(AfterLinks)
     \/ /\ Stranded
        /\ Goto("rescue")
        /\ UNCHANGED <<sbin, init>>
  /\ UNCHANGED <<place, files, foreign, data, marks, inst, asked, crashes, faults>>

\* set -e with the EXIT trap: a failing command ends in a shell.
Fail ==
  /\ pc \in {"mount", "copy", "move", "link", "init", "unmark", "pivot"}
  /\ Fault
  /\ Goto("rescue")
  /\ UNCHANGED <<disk, inst, asked, crashes>>

-----------------------------------------------------------------------------
(* takeover: called as `takeover || true`, which ignores failing commands. *)

\* Mutant: the data is not claimed for removal before anything else.
Claim_Skipped ==
  /\ pc = "claim"
  /\ Goto("unlinkSbin")
  /\ UNCHANGED <<disk, inst, asked, crashes, faults>>

Claim ==
  /\ pc = "claim"
  /\ \/ marks' = marks \cup {"factory-reset"} /\ UNCHANGED faults
     \/ Fault /\ UNCHANGED marks
  /\ Goto("unlinkSbin")
  /\ UNCHANGED <<place, files, old, data, inst, asked, crashes>>

UnlinkSbin ==
  /\ pc = "unlinkSbin"
  /\ \/ /\ sbin = "link"
        /\ sbin' = "none" /\ init' = "none"
        /\ UNCHANGED faults
     \/ sbin # "link" /\ UNCHANGED <<sbin, init, faults>>
     \/ sbin = "link" /\ Fault /\ UNCHANGED <<sbin, init>>
  /\ Goto("clear")
  /\ UNCHANGED <<place, files, foreign, data, marks, inst, asked, crashes>>

\* Everything but boot/g*, macula and sbin's own three names.
Clear ==
  /\ pc = "clear"
  /\ \/ /\ foreign = "complete"
        /\ foreign' = "partial"
        /\ UNCHANGED <<pc, faults>>
     \/ /\ foreign # "complete"
        /\ foreign' = "absent"
        /\ Goto("release")
        /\ UNCHANGED faults
     \/ /\ foreign # "absent"
        /\ Fault
        /\ Goto("release")
        /\ UNCHANGED foreign
  /\ UNCHANGED <<place, files, sbin, init, data, marks, inst, asked, crashes>>

\* Mutant: takeover keeps its marker.
Release_Keeps ==
  /\ pc = "release"
  /\ Goto("empty")
  /\ UNCHANGED <<disk, inst, asked, crashes, faults>>

Release ==
  /\ pc = "release"
  /\ \/ marks' = marks \ {"takeover"} /\ UNCHANGED faults
     \/ Fault /\ UNCHANGED marks
  /\ Goto("empty")
  /\ UNCHANGED <<place, files, old, data, inst, asked, crashes>>

\* rm -rf macula/data, one thing at a time.
Empty ==
  /\ pc = "empty"
  /\ \/ \E d \in data : data' = data \ {d} /\ UNCHANGED <<pc, faults>>
     \/ data = {} /\ Goto("leave") /\ UNCHANGED <<data, faults>>
     \/ data # {} /\ Fault /\ Goto("leave") /\ UNCHANGED data
  /\ UNCHANGED <<place, files, old, marks, inst, asked, crashes>>

\* poweroff -f, after its marker is removed (or could not be), or reboot -f; when
\* that fails mode-disk goes on, with what takeover has left.
Leave ==
  /\ pc = "leave"
  /\ \/ /\ marks' = marks \ {"poweroff"}
        /\ Goto("off")
        /\ UNCHANGED faults
     \/ /\ Fault
        /\ UNCHANGED marks
        /\ Goto("off") \/ Goto("wipe")
     \/ /\ Fault
        /\ marks' = marks \ {"poweroff"}
        /\ Goto("wipe")
  /\ UNCHANGED <<place, files, old, data, inst, asked, crashes>>

-----------------------------------------------------------------------------
(* The end of mode-disk.                                                   *)

\* Mutant: only the marker `ephemeral` is looked for.
Wipe_EphemeralOnly ==
  /\ pc = "wipe"
  /\ IF "ephemeral" \notin marks
     THEN Goto("pivot") /\ UNCHANGED <<data, marks, faults>>
     ELSE \/ \E d \in data : data' = data \ {d} /\ UNCHANGED <<marks, pc, faults>>
          \/ data = {} /\ Goto("unmark") /\ UNCHANGED <<data, marks, faults>>
  /\ UNCHANGED <<place, files, old, inst, asked, crashes>>

\* rm -rf macula/data macula/system/factory-reset: after an error with the
\* first it still removes the second, and then set -e ends the boot.
Wipe ==
  /\ pc = "wipe"
  /\ IF marks \cap {"factory-reset", "ephemeral"} = {}
     THEN Goto("pivot") /\ UNCHANGED <<data, marks, faults>>
     ELSE \/ \E d \in data : data' = data \ {d} /\ UNCHANGED <<marks, pc, faults>>
          \/ data = {} /\ Goto("unmark") /\ UNCHANGED <<data, marks, faults>>
          \/ /\ Fault
             /\ marks' = marks \ {"factory-reset"}
             /\ Goto("rescue")
             /\ UNCHANGED data
  /\ UNCHANGED <<place, files, old, inst, asked, crashes>>

\* Mutant: only the data is removed.
Unmark_Keeps ==
  /\ pc = "unmark"
  /\ Goto("pivot")
  /\ UNCHANGED <<disk, inst, asked, crashes, faults>>

Unmark ==
  /\ pc = "unmark"
  /\ marks' = marks \ {"factory-reset"}
  /\ Goto("pivot")
  /\ UNCHANGED <<place, files, old, data, inst, asked, crashes, faults>>

\* pivot_root, exec /sbin/init: MaculaOS again, now in local mode, if that is
\* what the link leads to; a binary that is not whole may or may not start.
Pivot ==
  /\ pc = "pivot"
  /\ \/ /\ init = "macula" /\ BinFound
        /\ Goto("local")
        /\ asked' = (marks \cap {"ephemeral", "takeover"} # {})
     \/ /\ ~ (init = "macula" /\ link /\ tree["bin"] = "complete")
        /\ Goto("rescue")
        /\ UNCHANGED asked
  /\ UNCHANGED <<disk, inst, crashes, faults>>

-----------------------------------------------------------------------------
(* The running system.                                                     *)

Write ==
  /\ pc = "local"
  /\ data' = data \cup {"user"}
  /\ UNCHANGED <<place, files, old, marks, pc, inst, asked, crashes, faults>>

Ask ==
  /\ pc = "local"
  /\ \E m \in {"factory-reset", "ephemeral"} : marks' = marks \cup {m}
  /\ asked' = TRUE
  /\ UNCHANGED <<place, files, old, data, pc, inst, crashes, faults>>

Reboot ==
  /\ pc = "local"
  /\ Goto("off")
  /\ UNCHANGED <<disk, inst, asked, crashes, faults>>

Boots ==
  \/ Mount \/ Copy \/ Move \/ Link \/ SetupInit \/ Claim \/ UnlinkSbin \/ Clear
  \/ Release \/ Empty \/ Leave \/ Wipe \/ Unmark \/ Pivot

Next ==
  \/ PowerOn \/ Crash \/ Reset
  \/ Start \/ Partition \/ Mkfs \/ Unpack \/ WriteMarkers \/ InstallGrub \/ Finish \/ Abort
  \/ Boots \/ Fail
  \/ Write \/ Ask \/ Reboot

Spec == Init /\ [][Next]_vars

(* A machine that is on runs its scripts, one that is off is turned on and *)
(* one that is stuck is restarted.  Nobody has to install, ask or write.   *)
Fairness == WF_vars(PowerOn) /\ WF_vars(Finish) /\ WF_vars(Boots) /\ WF_vars(Reset)

FairSpec == Spec /\ Fairness

-----------------------------------------------------------------------------
(* Properties.                                                             *)

\* What the firmware is set to start is there to be started, however often
\* an installation was cut short: install_grub comes last, and takeover only
\* begins once MaculaOS's own loader is in place.  Only a kernel that the tar of
\* the installation could not read may be missing under a loader: its failure is
\* the one that install.sh does not see.
LoaderWorks ==
  /\ loader = "foreign" => foreign = "complete"
  /\ loader = "macula" => labelled /\ (tree["kernel"] = "complete" \/ "kernel" \in holes)

\* setup_macula takes current/maculaos for whole as soon as it exists: so it
\* is, on a disk that MaculaOS was installed to or that boots from the network,
\* whenever power was lost or a command failed - unless it is the tar that read
\* it from the medium.
BinWhole ==
  loader \in {"macula", "net"} => tree["bin"] \in {"absent", "complete"} \/ "bin" \in holes

\* Once a system asked to take the disk over runs, nothing of the system that
\* was there before is left, nor data in macula/data from before; a power loss
\* anywhere in takeover does not change that (commands that fail do).
CleanSlate ==
  (pc = "local" /\ req.takeover /\ faults = 0) =>
    /\ foreign = "absent"
    /\ "old" \notin data
    /\ "takeover" \notin marks

\* The reset that takeover orders for itself, and those it repeats after power
\* losses, never reach what users wrote: that goes only after someone asked (or
\* if takeover could neither remove its marker nor restart the machine, and so
\* the users wrote to a system that was about to be taken over again).
UserDataKept == [][("user" \in data /\ "user" \notin data') => asked]_vars

\* After a reset was asked for, the next system that runs starts empty, also if
\* power is lost while the data is being removed.
FreshAfterReset ==
  [][(pc = "pivot" /\ pc' = "local" /\ asked /\ faults = 0) => data' = {}]_vars

\* What makes the old system's sbin/init stay: takeover spares a file, and when
\* it failed to remove a link and what that leads to, no later boot does.
Spared ==
  \/ init = "file"
  \/ /\ "takeover" \notin marks
     /\ foreign # "absent"
     /\ init = "resolving" \/ sbin = "link"

\* Once MaculaOS's loader is in place the machine comes to run it, through
\* power losses and failing commands.  Three disks are excepted: one whose kernel
\* or binary the installer's tar could not read; one where takeover failed to
\* remove a linked sbin before it removed what the link names; and one whose
\* sbin/init is spared, so that every pivot starts the init of the system that
\* was taken over.
Arrives ==
  (loader = "macula") ~>
    \/ pc = "local"
    \/ {"kernel", "bin"} \cap holes # {}
    \/ Stranded /\ faults > 0
    \/ Spared
=============================================================================
