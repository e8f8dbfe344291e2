------------------------------ MODULE Encrypt ------------------------------
(***************************************************************************)
(* `maculaos encrypt enable | change-passphrase | add-key`                 *)
(* (pkg/cli/encrypt/encrypt.go), run by several processes.                 *)
(*                                                                         *)
(* The data partition becomes a LUKS volume in place: its files are copied *)
(* to /tmp, which is memory, and back.  Where /var/lib/maculaos is depends *)
(* on the boot: in disk mode it lies on the root file system, which is the *)
(* partition; in the other modes in memory; and the command is written for *)
(* a partition that is mounted there, as an administrator may have done.   *)
(* The partition is found by its label, or else by a usual name that another *)
(* partition may have: that one is encrypted then.                         *)
(***************************************************************************)
EXTENDS Naturals, FiniteSets

CONSTANTS
  Files,       \* what a node can keep in /var/lib/maculaos
  Keys,        \* passphrases and key files
  Commands,    \* processes of `maculaos encrypt`
  MaxCommands, \* bound: commands in a behaviour
  MaxSaves,    \* bound: files saved in a behaviour
  MaxFaults,   \* bound: steps of a behaviour in which a call fails
  MaxHalts     \* bound: reboots in a behaviour

Parts == {"state", "other"}

ASSUME EncryptBounds == {MaxCommands, MaxSaves, MaxFaults, MaxHalts} \subseteq Nat

VARIABLES
  named,    \* which partition has the first usual name there is, if any
  part,     \* of each, "plain", "luks" without a file system, or "volume" with one
  inside,   \* the files of the node on each, on whatever file system
  keys,     \* what opens each
  open,     \* of what /dev/mapper/maculaos-data is
  base,     \* the state partition is the root, mounted on /var/lib/maculaos, or not
  mapped,   \* the opened volume is mounted there, over that
  beneath,  \* the files that are there when that is memory
  copy,     \* /tmp/maculaos-data-backup
  pc, target, key,  \* of each process, its next step, partition and key
  \* history
  written,  \* the files that the node relies on
  exposed,  \* something happened that the command does not survive
  misjudged, \* isLuks failed on a closed volume
  promised, \* partitions and keys of the enables that went on to the end, or may,
            \* and were not changed since
  begun, saves, faults, halts

diskVars == <<named, part, inside, keys, open>>
treeVars == <<base, mapped, beneath, copy>>
bounds == <<begun, saves, faults, halts>>
procVars == <<pc, target, key>>
history == <<written, exposed, misjudged, promised>>
vars == <<diskVars, treeVars, procVars, history, bounds>>

Steps == {"idle", "copy", "umount", "format", "open", "mkfs", "mount", "restore",
          "cleanup"}

TypeOK ==
  /\ {mapped, exposed, misjudged} \subseteq BOOLEAN
  /\ {named, open} \subseteq Parts \cup {"none"}
  /\ part \in [Parts -> {"plain", "luks", "volume"}]
  /\ inside \in [Parts -> SUBSET Files]
  /\ {beneath, copy, written} \subseteq SUBSET Files
  /\ keys \in [Parts -> SUBSET Keys] /\ promised \subseteq Parts \X Keys
  /\ base \in {"root", "plain", "none"}
  /\ pc \in [Commands -> Steps]
  /\ target \in [Commands -> Parts] /\ key \in [Commands -> Keys]
  /\ begun \in 0 .. MaxCommands /\ saves \in 0 .. MaxSaves
  /\ faults \in 0 .. MaxFaults /\ halts \in 0 .. MaxHalts

\* The partition that /var/lib/maculaos is on, if it is on one.
Under == IF mapped THEN open ELSE IF base # "none" THEN "state" ELSE "none"
Visible == IF Under \in Parts THEN inside[Under] ELSE beneath
Enabling == {p \in Commands : pc[p] # "idle"}

Init ==
  /\ named \in Parts \cup {"none"}
  /\ part = [d \in Parts |-> "plain"] /\ keys = [d \in Parts |-> {}] /\ open = "none"
  /\ \E fs \in SUBSET Files : inside = [d \in Parts |-> IF d = "state" THEN fs ELSE {}]
  /\ base \in {"root", "plain", "none"} /\ mapped = FALSE
  /\ beneath = {} /\ copy = {}
  /\ pc = [p \in Commands |-> "idle"]
  /\ target = [p \in Commands |-> "state"] /\ key \in [Commands -> Keys]
  /\ written = IF Under = "none" THEN {} ELSE inside["state"]
  /\ exposed = (Under = "none") /\ misjudged = FALSE
  /\ promised = {}
  /\ begun = 0 /\ saves = 0 /\ faults = 0 /\ halts = 0

Goto(p, l) == pc' = [pc EXCEPT ![p] = l]
Command == begun < MaxCommands /\ begun' = begun + 1
Fault == faults < MaxFaults /\ faults' = faults + 1

-----------------------------------------------------------------------------
(* enableAction *)

\* The label MACULAOS_STATE is gone with the format, then only a usual name helps;
\* so it is if blkid fails.
Device == IF part["state"] = "plain" THEN "state" ELSE named
Finds(d) ==
  \/ d = Device /\ UNCHANGED faults
  \/ d = named /\ d # Device /\ Fault

\* Whatever cryptsetup isLuks fails of counts as `not encrypted`.
Unencrypted(d) ==
  \/ part[d] = "plain" /\ Finds(d)
  \/ part[d] # "plain" /\ d \in {Device, named} /\ Fault

\* Mutant: an empty passphrase is taken.
Enable_Unasked(p) ==
  /\ pc[p] = "idle" /\ Command
  /\ \E d \in Parts : Unencrypted(d) /\ target' = [target EXCEPT ![p] = d]
  /\ key' = [key EXCEPT ![p] = "empty"]
  /\ exposed' = (exposed \/ Enabling # {})
  /\ Goto(p, "copy")
  /\ UNCHANGED <<diskVars, treeVars, written, misjudged, promised, saves, halts>>

Enable(p) ==
  /\ pc[p] = "idle" /\ Command
  /\ \E d \in Parts, k \in Keys :
       /\ Unencrypted(d)
       /\ target' = [target EXCEPT ![p] = d] /\ key' = [key EXCEPT ![p] = k]
       /\ misjudged' = (misjudged \/ (part[d] # "plain" /\ open # d))
  /\ exposed' = (exposed \/ Enabling # {})
  /\ Goto(p, "copy")
  /\ UNCHANGED <<diskVars, treeVars, written, promised, saves, halts>>

\* Mutant: the partition is unmounted before its files are copied.
CopyData_Unmounted(p) ==
  /\ pc[p] = "copy"
  /\ copy' = copy \cup IF Under = "state" THEN beneath ELSE Visible
  /\ Goto(p, "umount")
  /\ UNCHANGED <<diskVars, base, mapped, beneath, target, key, history, bounds>>

\* rsync, to a tmpfs of a tenth of the memory (rc.go:182); that it failed is a
\* warning.
CopyData(p) ==
  /\ pc[p] = "copy"
  /\ \/ copy' = copy \cup Visible /\ UNCHANGED <<exposed, faults>>
     \/ /\ Fault /\ exposed' = TRUE
        /\ \E some \in SUBSET Visible : copy' = copy \cup some
  /\ Goto(p, "umount")
  /\ UNCHANGED <<diskVars, base, mapped, beneath, target, key, written, misjudged,
                 promised, begun, saves, halts>>

\* umount takes away what was mounted there last, unless a process has a file open;
\* nobody looks at how it ended.
Umount(p) ==
  /\ pc[p] = "umount"
  /\ \/ mapped /\ mapped' = FALSE /\ UNCHANGED base
     \/ ~mapped /\ base = "plain" /\ base' = "none" /\ UNCHANGED mapped
     \/ UNCHANGED <<base, mapped>>
  /\ Goto(p, "format")
  /\ UNCHANGED <<diskVars, beneath, copy, target, key, history, bounds>>

\* Mutant: the format is forced on a file system that is mounted.
Busy_Forced(d) == open = d

\* cryptsetup asks for the device exclusively.
Busy(d) == open = d \/ (d = "state" /\ base # "none")

\* The partition is a LUKS volume that ks opens, with nothing in it yet.
Formatted(d, ks) ==
  /\ part' = [part EXCEPT ![d] = "luks"]
  /\ inside' = [inside EXCEPT ![d] = {}]
  /\ keys' = [keys EXCEPT ![d] = ks]

Format(p) ==
  /\ pc[p] = "format" /\ ~Busy(target[p])
  /\ Formatted(target[p], {key[p]})
  /\ Goto(p, "open")
  /\ UNCHANGED <<named, open, treeVars, target, key, history, bounds>>

\* The command ends; a format that fails may have destroyed the partition.
FormatFails(p) ==
  /\ pc[p] = "format"
  /\ \/ Busy(target[p]) /\ UNCHANGED <<part, inside, keys, faults>>
     \/ ~Busy(target[p]) /\ Fault /\ UNCHANGED <<part, inside, keys>>
     \/ ~Busy(target[p]) /\ Fault /\ Formatted(target[p], {})
  /\ Goto(p, "idle")
  /\ UNCHANGED <<named, open, treeVars, target, key, history, begun, saves, halts>>

Opens(p) == part[target[p]] # "plain" /\ key[p] \in keys[target[p]] /\ open = "none"

\* Mutant: the error of cryptsetup open is not looked at.
Open_Unchecked(p) ==
  /\ pc[p] = "open" /\ (Opens(p) \/ open # "none")
  /\ open' = IF Opens(p) THEN target[p] ELSE open
  /\ promised' = promised \cup {<<target[p], key[p]>>}
  /\ Goto(p, "mkfs")
  /\ UNCHANGED <<named, part, inside, keys, treeVars, target, key, written, exposed,
                 misjudged, bounds>>

Open(p) ==
  /\ pc[p] = "open" /\ Opens(p)
  /\ open' = target[p]
  /\ promised' = promised \cup {<<target[p], key[p]>>}
  /\ Goto(p, "mkfs")
  /\ UNCHANGED <<named, part, inside, keys, treeVars, target, key, written, exposed,
                 misjudged, bounds>>

Mkfs(p) ==
  /\ pc[p] = "mkfs" /\ ~mapped
  /\ part' = [part EXCEPT ![open] = "volume"]
  /\ inside' = [inside EXCEPT ![open] = {}]
  /\ Goto(p, "mount")
  /\ UNCHANGED <<named, keys, open, treeVars, target, key, history, bounds>>

Mount(p) ==
  /\ pc[p] = "mount" /\ ~mapped
  /\ mapped' = TRUE
  /\ Goto(p, "restore")
  /\ UNCHANGED <<diskVars, base, beneath, copy, target, key, history, bounds>>

\* Any of the three ends the command when it fails, with the data in /tmp only.
EnableFails(p) ==
  /\ pc[p] \in {"open", "mkfs", "mount"}
  /\ \/ /\ IF pc[p] = "open" THEN ~Opens(p) ELSE mapped
        /\ UNCHANGED faults
     \/ Fault
  /\ Goto(p, "idle")
  /\ UNCHANGED <<diskVars, treeVars, target, key, history, begun, saves, halts>>

\* Files arrive in /var/lib/maculaos.
Arrive(fs) ==
  IF Under \in Parts
  THEN inside' = [inside EXCEPT ![Under] = @ \cup fs] /\ UNCHANGED beneath
  ELSE beneath' = beneath \cup fs /\ UNCHANGED inside

\* rsync into whatever is mounted by now; that it failed is a warning.
RestoreData(p) ==
  /\ pc[p] = "restore"
  /\ \E some \in SUBSET copy :
       /\ IF some = copy THEN UNCHANGED <<exposed, faults>>
          ELSE Fault /\ exposed' = TRUE
       /\ Arrive(some)
  /\ Goto(p, "cleanup")
  /\ UNCHANGED <<named, part, keys, open, base, mapped, copy, target, key, written,
                 misjudged, promised, begun, saves, halts>>

\* /etc/crypttab is written to a tmpfs, which nobody reads; the copy goes.
Cleanup(p) ==
  /\ pc[p] = "cleanup"
  /\ copy' = {}
  /\ Goto(p, "idle")
  /\ UNCHANGED <<diskVars, base, mapped, beneath, target, key, history, bounds>>

-----------------------------------------------------------------------------

\* changePassphraseAction and addKeyAction leave it to cryptsetup, which asks
\* for a key that is there.  They end if isLuks fails.
ChangePassphrase ==
  /\ Command
  /\ \E d \in Parts : \E old \in keys[d], new \in Keys :
       /\ Finds(d) /\ part[d] # "plain"
       /\ keys' = [keys EXCEPT ![d] = (@ \ {old}) \cup {new}]
       /\ promised' = promised \ ({<<d, old>>} \ {<<d, new>>})
  /\ UNCHANGED <<named, part, inside, open, treeVars, procVars, written, exposed,
                 misjudged, saves, halts>>

AddKey ==
  /\ Command
  /\ \E d \in Parts, new \in Keys :
       /\ Finds(d) /\ part[d] # "plain" /\ keys[d] # {}
       /\ keys' = [keys EXCEPT ![d] = @ \cup {new}]
  /\ UNCHANGED <<named, part, inside, open, treeVars, procVars, history, saves, halts>>

\* A program saves a file, where it finds the directory.
Save ==
  /\ saves < MaxSaves /\ saves' = saves + 1
  /\ \E f \in Files : Arrive({f}) /\ written' = written \cup {f}
  /\ exposed' = (exposed \/ Enabling # {} \/ Under = "none")
  /\ UNCHANGED <<named, part, keys, open, base, mapped, copy, procVars, misjudged,
                 promised, begun, faults, halts>>

\* A reboot empties /tmp, and opens no volume: nothing in the boot asks for the
\* passphrase.  A partition with its label is booted from, or not.
Reboot ==
  /\ halts < MaxHalts /\ halts' = halts + 1
  /\ pc' = [p \in Commands |-> "idle"]
  /\ open' = "none" /\ copy' = {} /\ beneath' = {}
  /\ base' \in IF part["state"] = "plain" THEN {"root", "plain", "none"} ELSE {"none"}
  /\ mapped' = FALSE
  /\ exposed' = (exposed \/ ~(written \subseteq inside["state"] \cup inside["other"])
                         \/ (part["state"] = "plain" /\ base' = "none"))
  /\ UNCHANGED <<named, part, inside, keys, target, key, written, misjudged, promised,
                 begun, saves, faults>>

Step(p) ==
  \/ Enable(p) \/ CopyData(p) \/ Umount(p) \/ Format(p) \/ FormatFails(p)
  \/ Open(p) \/ Mkfs(p) \/ Mount(p) \/ EnableFails(p) \/ RestoreData(p)
  \/ Cleanup(p)

Next == (\E p \in Commands : Step(p)) \/ ChangePassphrase \/ AddKey \/ Save \/ Reboot

Spec == Init /\ [][Next]_vars

-----------------------------------------------------------------------------
(* Properties *)

\* What the node relies on is on a partition or in the copy, through every step
\* that fails and every retry, whichever partition is taken for the data
\* partition.  Not if an rsync failed, which is a warning (encrypt.go:211, 266);
\* if the power went while the copy in memory was the only one; if a program
\* saved a file, or another enable ran, meanwhile; if the directory was never on
\* the partition (encrypt.go:204-277); or if isLuks failed on a closed volume,
\* which is formatted again with nothing copied (encrypt.go:147).
DataKept ==
  ~exposed /\ ~misjudged => written \subseteq inside["state"] \cup inside["other"] \cup copy

\* `encrypt enable` never takes the partition that the running system has its
\* root on, whatever fails and whoever else runs it: umount does not unmount it
\* and cryptsetup does not format it (encrypt.go:217, 236).
RootSpared == base = "root" => part["state"] = "plain" /\ open # "state"

\* An enable comes to "Encryption enabled successfully!" only if the passphrase
\* it was given opens the partition, and goes on to do so until it is changed,
\* although isLuks is asked long before the format and two enables can format
\* one after the other (encrypt.go:147, 236, 248).  Not if isLuks failed on a
\* closed volume: it is formatted with another passphrase.
KeyOpens == ~misjudged => \A e \in promised : e[2] \in keys[e[1]]

=============================================================================
