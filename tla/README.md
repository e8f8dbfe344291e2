# MaculaOS in TLA+

A verification project for MaculaOS, the immutable k3s operating system of this
repository: a Go program (`maculaos`), the bash scripts that install and boot it,
OpenRC services, and two Rust terminal programs. The modules here model its
stateful parts step by step, TLC checks them on small instances, and the TLA+
proof system proves the most important facts for every instance.

- [How to run](#how-to-run)
- [Inventory](#inventory)
- [What is modelled: the upgrade](#what-is-modelled-the-upgrade)
- [What is modelled: installation and first stage](#what-is-modelled-installation-and-first-stage)
- [What is modelled: first-boot setup](#what-is-modelled-first-boot-setup)
- [What is modelled: the node's own directory](#what-is-modelled-the-nodes-own-directory)
- [What is modelled: disk encryption](#what-is-modelled-disk-encryption)
- [What is modelled: services](#what-is-modelled-services)
- [What is modelled: the configuration](#what-is-modelled-the-configuration)
- [What is modelled: entering the root](#what-is-modelled-entering-the-root)
- [What the runs show](#what-the-runs-show)
- [What is proved](#what-is-proved)
- [What is only model-checked, and what is not modelled](#what-is-only-model-checked-and-what-is-not-modelled)
- [Plan](#plan)

## How to run

    tlc -workers 2 -config MCUpgrade.cfg MCUpgrade
    tlc -workers 2 -config MCBoot.cfg MCBoot
    tlc -workers 2 -config MCProvisioning.cfg MCProvisioning
    tlc -workers 2 -config MCMaintenance.cfg MCMaintenance
    tlc -workers 2 -config MCEncrypt.cfg MCEncrypt
    tlc -workers 2 -config MCServices.cfg MCServices
    tlc -workers 2 -config MCConfig.cfg MCConfig
    tlc -workers 2 -config MCEntering.cfg MCEntering
    tlapm UpgradeProofs.tla     (and the other *Proofs.tla)

`PROJECT.json` lists the runs with their configurations, the lines of code every
definition stands for, a mutation per property that must make it fail, the
hazards the properties are aimed at, and the theorems.

## Inventory

| component | code | state it keeps | operations | what is hard | what makes it correct |
|---|---|---|---|---|---|
| upgrade | `pkg/cli/upgrade`, `pkg/system/component.go` | per component the links `current`, `previous`, `current.tmp`, version directories, `.old` directories; an flock | `maculaos upgrade`: copy a component, switch `current`, sync, reboot | I/O errors between any two renames, killed runs, a pod and an operator at once, runs repeated by hand or by the controller | `current` always names a whole version; repeated runs end the upgrade; a way back stays |
| upgrade scripts | `overlay/share/rancher/macula/scripts` | the same directories | download or unpack in place, move the links | no lock | as above, together with `upgrade` |
| installer | `install.sh` | partition label, `macula/system`, markers `growpart`, `takeover`, `poweroff`, GRUB | format or label, unpack, write markers, GRUB | power loss half way, an existing system on the disk, downloads that fail | what boots afterwards is the old system or the whole new one |
| boot | `overlay/init`, `overlay/libexec/macula/*` | the markers, `sbin/init`, `current`, `macula/data` | choose a mode, repair links, take a foreign system over, reset, pivot | power loss between any two commands; `set -e` and its exceptions | a takeover ends, user data is only removed when asked, the binary that is run is whole |
| provisioning | `cmd/macula-firstboot`, `rust/crates/macula-wizard` | `.configured`, `portal.json`, `config.yaml`, `identity.json` | pair with the portal over HTTP and reboot, or ask at a login | concurrent requests and sessions, a code that can be used once, a reboot before the marker | configured means whole credentials, or a configuration with its identity |
| factory reset | `pkg/cli/reset` | a list of files, not those that provisioning writes | delete, write a marker, reboot | removals that fail, files that are not on the list, the marker nobody reads | nothing of what it lists is left |
| backup | `pkg/cli/backup` | tarballs named by second, a schedule | create, restore, delete, schedule, retention | two creations at once, a crash in the middle of a tarball | what restore takes is whole; retention keeps the newest |
| health, watchdog | `pkg/cli/health`, init scripts | `health.yaml`, restart counters | watch loop, add, remove | edits by two processes, counters that never fall | no edit is lost, restarts are bounded and not given up early |
| encryption | `pkg/cli/encrypt` | the data partition, a copy in `/tmp` | enable, change key | a step failing after the format | the data exists somewhere until it is back |
| mesh roles | `pkg/cli/mesh`, init scripts | `mesh.yaml`, services, firewall rules | enable, disable, apply | repeated applies | the services and rules that are there are those configured |
| terminal interface | `rust/crates/macula-tui` | peers, apps, logs, a selection | events from NATS, keys | four tasks into one channel | the list agrees with the last event; the selection is in it |
| configuration | `pkg/config`, `pkg/cc`, `pkg/writefile`, `pkg/ssh`, ... | `config.yaml`, files it names | read by precedence, apply, install | six sources, three stages and callers at a time, appliers that fail | what is applied is what the sources say in the end; no key is taken away |
| entry | `pkg/enterchroot`, `pkg/transferroot` | loop device, mounts | find the appended image, mount, pivot | a detaching goroutine beside the mount; devices shared with containers | no file of the root is lost; a process enters its own image; devices are given back |
| the rest | `pkg/cliinstall`, `pkg/questions`, `pkg/cli/rc`, `pkg/cli/diag`, build scripts | none of its own | prompts, start-up mounts, reports, builds | - | - |

How they interact: the installer leaves a disk whose markers the *boot* scripts
act on; boot ends in the OpenRC services, one of which is *provisioning*, which
gates on `.configured` and reboots; *reset* removes what an older pairing wrote
(`paired`, `mesh-role`, `realm`, `console-token`, `api-key` and the like), but none of
`.configured`, `credentials/portal.json`, `identity.json` and `config.yaml`
(`reset.go:110-117`), so that provisioning does not begin again after it; *upgrade*
is started by the system-upgrade controller (the manifest
`macula-latest.yaml`), by an operator, and reboots into the *boot* scripts, which
run what `current` names; *backup*, *reset*, *encryption* and provisioning share
`/var/lib/maculaos`; the *boot* runs `maculaos config` (*configuration*) three
times, once before the root is entered; *mesh roles* and the *health* watch start
and stop the same services.

## What is modelled: the upgrade

**`Upgrade.tla`** is `Run` (`pkg/cli/upgrade/upgrade.go:114-186`) and
`CopyComponent` (`pkg/system/component.go:48-127`), one action per system call
that others can tell apart. A run's program counter `pc[p]` goes

    flock -> stat -> symlink -> mkdtemp -> copy -> stash -> install
          -> dropPrevious -> keepPrevious -> switch -> restore -> unlink
          -> stat of the next component, or sync -> reboot

| state | code |
|---|---|
| `current`, `previous`, `pending` | the links `current`, `previous`, `current.tmp` of a component |
| `tree[c][v]`, `aside[c][v]` | the directories `<v>` and `<v>.old`: absent, partial or complete |
| `scratch[p]` | the temporary directory of the run |
| `stashed[p]` | the deferred rename of line 95 is registered |
| `todo[p]`, `req[p]`, `copied[p]` | the flags still to do, the flags (with `doRemount`, cleared after a copy), `atLeastOneComponentCopied` |
| `holder` | the flock, `LOCK_EX\|LOCK_NB`, released by any end of the process |
| `unsynced` | version directories written since the last `sync(2)` |
| `writable` | `/macula/system` is mounted read-write; it is read-only after a boot (`overlay/libexec/macula/boot:147`) |
| `rebooting` | a reboot was asked for and has not happened |
| `dropped` | history: of which component a call failed whose error the code drops |

`restore` and `unlink` are the deferred calls, which run last in, first out, on
every return after their `defer` was reached; the guards follow from which
`defer` statements each error return has behind it. Errors that follow from the
state (a link that exists, a directory that is missing, a read-only mount, a
rename onto a directory) are the guards' other halves; `Fault` stands for all
other errors and may strike at any call, `MaxFaults` times. Three calls have their
errors dropped (`Drop`): the stat of the destination's version (`component.go:53`),
after which a component that is up to date is copied, and its active directory moved
aside, like any other; the deferred rename (95), which then leaves a version under
`.old` alone; and the deferred removal of `current.tmp` (74). `Kill` ends a run
without its deferred calls, `Restart` is the reboot, which kills whoever still
runs. A later run of the same process id is a retry or another operator.

Read off the code and kept: `Symlink` comes before the copy, so a leftover
`current.tmp` stops a component early; `os.Rename` onto an existing directory
fails in Go, empty or not; `copy.Copy` of the link `current` makes a link with the
same target (the library's `lcopy`) and fails when `previous` is still there; the
run continues with the next component after an error; it asks for the reboot when
*any* component was copied.

Abstracted: file contents and modes; a version's name stands for its tree, as it
does in the comparison at line 54; only directories lie under a version's name; a
leaked temporary directory, be its run killed or its removal (81) failing, is
forgotten because its random name is never used again; the source image does not
change during a run.

**`AtomicActivation.tla`** is what the upgrade promises without saying how: every
component has an active version, activation is a single step to a version that is
whole, no version that was whole is ever lost, and the fallback is forgotten or is
what was active. A version may give up its name and be kept under another; the
active one only if it was `mistaken`, which is the dropped error of the stat.
`Upgrade` implements it with `active <- current`, `fallback <- previous`, `whole <-`
the complete trees, `kept <-` the complete `.old` directories and `mistaken <-` the
components in `dropped` with a stat. `pending`, `scratch` and the whole control
state are hidden: their steps are stutters.

## What is modelled: installation and first stage

**`Boot.tla`** follows one disk through `install.sh`, then through
`overlay/libexec/macula/mode-disk`, the script that every boot from an initrd runs,
into local mode and around again. There is one action per command whose effect a
later command reads:

    host or medium -> [partition -> mkfs ->] unpack -> [takeover -> [poweroff ->]]
                   -> grub -> finish -> off
    off -> mount -> [copy -> move ->] [link ->] init
        -> claim -> unlinkSbin -> clear -> release -> empty -> leave -> off  (takeover)
        -> wipe [-> unmark] -> pivot -> local

| state | code |
|---|---|
| `labelled` | some partition is labelled `MACULAOS_STATE`, which the first stage looks for |
| `loader` | what the firmware starts: nothing, the host's GRUB, MaculaOS's, the network |
| `tree`, `link` | the kernel, `macula/<version>/maculaos`, its `.tmp`; `macula/current` |
| `foreign`, `sbin`, `init` | the host's files, its `sbin`, and what `sbin/init` leads to |
| `data` | `macula/data`: what was there before the installation, what users wrote |
| `marks` | `growpart`, `takeover`, `poweroff`, `factory-reset`, `ephemeral` in `macula/system` |
| `pc`, `req`, `rest` | the command to run, the installer's options, what tar has still to write |
| `holes` | history: what the tar that reads the medium left out or cut short |
| `asked` | history: someone asked for a reset since the last boot into local mode, or that boot found takeover's marker |

`Crash` is a power loss and may come between any two actions; whatever takes long (tar,
cp, `rm -rf`) is several actions. `Fault`, in `Abort`, `Fail` and the second halves of the
takeover's actions, is a command that fails: in `install.sh` it ends the installer (`set
-e`), in `mode-disk` it ends in the rescue shell of `overlay/init`, and inside `takeover
|| true` bash ignores it and goes on with the next command, which is why those actions
have a half that does nothing and moves on. One failure `install.sh` does not see: line
133 is `tar cf - | tar xvf -` under `set -e` without `pipefail`, so that the tar that
reads the medium may leave a file out, or give it less than its length, and the installer
writes the markers and GRUB over an incomplete tree. `holes` has what it left out. A
kernel or a binary that is not whole may start or not (`PowerOn`, `Pivot`). At the end of
a takeover `poweroff` and `reboot -f` may fail too, and mode-disk then goes on into the
pivot. `rm -rf a b` that fails with `a` still removes `b`, and so does `Wipe`.

Read off the code and kept: `takeover` runs after `setup_init`, so on a host with a
merged `usr` the link is first made inside the host's tree (`init = "astray"`) and
the sbin link is removed after; the `-e` tests look *through* links, as seen from
the initrd; `takeover` leaves the machine through a reboot, and falls through to the
pivot only if that fails; `factory-reset` is only removed with the data, `ephemeral`
never.

Left out, and why it is sound here: `setup_k3s` and `setup_kernel_squashfs` touch
only files that no other stage reads. The image comes with one version, so the
initrd's `VERSION_ID` and the installed version agree (upgrades are the other
model). A command's writes reach the disk in order, as on a journalled file
system; `install.sh` and `mode-disk` end with `sync`. Installing over an existing
MaculaOS is not modelled: tar writes over its files in place. A power loss between
`mode-disk:136` and `:140` repeats nothing, so the machine is on afterwards where
`--poweroff` asked for off; no property is about that.

The checked disks are a blank one, a labelled empty one that boots from the
network, and hosts whose `/sbin` is a link into `usr` or a directory, with an `init`
that is a link the initrd does not resolve, one that it does, or a file of its own
(or, like Alpine's link to `/bin/busybox`, one that the initrd resolves by itself).
The last is the known limit of hazard `mode-disk:79`: `setup_init` keeps it and
`takeover` spares it, so every pivot starts the old system's init. `Arrives` names it
(`Spared`) together with the links whose removal failed. An installation in place
without `--takeover` is not among the checked requests for the same reason; the
theorems hold for it as well.

## What is modelled: first-boot setup

**`Provisioning.tla`** is what happens until `/var/lib/maculaos/.configured` exists:
the pairing server (`cmd/macula-firstboot/main.go`), whose requests run
concurrently and end in a reboot, and the wizard (`rust/crates/macula-wizard`) that
`overlay/etc/profile.d/macula-firstboot.sh` starts at a login, one per session.

    request  exchange -> store -> write -> mark -> answer      (handlePair)
    wizard   steps <-> summary -> config -> configWrite -> identity
             -> identityWrite -> mark                          (run, write_config)

| state | code |
|---|---|
| `configured` | `.configured` exists |
| `portal`, `config`, `identity` | whose content `credentials/portal.json`, `config.yaml` (its `node_id`) and `identity.json` have: nobody's (`none`), truncated and not yet written (`empty`), not whole (`torn`), a code's or an identity's |
| `handler[h]`, `wizard[w]` | the place of a request and the code it came with; of a wizard, the identity it generated, and whether it was left with `q` |
| `up`, `server`, `reboots` | the node runs, the server listens, a request's goroutine is about to reboot |
| `spent` | the codes the portal has accepted |
| `told`, `rivals` | history: the code of the last `Pairing successful!`; some writer began beside another one, or after one was done |

`os.WriteFile` and `fs::write` are two steps, the truncation and the write; a second
writer between them leaves `torn` files (`Written`). `Fault` may make any call fail,
with the early return the code has there, and the write that fails may leave a part.
An error of `markConfigured` is only logged, so `Mark` goes on to the answer.
`Reboot` is the server's own, any time after the answer; `Halt` is a reboot by
somebody else, at any point; both end all requests and sessions. Who reads
`.configured` before a start and who does not is the code's: `main` (`Serve`) and the
wizard (`Login`) do, `handlePair` does not.

Assumed of the portal, which is not in this repository: it accepts a code once. A
fault of the exchange may come before or after it did. Sessions are those that may
write the files (`/var/lib/maculaos` belongs to root). A reboot stops the node in
order and keeps what was written; nothing is synced by the code, and a power loss
that drops recent writes is not modelled. Left out: `--auto`, `--force`, what the
steps ask, and `portal-token.json`, which no step of the wizard ever fills.

## What is modelled: the node's own directory

`/var/lib/maculaos` holds what a node is. **`StateDir.tla`** has its files, the
programs that write them (a truncation and a write), the host name and the reboot
that draws a new one; **`Backup.tla`** and **`FactoryReset.tla`** are the commands
that work on all files at once; **`Maintenance.tla`** composes them.

    Create  -> Header, Copy of each file -> Finish [with a copy to USB] -> Retain
               -> Expire of each name that is too many
    Restore -> Extract of each file -> Restored
    Reset   -> Erase of each path -> Mark

| state | code |
|---|---|
| `file[f]` | whose content a file has: absent, empty, a value's, or `mixed`, the beginning of one and the tail of a longer one |
| `saving[f]` | a program has truncated the file and is about to write |
| `tars[n]`, `usb[n]` | the tarball of a name, local and on the USB drive: not there, partial, whole, with a last file cut short, garbled by two writers; what it holds, and (history) of which files as they were when it was begun |
| `retention` | `backup.yaml` |
| `host`, `unnamed` | the host name; the file that keeps it is gone |
| `job[p]` | what a command does, and what it has still to go through: files, or the names that retention found to be too many |
| `marker` | `first-boot`, which nobody reads |
| `saved`, `regular`, `restored`, `tailed`, `fresh`, `stirred` | history, for the properties |

Read off the code and kept: a tarball has its final name from the start; the name
is the host name and a second; a list is sorted by name and begins with the
smallest host name; retention lists the directory once, then removes name after name
while others create and delete, and forgets one whose removal failed; restore
opens with `O_CREATE` and without `O_TRUNC`, so that a longer file keeps its tail;
a file that disappeared, or on which the walk or its header fails, is skipped in
silence, and one that cannot be opened leaves its entry unfilled (`backup.go:436-461`);
the deferred closes report nothing, so that a tarball whose last entry was left
unfilled, or whose last writes found the disk full, is reported complete (426-432); a
reset removes its paths one by one and only warns. A backup to USB is copied from
the local one, and a restore from USB takes the first of the directory, whatever
was asked for.

`Erased` is the list of `reset.go:110-117`, as much of it as lies in
`/var/lib/maculaos`; `Files` has more: `.configured`, `credentials/portal.json`,
`identity.json` and `config.yaml`, which the wizards write, are not on it.

**`BackupStore.tla`** is what `maculaos backup` promises to whoever lists the
backups, without headers, copies, jobs or the clock: a complete backup appears in
one step and never changes; a name is lost when somebody takes it or deletes it, or
when retention removes it, one by one of those that it had doomed when it looked:
names that had as many names to stay that sort after them as it is to keep. What is
begun, deleted or fails between the look and the removal does not change that.
`Maintenance` implements it:

| BackupStore | Maintenance |
|---|---|
| `store` | `Whole`: the names of the tarballs that are whole, with what they hold |
| `listed` | the names that have a tarball of any kind |
| `making` | `MadeAlone`: the names of the partial tarballs a creation is at work on |
| `doomed` | `Doomed`: the names that some command is still to remove |
| `keep`, `asked` | `retention`, `begun` |

`Create` is `Begin`, `Finish` is `Complete` or, of a tarball that two have written or that
lacks its end, `Abandon`; `Retain` is `Doom`, and `Expire` is `Expire` or, of a name that
cannot be removed, `Abandon`; a failure and a reboot are `Abandon`; headers, copies,
restores and saves are stutters. A name on which a second creation begins leaves `making`
and never comes back by `Complete`.

## What is modelled: disk encryption

**`Encrypt.tla`** is `maculaos encrypt` with one action per external command:

    enable:  confirm -> copy -> umount -> format -> open -> mkfs -> mount
             -> restore -> cleanup

`base` and `mapped` say where `/var/lib/maculaos` is: on the root, which in disk mode
is the very partition; on the partition mounted there; on an opened volume mounted
over that; or in memory, where files go to `beneath`. There are two partitions: the
one with the label `MACULAOS_STATE`, and one that may have the usual name
(`/dev/sda2` and the like) to which `findDataPartition` falls back when the label is
gone, as it is after the format, or blkid fails. `part`, `keys`, `open` are what the
partitions are, what opens them and the mapping; `inside`, `beneath` and `copy` the
places a file can be in; `target[p]` is the partition a process has found. Two
processes run at a time; cryptsetup refuses a partition that is in use, which is
what `Busy` stands for. `isLuks` refuses an enable only when it succeeds
(`encrypt.go:147`): any failure of it counts as not encrypted, so that an encrypted
partition goes through the whole of it (`Unencrypted`). The failing rsync is a warning
and goes on; a failing umount is ignored; other failures end the command, and a retry
finds the partition as it was left. `written`, `exposed`, `misjudged` and `promised`
are history.

## What is modelled: services

**`OpenRC.tla`** is what `rc-update`, `rc-service` and `iptables` do to the three
macula services, with the refusals of their `start_pre`; **`Mesh.tla`** is
`maculaos mesh configure | wizard | apply`; **`Health.tla`** is `maculaos health
add | remove | watch`; **`Services.tla`** composes them with reboots.

| state | code |
|---|---|
| `mesh`, `there`, `checks`, `exists` | `mesh.yaml` and `health.yaml` |
| `enabled`, `running`, `rules` | the runlevel, what is started, the roles whose ports are open |
| `pc`, `want`, `todo`, `wizard` | of each `mesh` process its place, the roles it was told or read, the services it has still to go through |
| `editor` | of each `health add` or `remove`, its place and the list as it changed it |
| `watch`, `config`, `failed`, `counts` | the watch, the list it read, the failures of the round, `restartCounts` |
| `clean`, `settled`, `asked`, `tangled`, `tries` | history |

Kept: an empty file is a valid configuration; apply only adds rules, never stops a
service, and goes on after any failure; a restart of macula-mesh takes down and brings
back the roles, and a role that mesh.yaml does not name refuses to come back; the watch
counts attempts, reads its list once and knows no service but by the name of a check;
`health add` takes a list that it cannot read or parse for an empty one and writes that
back with success (`health.go:294-297`), while `remove` ends with the error; a watch that
cannot read it starts with the default list; `/etc` is new after every boot.

## What is modelled: the configuration

**`Config.tla`** is `maculaos config`: `ReadConfig` merges six sources
(`FoldLeft` of `Over`), and `InitApply`, `BootApply`, `RunApply` or `InstallApply`
is the sequence of appliers that follows. The boot runs three of them in order
(`ConfigInitrd`, `SetupConfig`, `Ccapply`), the last as a service beside whoever
calls the program at the prompt.

| state | code |
|---|---|
| `source`, `editing`, `draft`, `editor` | the document of each source; a source somebody is writing |
| `mode`, `phase` | the boot's mode and how far it is |
| `todo`, `plan`, `cfg` | of each process the appliers to come, all of them, what it read |
| `at`, `name`, `got`, `left` | its place within an applier, and what that read |
| `kernelName`, `etcName`, `hosts`, `authorized`, `env`, `k3s`, `k3sBin`, `done`, `installing` | what the appliers write |
| `clean`, `settled`, `alone`, `failed` | history |

Host name, `/etc/hosts`, `authorized_keys` and `/etc/environment` are read, changed
and written in steps; the other appliers are one step that may fail (`Fail`), and
`runApplies` goes on after it. Without network the boot passes keys that are URLs
over. `maculaos install` writes the merged configuration into the system's
config.yaml and runs `config --install`. A document is a set of named fields; what
coercion and renaming do inside of it is left out. A crash is a reboot at any step.

## What is modelled: entering the root

**`Relocate.tla`** is the move of an initial root in memory
(`pkg/transferroot`), **`EnterRoot.tla`** the attachment of the image to a loop
device and the pivot into it (`pkg/enterchroot`), **`Entering.tla`** a machine that
does both and containers with the same `/init` that come after it and share its
loop devices. `file`, `auto` and `users` are the kernel's view of a device; `step`,
`mine`, `asks` and `root` a process's, `asks` being the goroutine that sleeps for
three seconds and then asks the kernel to clear the device; `beaten`, `late`, `stale`
and `lost` are history. Kept:
`losetup.Attach` asks for a free device and attaches to it in two calls and hides
that `LOOP_SET_FD` failed, for whatever reason; if the call after that fails, its own
undoing can fail too; the goroutine reads the device's state and writes it back in two
calls (`GetInfo`, `SetInfo`, at once a clear if nobody has it mounted) and returns in
silence when one fails (`enter.go:122-130`); the error of the deferred `Detach` (118) is
ignored; process 1 executes the child in its own place, so that nothing deferred runs;
a child dies with its parent.

**`ImageSearch.tla`** is `inFile` (`enter.go:173-209`): a machine without an image
beside its `/init` looks for one in that program, behind a marker. `Read` fills the
buffer with as much as the file system likes to give, `Match` and `Mismatch` compare
one byte with the next of the marker. `offset` and `found` are the code's, `ahead` is
what of the buffer is still to be compared, `start` the offset that is returned. A
byte that does not match is not compared again with the first of the marker, as in
the code. `FindsRoot` in `Entering` is what the machine does with the result. A
container's search, in the same program, is one step that finds an image or does not.

## What the runs show

| run | instance | result |
|---|---|---|
| `upgrade` | two runs, versions v1 and v2, the plan's request and an operator's, one fault, one kill or cutting reboot; `kernel` absent as on overlay installs | invariants and action properties below hold; 1.0 million states up to symmetry |
| `upgrade_retry` | one plan run again and again, two faults, no kill | every installed component ends on the plan's version if runs keep being started, reboots stop, no version that is to boot waits for the sync of a later run; 2,463 states |
| `upgrade_previous` | one run at a time, three versions, one kill | **violated**: see below |
| `boot` | seven disks, three sets of options, two power losses, two failing commands | all properties of `Boot` hold; 197,742 states |
| `provisioning` | two requests, two sessions, two codes, four identities, one reboot by somebody else, one error | all properties of `Provisioning` hold; 450,525 states up to symmetry |
| `provisioning_quit` | the same | **violated**: see below |
| `maintenance` | two commands at a time, two of them creations, restores or resets and one deletion more; two files that a reset erases and that hold the longer of two values at first; two seconds, retention 0 or 1, one save, one failing call, any number of reboots | all properties of `Maintenance` hold; 990,000 states up to symmetry |
| `maintenance_reset` | one reset of a node with a file that is on the list and one that is not | **violated**: see below |
| `encrypt` | two processes, two partitions, two passphrases, two files, three commands, one save, two failing calls, two reboots | all properties of `Encrypt` hold; 2.1 million states up to symmetry |
| `services` | two operators, two editors, the watch with two restarts, two commands, one failing call, one reboot | all properties of `Services` hold; 910,463 states |
| `config` | six sources, the provider's keys coming with its user data; three documents for the local one, one of them malformed, and one for each other; one caller besides the boot and ccapply, two events | all properties of `Config` hold; 1.5 million states |
| `entering` | a machine and three containers, two devices, three entries of the root, one failing call of the move, any number of others; programs of up to four bytes and two longer ones, a marker of three bytes, reads of up to three | all properties of `Entering` hold; 1.7 million states up to symmetry |

The upgrade:

- `CurrentComplete`: `current` names a complete tree in every state, so whatever
  is cut short the node boots a whole version. The exception is the dropped stat: the
  run that follows from it renames the active directory, and until the new one has its
  name, or for good if it is killed there, the whole version is under `.old` alone.
- `FallbackUsable`: without errors and kills, between runs, `previous` names
  another complete version once anything was upgraded.
- `CleanupComplete`: whatever calls fail, without kills, no `current.tmp` and no
  version that exists as `.old` alone is left between runs, but for a component of
  which that deferred call itself failed.
- `SyncedBeforeReboot`: a run with `--sync` asks for its reboot with everything on
  disk; this is where the lock is needed.
- `CurrentDurable`: where every request says `--sync` and none is killed, the version
  `current` names is on the disk, except between the switch and the sync of the run that
  has the lock. An earlier run whose switch failed leaves a tree that is not synced, and a
  component that was already up to date does not take the sync of the others away. A
  version brought over itself after a dropped stat is excepted: if its switch fails,
  nothing counts as copied and nothing is synced. The mutant lets each component's answer
  overwrite `atLeastOneComponentCopied`.
- `OrphanBlocks` and `FrozenForever` describe two traps: a `current.tmp` whose run
  was killed is never removed and pins its component, and a version directory
  beside its own `.old` can never be activated again.
- `ImplementsAtomicActivation`: the refinement above. The mutant does not compare the
  two versions' names.
- `Converges`: if runs of the plan keep being started, every installed component comes
  to the plan's version and keeps it, whatever failed, unless the removal of its
  `current.tmp` did, or the version is frozen. That runs are started is the premise and
  no fairness: a run whose components all failed exits 0 (`upgrade.go:136-158`), the job
  succeeds, and the controller starts none.
- `RebootsStop`: however often runs are started, the reboots come to an end.

Finding. `upgrade_previous`: `previous` is
removed before its successor is made and before `current` moves
(`component.go:112-122`), against "Previous version always preserved until next
successful update" (`plans/PLAN_MACULAOS.md:589`).

The first stage:

- `LoaderWorks`, `BinWhole`: what the firmware starts is complete, and so is the binary
  `setup_macula` accepts because it exists, however the installation was cut short, unless
  the tar whose status nobody looks at could not read it. The mutants install the boot
  loader before tar ends, or copy the binary without the `.tmp`.
- `CleanSlate`: a takeover without failing commands ends with nothing of the host,
  its data included, in local mode; it holds because the first thing takeover does
  is to order a reset for the boot after it (`mode-disk:112`).
- `UserDataKept`: none of those self-ordered resets, repeated after power losses,
  ever reaches data written in local mode.
- `FreshAfterReset`: after a reset was asked for, the next local boot starts empty.
  If takeover could neither remove its own marker nor restart the machine, what was
  written in between is taken for the old system's (`asked`).
- `Arrives`: once MaculaOS's loader is in place, the machine comes to local mode. Not
  on a disk whose kernel or binary the installer could not read (`holes`); not if it
  ends `Stranded`: takeover failed to remove a linked `sbin` (`mode-disk:115`) and
  then removed what it names; and not if the old `sbin/init` is `Spared`. The mutant
  keeps takeover's marker, so that it takes over for ever.

The first-boot setup:

- `ConfiguredMeans`: whoever finds `.configured` finds whole credentials, or a
  configuration and the identity it names, after any reboots and errors; unless a
  writer began beside another or after one was done. The exception is real: two
  sessions, or a session and a request, that meet can leave a `node_id` that is not
  that of the stored key, or a node that was rebooted in the middle of a second
  `config.yaml` and is configured. The mutant writes the marker before the identity.
- `CredentialsKept`: who was told that a pairing succeeded finds its credentials on
  the node for as long as no other code was exchanged; a request that is sent twice,
  an error of the marker and a reboot do not take them away. The mutant answers
  before the write is done.
- Finding. `provisioning_quit`: the configuration is written `if we completed the
  wizard (not cancelled)` (`app.rs:502`), but `q` on the summary sets the same
  `should_quit` as Enter, and `run` only asks for the step: the configuration is
  written and the wizard never comes back.

The node's own directory:

- `GoodBackupSurvives`: the last backup that was reported complete stays, whole,
  however many later ones fail or are cut short, at any retention. It needs names
  that sort in the order of time; a reset between two backups draws a new host name
  and may break that. And it needs that none was reported complete without its end: a
  disk that is full at the deferred closes (`backup.go:426-432`) leaves a partial
  tarball whose creation goes on to the retention, which may take the last good one.
  `regular` records both. The mutant lets a failed creation run the retention.
- `ImplementsBackupStore`: the refinement above. It holds without any condition, for
  creations that overlap, share a name, lack their end or follow a change of the host
  name or the clock. The mutant lets retention remove the names that sort last.
  "Oldest" (`backup.go:609`) is by name (`backup.go:541`), the host name first: after a
  reset, which keeps the backups, retention may take what was made since before what
  was made under the earlier name.
- `RoundTrip`: of the files that a tarball has, those are back as they were saved for
  which `Restore completed!` is printed, and exactly those are not that were longer when
  they were written over, if nobody wrote beside the creation or the restore. What the
  creation skipped is not in the tarball, and the property says nothing of it: neither
  command reports it. The mutant appends.
- `ResetForgets`: after a reset without failing removals nothing that is on its list is
  there, until a program writes it or a restore brings it back.
- Finding. `maintenance_reset`: the command promises to erase "Console pairing and
  credentials" and "Custom configurations" (`reset.go:33,35`), but what the wizards of
  today write is not on its list: `.configured`, `credentials/portal.json`,
  `identity.json` and `config.yaml` stay, and with `.configured` there no wizard starts.

Disk encryption:

- `DataKept`: through every failing step and every retry the files are on a
  partition or in the copy, also if another partition is taken for the data
  partition. The exceptions, which `exposed` and `misjudged` record, are real: a
  failed rsync, which the command only warns of; power lost between the format and
  the end of the restore; a program that saves meanwhile; two enables at a time; a
  directory that was not on the partition; and `isLuks` failing on a volume that is
  closed, as every volume is after a boot, which is then formatted with nothing copied.
  The mutant copies after the unmount.
- `RootSpared`: the partition of the running root is never formatted.
- `KeyOpens`: an enable that gets to its success message leaves a volume that its
  passphrase opens, however many ran beside it, whichever partitions they found and
  wherever `isLuks` failed on a volume that was open; only on a closed one
  (`misjudged`) a second enable formats, with its own passphrase.

Services:

- `RolesSettled`: after an undisturbed apply, what is enabled, running and let in is
  what `mesh.yaml` asks for, and every restart by the watch leaves it so. The mutant
  restarts the roles only, and a dropped role runs on.
- `EditsKept`: edits of the checks that did not overlap and were not cut short add up,
  from the last `add` on that could not read the list and began a new one.
- `RestartsBounded`, `Persists`: the budget is never exceeded, and a check that fails
  for ever gets all of it. The only liveness here; the mutant lets the watch sleep
  over its failures.

The configuration:

- `Converged`: when the boot stage or a whole `maculaos config` ends with nothing
  that failed or disturbed it, the host name in all its places, the keys, the
  environment, the name servers and the k3s service are what the sources say, the
  later one first, whatever was applied, crashed or failed before. The mutant merges in the
  opposite order.
- `KeysKept`: as long as calls did not overlap, no step takes an authorized key or
  the other lines of `/etc/hosts` away, also not a crash between two steps. The
  mutant writes the new keys without those it read.

Entering the root:

- `MovesWhole`: no entry of the root is ever in neither file system, who goes on has
  all, and never more is held twice than removals failed. The mutant deletes first.
- `RootIsMine`: a process has its own image as its root, but for the three hazards
  that `beaten`, `late` and `stale` record: it says that there are no others. The
  mutant wakes the goroutine as soon as the device is attached.
- `NothingLeaks`: the device of a process that is gone is free or will be; not that
  of process 1, nor of who is `lost`: killed, or with its Detach failing in silence,
  before the goroutine has asked the kernel or after that failed in silence, or unable
  to undo an attachment. The mutant forgets the deferred detach.
- `ImageFound`: what the search of the image returns follows a whole marker, however
  the program is cut into reads; and it passes by no marker, unless a beginning of
  one comes right before it (`__sqmagic_`): the underscore that ends the first attempt
  is not tried as the first of the next. The mutant begins anew at every read, so that
  a marker across two reads is lost.

Bounds of the upgrade. Two runs are enough for the lock and for everything one run can leave
to another; two versions are enough for A to B to A and with it for `.old`; three
are needed to lose a fallback that differs from both ends. One fault and one kill
put an interruption at every point of every run, and `upgrade_retry` with two
faults covers every pair of failed calls: a failed switch leaves the version's tree,
a second one its `.old` beside it, which is the trap of `FrozenForever` and excepted
from `Converges`. `MaxFaults` and `MaxKills` appear
only in the guards of `Fault`, `Kill` and `Restart`.

Bounds of the first stage. One disk is all a machine has that these scripts touch.
Two power losses put one in the installation and one in the first stage, or two
into the takeover, where the second falls into the repetition of what the first cut
short. Two failing commands put one into the installation, where the tar's is not
seen, and one into the takeover, or both into the takeover, of which the second may be
the restart; `CleanSlate` and `FreshAfterReset` speak only of behaviours without
one. `MaxCrashes` and `MaxFaults`
appear only in the guards of `Crash` and `Fault`. The three sets of options are
the installer's default, which formats, and the two of the image builds under
`package/packer`: in place with takeover, with or without power-off.

Bounds of the first-boot setup. Two requests and two sessions are enough for every
pair of writers; two codes are enough for the same code twice and for two different
ones. Four identities are enough for one to be new always: two may be on the disk
and one with the other session. One reboot by somebody else comes on top of those
the server asks for. `MaxHalts` and `MaxFaults` appear only in the guards of `Halt`
and `Fault`. A configured node has nothing left to do here, so the run does not look
for deadlocks. No liveness is stated: it takes a user to set a node up.

Bounds of the others. Two commands, operators, editors or enables at a time are enough for
every overlap of two, and none of these programs counts its rivals; three containers let
one have the device a second has left while the third goes for it. Two values of different
length are enough for a tail that stays; two seconds for two backups of one second and of
two, and for a name that sorts before an older one because the clock was put back.
`AtFirst` gives the files the longer value, so that the one save makes a file shorter than
a tarball has it, or a tarball made in the middle of it has the file empty and a restore
meets one that is longer. Two starts and one deletion more (`MaxStarts`, `MaxCommands`)
give a retention a name that is deleted between its listing and its removal. All files of
that instance are on the reset's list (`Erased`), because a file that is not is one that
only backups touch; the theorems hold for any list, and `maintenance_reset` has one that
is not on it. `MaxHost` is 1 there: a host name is one more way to such a name, and what
it does to the properties is in the theorems, which hold for every `MaxHost`. A marker of
three bytes has beginnings of one and of two; the longer programs have a second marker, or
a beginning before the first. `Shipped` bounds the programs of which the containers are
followed to one, as they do not depend on it. Three commands of `encrypt` are an enable, a
rival or retry, and a change of passphrase; two failing calls are a failing isLuks or
blkid and a later step, two reboots one that closes the volume and one in the enable after
it. One failing call and one reboot come at every place of the others; what fails in
sequence is covered by the theorems where there are any. All bounds (`MaxStarts`,
`MaxCommands`, `MaxSaves`, `MaxFaults`, `MaxHalts`, `MaxEvents`, `MaxMoveFaults`,
`MaxTime`) appear in guards only. `maintenance` and `entering` have no bound on reboots
and on failing calls of the entry: both bring back places that were reached before. None
of these systems has to go on, so their runs do not look for deadlocks.

Fairness of `Services`: `WF` of the watch's own steps, an endless loop that the
scheduler runs. Nobody has to start it, type a command or repair anything.

Fairness of `Boot`. `WF(PowerOn)`, `WF(Reset)`: a machine that is off is turned on,
one in the rescue shell is restarted by whoever finds it. `WF(Boots)`,
`WF(Finish)`: a machine that is on runs its scripts. Nobody has to install, write
or ask.

Fairness of the upgrade (`FairSpec`, for the liveness runs only). `WF(Advance(p))`: a
process that runs is scheduled and its calls return. Nothing starts a run: a job that
failed in a component succeeds, and `Converges` has it as its premise that runs keep
coming. `SF(Restart)`: a reboot init was asked for happens, also if runs come and go
meanwhile. Nothing makes a fault or a kill happen or stop.

## What is proved

All theorems are proved for every value of the constants that satisfies the named
assumptions of the modules; every bound on faults, crashes, commands and time is
arbitrary.

**`UpgradeProofs.tla`**, from `FactoryAssumption`, `NoneAssumption`,
`InstalledAssumption`, `RequestsAssumption` and `BoundsAssumption` of `Upgrade.tla`,
proves the inductive invariant

    IInv == TypeOK /\ LockInv /\ RunInv /\ CopyInv /\ CurrentComplete

`CurrentComplete` alone is not inductive. `Stash` moves a tree away, so one has to know
that a run does so only for a version that is not `current`, or was not recognised as it
(`Replaces`, from `UpToDate` and `dropped`, and kept because only the lock's holder moves
links: `LockInv`); `Switch` publishes `pending`, so one has to know that it names the
run's target and that this tree is the complete one it installed (`RunInv`, `CopyInv`).
From it: `TypeCorrect`, `CurrentAlwaysComplete`, `MutualExclusion`, `RebootsSynced`.
`CleanupAlwaysComplete` adds `CleanInv`: as long as nothing was killed, every component
except the one the holder works on is tidy, or one of its deferred calls has failed
(`Forgiven`). The same invariant gives `Refinement` (`Spec => ImplementsAtomicActivation`:
the initial states correspond, and each action is an abstract one or a stutter),
`OrphanBlocksUpgrade` and `FrozenStays`. `CurrentIsDurable` is `CurrentDurable`, inductive
once `AsksSync` says that a run's own request still has the flag: an installation adds a
tree that `current` does not name, or one that `dropped` excepts; only the lock's holder
moves a link and has copied from then on, and it is past the window only when it has
synced.

`FallbackStays` is the theorem about `FallbackUsable`, which speaks only of the time
between runs. `FallbackInv` says what holds during one: every component has its
fallback or is the one whose links are being moved, and for that one `Underway` says,
step by step, on what the fallback depends. While the new tree is installed it may be the
very directory that was renamed, and is made anew; after that `previous` is gone, and
then it names what `current` is about to leave. `InstalledInv` adds that only
components with a `current` get that far, and `DroppedInv` that no error was dropped
where no call failed.

**`BootProofs.tla`** proves six theorems, for every set of disks and requests and
every number of power losses and failing commands, from `DisksAssumption`,
`RequestsAssumption` and `BoundsAssumption`. `DiskInv` says, for every place the
installer or the first stage can be in, what is on the disk already and who can
be running (`UnpackInv`, `LoaderInv`, `LoadedInv`, `CopyInv`); what the tar could not
read is in `holes` from then on. It gives `LoaderSafe` and `BinSafe`. `MarkInv` says
what the markers stand for: as long as something of the
host is left, `takeover` is set, and as long as its data is, `takeover` or
`factory-reset` (`CleanInv`); while there is user data nobody asked to reset, no
marker orders one and no place of a takeover is reached (`UserInv`); a reset that was
asked for stays marked until `data` is empty (`FreshInv`). From these follow
`SlateClean`, `UserSafe` and `ResetDone`. None of the three properties is inductive:
each is about local mode or one step, and the markers carry it across reboots.

**`ProvisioningProofs.tla`** proves `TypeCorrect`, `ConfiguredSafe` and
`CredentialsSafe` for any sets of requests, sessions, codes and identities and any
number of reboots and errors, from `NamesAssumption` and `BoundsAssumption`.
`ConfInv` says that without rivals there is at most one writer, that none but an
answering request is left once `.configured` is there, and that the writer's last
steps are on the disk. `CredInv` says that nobody has paid with a code somebody else
paid with or was told of, and that a request that alone has paid finds in
`portal.json` what it put there. Neither property is inductive alone: the marker's
step needs what the steps before it left.

**`EncryptProofs.tla`** proves all four properties of `Encrypt` for any sets of
files, keys and processes, from `EncryptBounds`. `Shape` says what the disk can look
like: what is mounted or open is no plain partition, and who makes or fills a file
system does so on the volume it has opened; it gives `RootSpared`. `KeyInv` adds
`FormatOver`: while a key is promised its partition is encrypted, and either open, so
that nobody can format it, or no process that is on its way to a format has it as its
target. `DataInv` says, while nothing exposed the data and no closed volume was
misjudged, that one enable runs at most, where the files are before its format, and
that from the format to the end of the restore all that was on the partition is in the
copy or on the other one (`Placed`).

**`MaintenanceProofs.tla`** proves all four properties of `Maintenance`, for any files,
values, names and commands and any number of saves, failing calls and reboots.
`MarkInv` and `ErasingOf(p)` give `ResetForgets`: what a reset went through is gone
as long as nobody wrote beside it, so the mark comes when all is. `SavedInv` gives
`GoodBackupSurvives`: as long as creations follow each other there is one creator,
its name sorts after every other (`NewNameOf`), when retention lists the directory the
name of the last good backup is the greatest (`LastNameOf`), and so it is not among
those that are then removed (`SparesOf`). `CopiesInv` gives
`RoundTrip`: a tarball that is whole holds what the files were when it was begun
(`TarsInv`), of those it did not skip, because the one that is being written holds as
much for the files walked so far (`MakingOf`), and a restore has brought back the files
extracted so far, but for those that it found longer (`RestoringOf`). Besides the bounds the
proofs use `SizeAssumption`, `LongestAssumption` (among the values there is a
longest one, as in any finite set of contents: a mixed file is counted as that
long), `HeadAssumption` (the two words for no file are no files),
`RetentionAssumption` and `ResetAssumption`.

`Refinement` there is `Spec => ImplementsBackupStore`. Its steps need `TypeOK`,
`CopiesInv` and `OpenOf(p)`, which says that a tarball still being written is
partial or garbled, so that nothing a creation does touches what counts as complete;
and a garbled one is never completed. For retention one has to count:
`ExcessLeaves` says of each name that it counts out when it looks, that as many later
names are to stay as it is to keep. It takes the last name that is to go (`Latest`,
from `Greatest` and the well-foundedness of the numbers), after which by definition so
many come that none of them goes. From there on no step adds to what is doomed.

**`ConfigProofs.tla`** proves all three properties of `Config`, for any documents,
keys and callers and any number of events.

- `GrantsStay` is `KeysKept`. `Shape` gives the types that the appliers' steps rely on;
  `Holds` says that when no calls overlapped, what the one running process has read of
  `authorized_keys` and `/etc/hosts` is still what is there, which is what makes the
  write of the whole file harmless.
- `TypeCorrect`. `TypeInv` says more than `TypeOK`: a document, also one that `maculaos
  install` wrote back, has known fields with values that some document gives them
  (`Legal`), and the first applier of a process has something to do.
- `ApplyConverges` is `Converged`. `Solitude`: who is undisturbed is alone, and a settled
  system has nobody at work. `Faithful`: an undisturbed apply has the configuration that
  the sources have now, each applier of its plan is still ahead of it or has left what it
  should (`Applied`), and the first is as far as its files say (`Midway`). One step of an
  applier keeps what the others left (`Keeps`), the last one leaves its own (`Gains`), and
  an applier that is passed over has nothing to leave (`Busy`, about `FromBusy`). At the
  end nothing is ahead (`Landed`), and `ReadSays` turns what was read into what the
  sources say: the fold over the six readers is six merges, one over the other
  (`FoldOfSix`), whose result has each field as the last document has it that names it
  (`MergeOfSix`). The number of readers is in the code, so no induction over lists is
  needed. Assumed: `DocsAssumption`, that the sources are the six and that a document
  names known fields or is `Malformed`, as the conversion into the `CloudConfig` struct
  leaves no other; and `CallersAssumption`, that nobody at the prompt is called "", which
  in the model stands for no editor.

**`ServicesProofs.tla`** proves the safety properties of `Services`, for any
operators, editors and checks, from `BoundsAssumption`, `ChecksAssumption` and
`HaltsAssumption`. `EditInv`: without an overlap one editor at most is at work, with a
list that is the sum of the edits and its own (`Account`), which for an `add` that could
not read the list is its own alone. `CountInv`: attempts are counted one
by one. `SettleInv` is what `RolesSettled` needs: `Halfway(o)` says of an undisturbed
apply that it is alone and knows what mesh.yaml says, that the runlevel is right for
the services it has gone through, and that once it has restarted macula-mesh no role
runs that is not asked for, and those run that it has restarted since. `RestartKeeps`
is the lemma about OpenRC that lets the watch restart anything in between.

**`EnteringProofs.tla`** proves all properties of `Entering`, for any processes, devices,
entries, programs, marker and buffer, from `RelocateAssumption`, `NamesAssumption`,
`MarkerAssumption`, `ProgramsAssumption` and `BufferAssumption`. `MoveInv`: the new root
is what the walk came past, and all when the walk is over; what is held twice is counted
by the failed removals. `DeviceInv`: whoever a device is attached for knows it as its own,
and has its goroutine at work, or with a call that failed, and its Detach still to come,
or has asked the kernel to clear it, unless it is process 1 or `lost`. `RootInv`: without
the three hazards nobody takes a device away from who is to mount it, or whose goroutine
has not asked the kernel yet. `SearchInv` gives `ImageIsFound`: the last `found` bytes are
the beginning of the marker (`Counted`), and of a clean marker that the search is in the
middle of exactly the bytes since its first are counted, because nothing was counted where
it begins (`Passing`).

## What is only model-checked, and what is not modelled

Every safety property of every passing run is proved. `TypeOK` of `Upgrade`, `Boot` and
`Services` is a theorem (`TypeCorrect`) that the runs do not repeat. `Converges`,
`RebootsStop`, `Arrives` and `Persists` are liveness under fairness, which this prover
does not reach: they are only model-checked. So is what a fold over a list of unknown
length computes, which takes an induction over data; the one fold that a theorem depends
on is over six documents and is unrolled.

Not modelled, and why (`PROJECT.json` has the reason of each component):

- interleavings that the code is open to because it takes no lock: they are in the
  models, but `ConfiguredMeans` and `CredentialsKept` (two wizards, or two codes, that
  meet), `EditsKept` (two edits of the checks), `Converged` and `KeysKept` (two calls of
  `maculaos config`), `DataKept` (two enables) and `GoodBackupSurvives` (two creations)
  say nothing once one happened, because what they state is then false. Each exception
  is a history variable, so that all that comes before it is still checked;
- the upgrade scripts and the terminal interface: not yet, see the plan;
- `maculaos rc`: a fixed sequence of mounts and device nodes at start, whose errors
  are logged and which keeps nothing;
- `maculaos diag`: reads and prints;
- the prompts of the interactive installer: dialogue without effects until the
  configuration is written, which is modelled;
- build and packaging: run on a build machine.

## Plan

Done: `Upgrade` with `AtomicActivation`, `Boot`, `Provisioning`, `Encrypt`,
`Maintenance` with `BackupStore`, `Config`, `Services` and `Entering`,
all with proofs. In this order, what is to come:

1. an abstract specification for `Config` (an apply as one step from sources to
   system), and the refinement proved;
2. `Upgrade`: the two upgrade scripts as further actors without the lock, and a
   power loss that drops what is unsynced, for the node after it and not only, as in
   `CurrentDurable`, for what is at stake;
3. `Boot`: `kernel.squashfs` and installing over an existing MaculaOS;
   `Provisioning`: `--auto` and `--force`;
4. `Tui`: four tasks, one channel, the peers view.

Runs that must fail (findings) stay few: each quotes the line it contradicts.
