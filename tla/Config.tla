------------------------------- MODULE Config -------------------------------
(***************************************************************************)
(* `maculaos config` (pkg/cli/config/config.go): the configuration is      *)
(* merged from its sources (pkg/config) and applied (pkg/cc), in the       *)
(* initramfs, in the boot, by the service ccapply and by whoever calls it  *)
(* at the prompt, all of them on the same files.                           *)
(*                                                                         *)
(* A document is a function from the fields that it names to their values. *)
(***************************************************************************)
EXTENDS Naturals, FiniteSets, Sequences, SequencesExt

CONSTANTS
  Docs,      \* of each source, the documents that can be found in it
  Malformed, \* a document that yaml does not parse
  Remote,    \* the ssh keys that are given by the URL they are fetched from
  Callers,   \* processes of `maculaos config` at the prompt
  MaxEvents  \* bound: calls at the prompt, edits, faults and reboots in a behaviour

ASSUME ConfigBound == MaxEvents \in Nat
ASSUME CallersAssumption == "" \notin Callers

VARIABLES
  mode,       \* of the boot
  phase,      \* how far the boot is
  source,     \* of each source, the document in it
  editing, draft, \* the source whose file was emptied, and what is to be written
  editor,     \* who writes it
  kernelName, etcName, \* the host name, of the kernel and in /etc/hostname
  hosts,      \* /etc/hosts
  authorized, \* ~macula/.ssh/authorized_keys
  env,        \* /etc/environment
  done,       \* of each plain field, what it was applied with
  k3s,        \* the k3s service: installed or not, its arguments, restarted or not
  k3sBin,     \* where its program is
  installing, \* `maculaos install` was started
  todo,       \* of each process, the appliers it still has to run
  plan,       \* of each process, all of them
  cfg,        \* the configuration it read
  at,         \* where it is in the first of todo
  name,       \* what os.Hostname told it
  got,        \* what it read from the files
  left,       \* the keys it still has to authorize
  \* history
  clean,      \* of each process, nothing disturbed it since it read the sources
  settled,    \* the last plan that came to its end, if undisturbed, and nothing
              \* happened since
  alone,      \* no two processes ran at a time in this boot
  failed,     \* an applier failed in this boot
  events

fileVars == <<kernelName, etcName, hosts, authorized, env, done, k3s, k3sBin, installing>>
procVars == <<todo, plan, cfg, at, name, got, left>>
worldVars == <<mode, phase, source, editing, draft, editor>>
histVars == <<clean, settled, alone>>
bounds == <<failed, events>>
vars == <<fileVars, procVars, worldVars, histVars, bounds>>

Procs == {"boot", "ccapply"} \cup Callers

InitApply == <<"modules", "sysctls", "hostname", "files", "env", "initcmd">>
BootApply == <<"sources", "modules", "sysctls", "hostname", "dns", "wifi",
               "password", "keys", "k3s", "files", "env", "bootcmd">>
RunApply == <<"modules", "sysctls", "hostname", "dns", "wifi",
              "password", "keys", "files", "env", "runcmd", "install", "k3s">>
InstallApply == <<"k3s">>
Plans == {InitApply, BootApply, RunApply, InstallApply}

Added == {"modules", "initcmd", "bootcmd", "runcmd"}
Plain == {"sources", "sysctls", "dns", "wifi", "files"} \cup Added
Fields == Plain \cup {"password", "hostname", "keys", "env", "k3s"}

\* There are six readers, and a document that parses has no other field.
ASSUME DocsAssumption ==
  /\ DOMAIN Docs = {"system", "cmdline", "local", "cloud", "userdata", "config.d"}
  /\ \A s \in DOMAIN Docs : \A d \in Docs[s] : d = Malformed \/ DOMAIN d \subseteq Fields

Nothing == [f \in {} |-> {}]
Written(f) == {d[f] : d \in {e \in UNION {Docs[s] \ {Malformed} : s \in DOMAIN Docs} :
                               f \in DOMAIN e}}
Names == Written("hostname") \cup {"", "generated"}
KeysNamed == UNION Written("keys")
NoHosts == [there |-> FALSE, local |-> FALSE, name |-> ""]
NoK3s == [there |-> FALSE, args |-> "", restarted |-> FALSE]
NothingRead == [hosts |-> NoHosts, keys |-> {}, env |-> Nothing]
NothingDone == [f \in Plain |-> IF f \in Added THEN {} ELSE ""]

-----------------------------------------------------------------------------
(* Reading *)

\* UpdateMerge: a list, a map or a scalar of the later source takes the place of
\* the earlier one.
Over(old, new) ==
  [f \in DOMAIN old \cup DOMAIN new |-> IF f \in DOMAIN new THEN new[f] ELSE old[f]]

Readers == <<"system", "cmdline", "local", "cloud", "userdata", "config.d">>

\* In the initramfs the disk is not mounted.
Readable == IF phase = "initrd" THEN {"system", "cmdline"} ELSE DOMAIN source

\* Mutant: the readers in the opposite order.
ReadConfig_Reversed ==
  FoldLeft(Over, Nothing,
           [i \in 1 .. Len(Readers) |->
              IF Readers[7 - i] \in Readable THEN source[Readers[7 - i]] ELSE Nothing])

ReadConfig ==
  FoldLeft(Over, Nothing,
           [i \in 1 .. Len(Readers) |->
              IF Readers[i] \in Readable THEN source[Readers[i]] ELSE Nothing])

\* One reader that fails and there is no configuration, which is logged.
CanRead == \A s \in Readable : source[s] # Malformed

Running == {p \in Procs : todo[p] # <<>>}

TypeOK ==
  /\ mode \in {"local", "live", "install"}
  /\ phase \in {"off", "initrd", "mode", "setup", "config", "up", "served"}
  /\ \A s \in DOMAIN Docs : source[s] = Malformed \/ DOMAIN source[s] \subseteq Fields
  /\ editing \in DOMAIN Docs \cup {""} /\ editor \in Callers \cup {"hand", ""}
  /\ {kernelName, etcName} \subseteq Names
  /\ hosts \in [there : BOOLEAN, local : BOOLEAN, name : Names]
  /\ authorized \subseteq KeysNamed
  /\ k3s \in {NoK3s} \cup [there : {TRUE}, args : Written("k3s") \cup {"default"},
                             restarted : BOOLEAN]
  /\ k3sBin \in {"/sbin", "/usr/local", "none"} /\ installing \in BOOLEAN
  /\ \A p \in Procs : /\ plan[p] \in Plans \cup {<<>>} /\ Range(todo[p]) \subseteq Range(plan[p])
                      /\ todo[p] # <<>> => cfg[p] = Nothing \/ DOMAIN cfg[p] \subseteq Fields
                      /\ name[p] \in Names /\ left[p] \subseteq KeysNamed
                      /\ got[p].keys \subseteq KeysNamed /\ got[p].hosts.name \in Names
  /\ at \in [Procs -> {"start", "ask", "etc", "hosts", "empty", "fill", "key",
                       "write", "wipe", "pour"}]
  /\ clean \in [Procs -> BOOLEAN] /\ alone \in BOOLEAN
  /\ settled \in {"none", "boot", "run"}
  /\ failed \in BOOLEAN /\ events \in 0 .. MaxEvents

Init ==
  /\ mode \in {"local", "live", "install"} /\ phase = "off"
  /\ source \in [DOMAIN Docs -> UNION {Docs[s] : s \in DOMAIN Docs} \cup {Nothing}]
  /\ \A s \in DOMAIN Docs :
       source[s] \in IF s \in {"cloud", "userdata"} THEN {Nothing} ELSE Docs[s]
  /\ editing = "" /\ draft = Nothing /\ editor = ""
  /\ kernelName = "" /\ etcName = "" /\ hosts = NoHosts
  /\ authorized = {} /\ env = Nothing /\ done = NothingDone
  /\ k3s = NoK3s /\ k3sBin \in {"/sbin", "none"} /\ installing = FALSE
  /\ todo = [p \in Procs |-> <<>>] /\ plan = [p \in Procs |-> <<>>]
  /\ cfg = [p \in Procs |-> Nothing] /\ at = [p \in Procs |-> "start"]
  /\ name = [p \in Procs |-> ""] /\ got = [p \in Procs |-> NothingRead]
  /\ left = [p \in Procs |-> {}]
  /\ clean = [p \in Procs |-> FALSE] /\ settled = "none" /\ alone = TRUE
  /\ failed = FALSE /\ events = 0

\* An applier returns at once if the configuration says nothing for it, but for
\* these.
Always == {"dns", "install", "k3s"}

\* The appliers that are left, from the first that has something to do.
FromBusy(appliers, doc) ==
  LET busy == {i \in 1 .. Len(appliers) : appliers[i] \in Always \/ appliers[i] \in DOMAIN doc}
  IN IF busy = {} THEN <<>> ELSE SubSeq(appliers, Min(busy), Len(appliers))

\* Main reads the configuration and takes the appliers one after the other.
Start(p, appliers) ==
  /\ todo[p] = <<>>
  /\ alone' = (alone /\ Running = {})
  /\ IF CanRead
     THEN /\ todo' = [todo EXCEPT ![p] = FromBusy(appliers, ReadConfig)]
          /\ plan' = [plan EXCEPT ![p] = appliers]
          /\ cfg' = [cfg EXCEPT ![p] = ReadConfig]
          /\ clean' = [q \in Procs |-> q = p /\ Running = {} /\ editing = ""]
          /\ settled' = "none"
     ELSE UNCHANGED <<todo, plan, cfg, clean, settled>>
  /\ UNCHANGED <<fileVars, at, name, got, left>>

\* runApplies goes on to the next applier, also after an error.
NextApplier(p, fine) ==
  LET rest == FromBusy(Tail(todo[p]), cfg[p])
      ends == rest = <<>>
      ok == clean[p] /\ fine IN
  /\ todo' = [todo EXCEPT ![p] = rest]
  /\ at' = [at EXCEPT ![p] = "start"]
  /\ name' = [name EXCEPT ![p] = ""] /\ got' = [got EXCEPT ![p] = NothingRead]
  /\ left' = [left EXCEPT ![p] = {}]
  /\ plan' = IF ends THEN [plan EXCEPT ![p] = <<>>] ELSE plan
  /\ cfg' = IF ends THEN [cfg EXCEPT ![p] = Nothing] ELSE cfg
  /\ clean' = [clean EXCEPT ![p] = ok /\ ~ends]
  /\ settled' = IF ~(ends /\ ok) THEN settled
                ELSE IF plan[p] = BootApply THEN "boot"
                ELSE IF plan[p] = RunApply THEN "run" ELSE settled
  /\ UNCHANGED alone

Event == events < MaxEvents /\ events' = events + 1

Goto(p, l) ==
  at' = [at EXCEPT ![p] = l] /\ UNCHANGED <<todo, plan, cfg, histVars>>

At(p, applier, l) == todo[p] # <<>> /\ Head(todo[p]) = applier /\ at[p] = l
Sets(p, field) == field \in DOMAIN cfg[p]

-----------------------------------------------------------------------------
(* The appliers *)

Apply(p, fields) ==
  /\ todo[p] # <<>> /\ Head(todo[p]) \in fields /\ at[p] = "start"
  /\ NextApplier(p, TRUE)
Put(f, v) ==
  /\ done' = [done EXCEPT ![f] = v]
  /\ UNCHANGED <<kernelName, etcName, hosts, authorized, env, k3s, k3sBin, installing>>

\* A file is written whole.  /etc/connman/main.conf has a default.
ApplySettings(p) ==
  /\ Apply(p, {"sources", "sysctls", "dns", "wifi"})
  /\ LET f == Head(todo[p]) IN Put(f, IF Sets(p, f) THEN cfg[p][f] ELSE "8.8.8.8")
  /\ UNCHANGED <<worldVars, bounds>>

\* A module that is loaded is left as it is.
LoadModules(p) ==
  /\ Apply(p, {"modules"})
  /\ Put("modules", done["modules"] \cup cfg[p]["modules"])
  /\ UNCHANGED <<worldVars, bounds>>

\* Each file is renamed into its place.
WriteFiles(p) ==
  /\ Apply(p, {"files"})
  /\ Put("files", cfg[p]["files"])
  /\ UNCHANGED <<worldVars, bounds>>

\* runcmd, bootcmd or initcmd
ExecuteCommand(p) ==
  /\ Apply(p, {"runcmd", "bootcmd", "initcmd"})
  /\ LET f == Head(todo[p]) IN Put(f, done[f] \cup cfg[p][f])
  /\ UNCHANGED <<worldVars, bounds>>

\* chpasswd is given a password for the user rancher.  There is none (bootstrap
\* makes macula): it changes nothing and fails, as is logged.
SetPassword(p) ==
  /\ Apply(p, {"password"})
  /\ UNCHANGED <<fileVars, worldVars, bounds>>

\* SetHostname
ApplyHostname(p) ==
  /\ At(p, "hostname", "start")
  /\ kernelName' = cfg[p].hostname
  /\ Goto(p, "ask")
  /\ UNCHANGED <<etcName, hosts, authorized, env, done, k3s, k3sBin, installing,
                 name, got, left, worldVars, bounds>>

\* syncHostname: the name is asked of the kernel, and goes to /etc/hostname.
AskName(p) ==
  /\ At(p, "hostname", "ask")
  /\ name' = [name EXCEPT ![p] = kernelName]
  /\ Goto(p, "etc")
  /\ UNCHANGED <<fileVars, got, left, worldVars, bounds>>

WriteName(p) ==
  /\ At(p, "hostname", "etc")
  /\ etcName' = name[p]
  /\ Goto(p, "hosts")
  /\ UNCHANGED <<kernelName, hosts, authorized, env, done, k3s, k3sBin, installing,
                 name, got, left, worldVars, bounds>>

\* /etc/hosts is read, emptied and written with the other name in its line, if it
\* has one.  The image has no /etc/hosts: that is an error in the initramfs.
ReadHosts(p) ==
  /\ At(p, "hostname", "hosts")
  /\ IF hosts.there
     THEN got' = [got EXCEPT ![p].hosts = hosts] /\ Goto(p, "empty") /\ UNCHANGED <<name, left>>
     ELSE NextApplier(p, FALSE)
  /\ UNCHANGED <<fileVars, worldVars, bounds>>

EmptyHosts(p) ==
  /\ At(p, "hostname", "empty")
  /\ hosts' = [NoHosts EXCEPT !.there = TRUE]
  /\ Goto(p, "fill")
  /\ UNCHANGED <<kernelName, etcName, authorized, env, done, k3s, k3sBin, installing,
                 name, got, left, worldVars, bounds>>

FillHosts(p) ==
  /\ At(p, "hostname", "fill")
  /\ hosts' = [got[p].hosts EXCEPT !.name = IF @ = "" THEN "" ELSE name[p]]
  /\ NextApplier(p, TRUE)
  /\ UNCHANGED <<kernelName, etcName, authorized, env, done, k3s, k3sBin, installing,
                 worldVars, bounds>>

\* SetAuthorizedKeys
ApplySSHKeys(p) ==
  /\ At(p, "keys", "start")
  /\ IF cfg[p].keys # {}
     THEN left' = [left EXCEPT ![p] = cfg[p].keys] /\ Goto(p, "key") /\ UNCHANGED <<name, got>>
     ELSE NextApplier(p, TRUE)
  /\ UNCHANGED <<fileVars, worldVars, bounds>>

\* The next key of the list, after any error.
NextKey(p, k, fine) ==
  IF left[p] = {k} THEN NextApplier(p, fine)
  ELSE /\ left' = [left EXCEPT ![p] = @ \ {k}]
       /\ at' = [at EXCEPT ![p] = "key"]
       /\ got' = [got EXCEPT ![p] = NothingRead]
       /\ clean' = [clean EXCEPT ![p] = @ /\ fine]
       /\ UNCHANGED <<todo, plan, cfg, name, settled, alone>>

WithNet(p) == plan[p] = RunApply
Reads(p, k) == k \notin Remote \/ WithNet(p)

\* The key is chosen by its order in the list: here, any.  A key that is fetched
\* is left for ccapply.
SkipKey(p) ==
  /\ At(p, "keys", "key")
  /\ \E k \in left[p] : ~Reads(p, k) /\ NextKey(p, k, TRUE)
  /\ UNCHANGED <<fileVars, worldVars, bounds>>

\* authorizeSSHKey reads the file, which it creates if need be...
ReadKeys(p) ==
  /\ At(p, "keys", "key")
  /\ \E k \in left[p] : Reads(p, k)
  /\ got' = [got EXCEPT ![p].keys = authorized]
  /\ Goto(p, "write")
  /\ UNCHANGED <<fileVars, name, left, worldVars, bounds>>

\* Mutant: the file is written with the key alone.
WriteKeys_Alone(p) ==
  /\ At(p, "keys", "write")
  /\ \E k \in left[p] :
       /\ Reads(p, k)
       /\ authorized' = {k}
       /\ NextKey(p, k, TRUE)
  /\ UNCHANGED <<kernelName, etcName, hosts, env, done, k3s, k3sBin, installing,
                 worldVars, bounds>>

\* ... and renames one with the key in its place.
WriteKeys(p) ==
  /\ At(p, "keys", "write")
  /\ \E k \in left[p] :
       /\ Reads(p, k)
       /\ authorized' = got[p].keys \cup {k}
       /\ NextKey(p, k, TRUE)
  /\ UNCHANGED <<kernelName, etcName, hosts, env, done, k3s, k3sBin, installing,
                 worldVars, bounds>>

\* ApplyEnvironment: read, emptied, written.
ApplyEnvironment(p) ==
  /\ At(p, "env", "start")
  /\ got' = [got EXCEPT ![p].env = env]
  /\ Goto(p, "wipe")
  /\ UNCHANGED <<fileVars, name, left, worldVars, bounds>>

EmptyEnvironment(p) ==
  /\ At(p, "env", "wipe")
  /\ env' = Nothing
  /\ Goto(p, "pour")
  /\ UNCHANGED <<kernelName, etcName, hosts, authorized, done, k3s, k3sBin, installing,
                 name, got, left, worldVars, bounds>>

WriteEnvironment(p) ==
  /\ At(p, "env", "pour")
  /\ env' = Over(got[p].env, cfg[p].env)
  /\ NextApplier(p, TRUE)
  /\ UNCHANGED <<kernelName, etcName, hosts, authorized, done, k3s, k3sBin, installing,
                 worldVars, bounds>>

\* ApplyK3S: what it does without a program depends on who calls it.
Restart(p) == plan[p] # BootApply
InstallsK3S(p) == plan[p] = RunApply
HasWork(p) ==
  /\ mode # "install"
  /\ k3sBin = "/sbin" \/ Restart(p)
  /\ k3sBin # "none" \/ InstallsK3S(p)

\* Mutant: no role is given if the configuration names no argument.
ApplyK3S_NoRole(p) ==
  /\ At(p, "k3s", "start")
  /\ IF HasWork(p)
     THEN /\ k3s' = [there |-> TRUE,
                     args |-> IF Sets(p, "k3s") THEN cfg[p].k3s ELSE "",
                     restarted |-> k3s.restarted \/ Restart(p)]
          /\ k3sBin' = IF k3sBin = "none" THEN "/usr/local" ELSE k3sBin
     ELSE UNCHANGED <<k3s, k3sBin>>
  /\ NextApplier(p, TRUE)
  /\ UNCHANGED <<kernelName, etcName, hosts, authorized, env, done, installing,
                 worldVars, bounds>>

ApplyK3S(p) ==
  /\ At(p, "k3s", "start")
  /\ IF HasWork(p)
     THEN /\ k3s' = [there |-> TRUE,
                     args |-> IF Sets(p, "k3s") THEN cfg[p].k3s ELSE "default",
                     restarted |-> k3s.restarted \/ Restart(p)]
          /\ k3sBin' = IF k3sBin = "none" THEN "/usr/local" ELSE k3sBin
     ELSE UNCHANGED <<k3s, k3sBin>>
  /\ NextApplier(p, TRUE)
  /\ UNCHANGED <<kernelName, etcName, hosts, authorized, env, done, installing,
                 worldVars, bounds>>

ApplyInstall(p) ==
  /\ At(p, "install", "start")
  /\ installing' = (installing \/ mode = "install")
  /\ NextApplier(p, TRUE)
  /\ UNCHANGED <<kernelName, etcName, hosts, authorized, env, done, k3s, k3sBin,
                 worldVars, bounds>>

\* A call fails and ends its applier, or one key of it: a file system that is
\* full, a provider that does not answer ten times, a command, k3s-install.sh.
\* What was emptied stays empty.
Fail(p) ==
  /\ todo[p] # <<>> /\ Event /\ failed' = TRUE
  /\ IF left[p] # {} THEN \E k \in left[p] : Reads(p, k) /\ NextKey(p, k, FALSE)
     ELSE NextApplier(p, FALSE)
  /\ UNCHANGED <<fileVars, worldVars>>

Applier(p) ==
  \/ ApplySettings(p) \/ LoadModules(p) \/ WriteFiles(p) \/ ExecuteCommand(p)
  \/ SetPassword(p) \/ ApplyHostname(p) \/ AskName(p) \/ WriteName(p) \/ ReadHosts(p)
  \/ EmptyHosts(p) \/ FillHosts(p) \/ ApplySSHKeys(p) \/ SkipKey(p) \/ ReadKeys(p)
  \/ WriteKeys(p) \/ ApplyEnvironment(p) \/ EmptyEnvironment(p) \/ WriteEnvironment(p)
  \/ ApplyK3S(p) \/ ApplyInstall(p) \/ Fail(p)

-----------------------------------------------------------------------------
(* The boot *)

BootIdle == todo["boot"] = <<>>

\* bootstrap, in the initramfs
ConfigInitrd ==
  /\ phase = "off" /\ phase' = "initrd"
  /\ UNCHANGED <<fileVars, procVars, mode, source, editing, draft, editor, histVars, bounds>>

ApplyInitrd ==
  /\ phase = "initrd" /\ Start("boot", InitApply)
  /\ phase' = "mode"
  /\ UNCHANGED <<mode, source, editing, draft, editor, bounds>>

Phase(here, next) == phase = here /\ BootIdle /\ phase' = next

\* A disk's own bootstrap mounts another /etc over the first and has no initrd
\* stage; setup_hostname and setup_hosts of boot.  The generated name is kept in
\* /var/lib/maculaos: Boot models its life.
SetupHostname ==
  /\ Phase("mode", "setup")
  /\ LET fresh == mode = "local" \/ etcName = ""
     IN etcName' = IF fresh THEN "generated" ELSE etcName
  /\ hosts' = [there |-> TRUE, local |-> TRUE, name |-> etcName']
  /\ IF mode = "local" THEN env' = Nothing ELSE UNCHANGED env
  /\ UNCHANGED <<kernelName, authorized, done, k3s, k3sBin, installing, procVars,
                 mode, source, editing, draft, editor, histVars, bounds>>

SetupConfig ==
  /\ phase = "setup" /\ Start("boot", BootApply)
  /\ phase' = "config"
  /\ UNCHANGED <<mode, source, editing, draft, editor, bounds>>

\* The boot runlevel: OpenRC's hostname service, and cloud-config if it has a
\* source, which fetches some of what it should or nothing.
Runlevels ==
  /\ Phase("config", "up")
  /\ kernelName' = etcName
  /\ IF done["sources"] = "" THEN UNCHANGED <<source, settled>>
     ELSE \E cloud \in Docs["cloud"] \cup {Nothing}, user \in Docs["userdata"] \cup {Nothing} :
            /\ source' = [source EXCEPT !["cloud"] = cloud, !["userdata"] = user]
            /\ settled' = IF source' = source THEN settled ELSE "none"
  /\ UNCHANGED <<etcName, hosts, authorized, env, done, k3s, k3sBin, installing,
                 procVars, mode, editing, draft, editor, clean, alone, bounds>>

\* The service ccapply, at any time after that; `maculaos config` or
\* `config --install` at the prompt.
Ccapply ==
  /\ phase = "up" /\ Start("ccapply", RunApply)
  /\ phase' = "served"
  /\ UNCHANGED <<mode, source, editing, draft, editor, bounds>>

Call(p) ==
  /\ editor # p /\ phase \in {"up", "served"} /\ Event
  /\ \E appliers \in {RunApply, InstallApply} : Start(p, appliers)
  /\ UNCHANGED <<worldVars, failed>>

\* A file is written: it is empty for a while.
Disturbed == clean' = [p \in Procs |-> FALSE] /\ settled' = "none" /\ UNCHANGED alone

BeginEdit(who, s, doc) ==
  /\ phase \in {"up", "served"} /\ editor = "" /\ Event
  /\ editor' = who /\ editing' = s /\ draft' = doc
  /\ source' = [source EXCEPT ![s] = Nothing]
  /\ Disturbed
  /\ UNCHANGED <<fileVars, procVars, mode, phase, failed>>

\* By hand, config.yaml or a file of config.d.
Edit ==
  \E s \in {"local", "config.d"} \cap DOMAIN Docs : \E d \in Docs[s] : BeginEdit("hand", s, d)

\* `maculaos install`, answered with "Configure server or agent": it asks for what
\* no source says, and what all of them say together goes to the system's
\* config.yaml, or to the local one if that cannot be created.
Configure(p) ==
  /\ mode # "install" /\ todo[p] = <<>> /\ CanRead
  /\ \E s \in {"system", "local"} \cap DOMAIN Docs, asked \in {Nothing} \cup [{"k3s"} -> {"default"}] :
       BeginEdit(p, s, Over(asked, ReadConfig))

EndEdit ==
  /\ editing # ""
  /\ source' = [source EXCEPT ![editing] = draft]
  /\ editing' = "" /\ draft' = Nothing
  /\ editor' = IF editor = "hand" THEN "" ELSE editor
  /\ Disturbed
  /\ UNCHANGED <<fileVars, procVars, mode, phase, bounds>>

\* ... and then it runs `config --install`.
RunCCApply(p) ==
  /\ editor = p /\ editing = "" /\ Start(p, InstallApply)
  /\ editor' = ""
  /\ UNCHANGED <<mode, phase, source, editing, draft, bounds>>

\* At any time.  /etc and /run are in memory, everything is when nothing is
\* installed; a file of write_files is on the disk, or not.
Reboot ==
  /\ phase # "off" /\ Event /\ failed' = FALSE
  /\ phase' = "off" /\ editing' = "" /\ draft' = Nothing /\ editor' = "" /\ mode' \in {mode} \cup {"local"}
  /\ source' = [s \in DOMAIN Docs |-> IF s \in {"cloud", "userdata"} THEN Nothing ELSE source[s]]
  /\ kernelName' = "" /\ etcName' = "" /\ hosts' = NoHosts /\ env' = Nothing
  /\ \E kept \in {{"wifi"}, {"wifi", "files"}} :
       done' = [f \in Plain |-> IF f \in kept /\ mode = "local" THEN done[f] ELSE NothingDone[f]]
  /\ authorized' = IF mode = "local" THEN authorized ELSE {}
  /\ k3sBin' = IF mode # "local" /\ k3sBin = "/usr/local" THEN "none" ELSE k3sBin
  /\ k3s' = NoK3s /\ installing' = FALSE
  /\ todo' = [p \in Procs |-> <<>>] /\ plan' = [p \in Procs |-> <<>>]
  /\ cfg' = [p \in Procs |-> Nothing] /\ at' = [p \in Procs |-> "start"]
  /\ name' = [p \in Procs |-> ""] /\ got' = [p \in Procs |-> NothingRead]
  /\ left' = [p \in Procs |-> {}]
  /\ clean' = [p \in Procs |-> FALSE] /\ settled' = "none" /\ alone' = TRUE

Next ==
  \/ \E p \in Procs : Applier(p)
  \/ ConfigInitrd \/ ApplyInitrd \/ SetupHostname \/ SetupConfig \/ Runlevels
  \/ Ccapply \/ \E p \in Callers : Call(p)
  \/ Edit \/ EndEdit \/ \E p \in Callers : Configure(p) \/ RunCCApply(p)
  \/ Reboot

Spec == Init /\ [][Next]_vars

-----------------------------------------------------------------------------
(* Properties *)

\* What the sources say of a field: the last of them that names it.
Naming(f) == {i \in 1 .. Len(Readers) : f \in DOMAIN source[Readers[i]]}
Says(f) ==
  LET i == CHOOSE i \in Naming(f) : \A j \in Naming(f) : j <= i IN source[Readers[i]][f]
Named(f) == Naming(f) # {}

\* When a boot stage or a whole `maculaos config` comes to its end undisturbed,
\* the system is what the sources say, whatever crashes, failures, overlapping
\* calls and older configurations there were before: the host name in its three
\* places, the keys, the environment, the name servers, the k3s service
\* (cc/apply.go:30-66, config/read.go:48-54).
Converged ==
  settled # "none" =>
    /\ Named("hostname") => /\ kernelName = Says("hostname") /\ etcName = kernelName
                            /\ hosts.name \in {"", kernelName}
    /\ Named("keys") => Says("keys") \ (IF settled = "boot" THEN Remote ELSE {}) \subseteq authorized
    /\ Named("env") => \A v \in DOMAIN Says("env") : v \in DOMAIN env /\ env[v] = Says("env")[v]
    /\ \A f \in {"wifi", "dns", "sysctls"} : Named(f) => done[f] = Says(f)
    /\ ~Named("dns") => done["dns"] = "8.8.8.8"
    /\ \A f \in {"modules"} \cup IF settled = "run" THEN {"runcmd"} ELSE {} :
         Named(f) => Says(f) \subseteq done[f]
    /\ settled = "run" /\ mode # "install" =>
         k3s = [there |-> TRUE, args |-> IF Named("k3s") THEN Says("k3s") ELSE "default",
                restarted |-> TRUE]
    /\ settled = "run" => (installing <=> mode = "install")

\* Nothing that somebody was granted is taken away: an authorized key stays, also
\* through a crash between any two steps, and so do the lines of /etc/hosts, but for
\* the moment in which it is written; unless two calls overlapped, or a write
\* failed (ssh.go:107-130, hostname.go:38-54).
Kept ==
  /\ mode = "local" => authorized \subseteq authorized'
  /\ hosts'.there /\ ~failed' /\ (\A p \in Procs : at'[p] # "fill") => hosts'.local

KeysKept == [][alone' => Kept]_vars

=============================================================================
