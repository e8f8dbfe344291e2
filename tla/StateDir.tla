------------------------------ MODULE StateDir ------------------------------
(***************************************************************************)
(* /var/lib/maculaos: the files in which a node keeps what it is, the      *)
(* programs that write them, and the commands `maculaos backup` and        *)
(* `maculaos factory-reset` that work on all of them at once.              *)
(*                                                                         *)
(* Most of the system writes a file with os.WriteFile, cat or echo, which  *)
(* truncate it first.  Nothing takes a lock.  Of a file's contents only    *)
(* their identity and their length matter here.                            *)
(***************************************************************************)
EXTENDS Naturals, FiniteSets

CONSTANTS
  Files,       \* the files
  Values,      \* what a program can write to one
  Size,        \* and how long that is
  Commands,    \* `maculaos` processes that can be alive at a time
  MaxHost,     \* hostnames are 1 .. MaxHost, in the order of their letters
  MaxTime,     \* bound: seconds on the clock
  AtFirst,     \* bound: what the files hold when a behaviour begins
  MaxStarts,   \* bound: how many commands there are before nobody gives another
               \* one but to delete a backup
  MaxCommands, \* bound: commands in a behaviour
  MaxSaves,    \* bound: files saved in a behaviour
  MaxFaults    \* bound: failing calls in a behaviour

ASSUME SizeAssumption ==
  /\ Size \in [Values -> Nat \ {0}]
  /\ Values \cap {"absent", "empty", "mixed"} = {}
  /\ AtFirst \subseteq Values \cup {"absent"}
ASSUME LongestAssumption == \E v \in Values : \A w \in Values : Size[w] <= Size[v]
ASSUME BoundsAssumption ==
  /\ {MaxHost, MaxTime} \subseteq Nat \ {0}
  /\ {MaxCommands, MaxSaves, MaxFaults} \subseteq Nat
  /\ MaxStarts \in 0 .. MaxCommands

VARIABLES
  file,     \* what is in each file
  saving,   \* the files that a program has truncated and is about to write
  host,     \* the hostname
  unnamed,  \* the file that keeps the hostname is gone: the next boot invents one
  job,      \* what each command is doing
  stirred,  \* history: commands during whose work somebody else wrote a file
  begun, saves, faults

bounds == <<begun, saves, faults>>
dirVars == <<file, saving, host, unnamed, job, stirred, bounds>>

\* `mixed` is the beginning of one value and the end of a longer one.
Content == Values \cup {"absent", "empty", "mixed"}

Length(c) ==
  IF c \in Values THEN Size[c]
  ELSE IF c = "mixed" THEN CHOOSE n \in {Size[v] : v \in Values} :
                             \A v \in Values : Size[v] <= n
  ELSE 0

NoJob == [cmd |-> "none"]
Working == {p \in Commands : job[p] # NoJob}

DirInit ==
  /\ file \in [Files -> AtFirst]
  /\ saving = {}
  /\ host \in 1 .. MaxHost /\ unnamed = FALSE
  /\ job = [p \in Commands |-> NoJob]
  /\ stirred = {}
  /\ begun = 0 /\ saves = 0 /\ faults = 0

-----------------------------------------------------------------------------

\* Command p starts with job j, goes on with it, or ends.
Start(p, j) ==
  /\ job[p] = NoJob
  /\ begun < MaxStarts /\ begun' = begun + 1
  /\ job' = [job EXCEPT ![p] = j]
  /\ stirred' = stirred \ {p}
  /\ UNCHANGED <<file, saving, host, unnamed, saves, faults>>

Goes(p, j) == job' = [job EXCEPT ![p] = j]

Fault == faults < MaxFaults /\ faults' = faults + 1

\* Somebody who is not in `by` changes file f.
Put(f, c, by) ==
  /\ file' = [file EXCEPT ![f] = c]
  /\ stirred' = stirred \cup (Working \ by)

\* A program saves a value: it truncates the file, then writes.
BeginSave(f) ==
  /\ f \notin saving
  /\ saves < MaxSaves /\ saves' = saves + 1
  /\ saving' = saving \cup {f}
  /\ Put(f, "empty", {})
  /\ UNCHANGED <<host, unnamed, job, begun, faults>>

EndSave(f) ==
  /\ f \in saving
  /\ \E v \in Values : Put(f, v, {})
  /\ saving' = saving \ {f}
  /\ UNCHANGED <<host, unnamed, job, bounds>>

\* Mutant: nobody draws a name when the file with it is gone.
Reboot_Unnamed ==
  /\ job' = [p \in Commands |-> NoJob]
  /\ host' = IF unnamed THEN 0 ELSE host
  /\ UNCHANGED <<file, saving, unnamed, stirred, bounds>>

\* A reboot ends every process.  setup_hostname (overlay/libexec/macula/boot)
\* draws a random name when there is no file with one.
Reboot ==
  /\ saving' = {}
  /\ job' = [p \in Commands |-> NoJob]
  /\ stirred' = {}
  /\ IF unnamed THEN host' \in 1 .. MaxHost ELSE host' = host
  /\ unnamed' = FALSE
  /\ UNCHANGED <<file, bounds>>

=============================================================================
