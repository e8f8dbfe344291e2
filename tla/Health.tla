------------------------------- MODULE Health -------------------------------
(***************************************************************************)
(* `maculaos health add | remove | watch` (pkg/cli/health/health.go).      *)
(*                                                                         *)
(* Editors read health.yaml, change the list and write it back, without a  *)
(* lock; os.WriteFile truncates first, and an empty file is a valid list   *)
(* without checks.  The watch reads the list once, when it starts, and     *)
(* then for ever runs all checks, acts on the failures and sleeps.  A      *)
(* check is its name: it looks for a process, asks a URL or reads a disk,  *)
(* and what it finds is the world's choice.                                *)
(***************************************************************************)
EXTENDS OpenRC

CONSTANTS
  Names,       \* names of checks
  Restarted,   \* those whose action is restart, not alert or cleanup
  Default,     \* defaultHealthConfig, used while there is no file
  MaxRestarts, \* maxRestarts
  Editors      \* processes that add or remove checks

ASSUME ChecksAssumption ==
  /\ Restarted \subseteq Names
  /\ Default \subseteq Names
  /\ MaxRestarts \in Nat

VARIABLES
  \* on the disk
  checks,    \* the list in health.yaml
  exists,    \* health.yaml exists
  \* the processes
  editor,    \* the call each is about to make, and the list as it changed it
  watch,     \* off, or what it does
  config,    \* the list it read
  failed,    \* those that failed in this round and are still to be restarted
  counts,    \* restartCounts
  \* history
  asked,     \* what the edits that ended well amount to, since the list was last
             \* taken for empty because it could not be read
  tangled,   \* an edit overlapped another, or did not end
  tries      \* restarts this watch has asked for

editVars == <<checks, exists, editor, asked, tangled>>
watchVars == <<watch, config, failed, counts, tries>>
healthVars == <<editVars, watchVars>>

NoEdit == [at |-> "idle", name |-> "none", add |-> FALSE, list |-> {}, blind |-> FALSE]
Zero == [n \in Names |-> 0]

HealthTypeOK ==
  /\ checks \subseteq Names /\ exists \in BOOLEAN
  /\ editor \in [Editors -> {NoEdit} \cup [at : {"truncate", "write"}, name : Names,
                                          add : BOOLEAN, list : SUBSET Names, blind : BOOLEAN]]
  /\ watch \in {"off", "check", "handle"}
  /\ config \subseteq Names /\ failed \subseteq config
  /\ counts \in [Names -> Nat] /\ tries \in [Names -> Nat]
  /\ asked \subseteq Names /\ tangled \in BOOLEAN

HealthInit ==
  /\ checks = {} /\ exists = FALSE
  /\ editor = [e \in Editors |-> NoEdit]
  /\ watch = "off" /\ config = {} /\ failed = {}
  /\ counts = Zero /\ tries = Zero
  /\ asked = {} /\ tangled = FALSE

-----------------------------------------------------------------------------
(* addAction and removeAction *)

\* A mutation: add always starts from an empty list.
ReadChecks_Fresh(e) ==
  /\ editor[e] = NoEdit
  /\ \E n \in Names :
       /\ n \notin checks
       /\ editor' = [editor EXCEPT ![e] =
            [at |-> "truncate", name |-> n, add |-> TRUE, list |-> {n}, blind |-> FALSE]]
  /\ tangled' = (tangled \/ \E f \in Editors : editor[f] # NoEdit)
  /\ Begin
  /\ UNCHANGED <<mesh, there, enabled, running, rules, history,
                 checks, exists, watchVars, asked>>

\* A call fails, which is nothing to the mesh.
Fault == faults < MaxFaults /\ faults' = faults + 1 /\ UNCHANGED <<settled, clean>>

\* Reading and checking: `already exists`, `not found`, and for remove a file
\* that is not there or cannot be read, end the command.  Add takes whatever it
\* cannot read or parse for an empty list.
ReadChecks(e) ==
  /\ editor[e] = NoEdit
  /\ \E n \in Names :
       \/ \E add \in BOOLEAN :
            /\ IF add THEN n \notin checks ELSE exists /\ n \in checks
            /\ editor' = [editor EXCEPT ![e] =
                 [at |-> "truncate", name |-> n, add |-> add, blind |-> FALSE,
                  list |-> IF add THEN checks \cup {n} ELSE checks \ {n}]]
            /\ UNCHANGED history
       \/ /\ Fault
          /\ editor' = [editor EXCEPT ![e] =
               [at |-> "truncate", name |-> n, add |-> TRUE, blind |-> TRUE, list |-> {n}]]
  /\ tangled' = (tangled \/ \E f \in Editors : editor[f] # NoEdit)
  /\ Begin
  /\ UNCHANGED <<mesh, there, enabled, running, rules, checks, exists, watchVars, asked>>

TruncateChecks(e) ==
  /\ editor[e].at = "truncate"
  /\ checks' = {} /\ exists' = TRUE
  /\ editor' = [editor EXCEPT ![e].at = "write"]
  /\ UNCHANGED <<rcVars, watchVars, asked, tangled>>

\* What another wrote since the file was emptied is written over; if that was
\* longer, the rest of it stays behind.
WriteChecks(e) ==
  /\ editor[e].at = "write"
  /\ checks' \in {editor[e].list, editor[e].list \cup checks}
  /\ asked' = IF editor[e].blind THEN {editor[e].name}
              ELSE IF editor[e].add THEN asked \cup {editor[e].name}
              ELSE asked \ {editor[e].name}
  /\ editor' = [editor EXCEPT ![e] = NoEdit]
  /\ UNCHANGED <<rcVars, exists, watchVars, tangled>>

\* `failed to save config`: the disk is full, the file stays empty.
WriteChecksFails(e) ==
  /\ editor[e].at = "write"
  /\ Fault
  /\ tangled' = TRUE
  /\ editor' = [editor EXCEPT ![e] = NoEdit]
  /\ UNCHANGED <<mesh, there, enabled, running, rules, begun, checks, exists,
                 watchVars, asked>>

-----------------------------------------------------------------------------
(* watchAction *)

\* The process is gone, and its counts with it.
Off ==
  /\ watch' = "off" /\ config' = {} /\ failed' = {}
  /\ counts' = Zero /\ tries' = Zero

\* start-stop-daemon, or an operator, starts the watch.  A list that it cannot
\* read is to it like one that is not there.
StartWatch ==
  /\ watch = "off"
  /\ \/ config' = (IF exists THEN checks ELSE Default) /\ UNCHANGED history
     \/ config' = Default /\ exists /\ Fault
  /\ failed' = {}
  /\ counts' = Zero /\ tries' = Zero
  /\ watch' = "check"
  /\ UNCHANGED <<mesh, there, enabled, running, rules, begun, editVars>>

\* runAllChecks, at the end of the sleep.  Nothing is done about a failure
\* before the last check has run: by then it may have passed.  Alerts and
\* cleanups leave messages and delete files that nobody here reads, so that
\* of the failures those are kept whose action is restart.
RunAllChecks ==
  /\ watch = "check"
  /\ failed' \in SUBSET (config \cap Restarted)
  /\ watch' = "handle"
  /\ UNCHANGED <<rcVars, editVars, config, counts, tries>>

\* A mutation: only a restart that works is counted.
HandleFailure_CountsWorking(n) ==
  /\ watch = "handle"
  /\ n \in failed
  /\ failed' = failed \ {n}
  /\ IF counts[n] >= MaxRestarts
     THEN UNCHANGED <<rcVars, counts, tries>>
     ELSE /\ IF n \in Services THEN Restart(n) ELSE UNCHANGED rcVars
          /\ counts' = [counts EXCEPT ![n] = IF faults' = faults THEN @ + 1 ELSE @]
          /\ tries' = [tries EXCEPT ![n] = @ + 1]
  /\ UNCHANGED <<editVars, watch, config>>

\* handleFailure: the name of the check is the name of the service.  The
\* attempt counts whether rc-service fails or not, and the count never falls.
HandleFailure(n) ==
  /\ watch = "handle"
  /\ n \in failed
  /\ failed' = failed \ {n}
  /\ IF counts[n] >= MaxRestarts
     THEN UNCHANGED <<rcVars, counts, tries>>
     ELSE /\ IF n \in Services THEN Restart(n) ELSE UNCHANGED rcVars
          /\ counts' = [counts EXCEPT ![n] = @ + 1]
          /\ tries' = [tries EXCEPT ![n] = @ + 1]
  /\ UNCHANGED <<editVars, watch, config>>

\* A mutation: the watch goes to sleep over failures.
Sleep_Early ==
  /\ watch = "handle"
  /\ watch' = "check"
  /\ UNCHANGED <<rcVars, editVars, config, failed, counts, tries>>

Sleep ==
  /\ watch = "handle"
  /\ failed = {}
  /\ watch' = "check"
  /\ UNCHANGED <<rcVars, editVars, config, failed, counts, tries>>

\* `rc-service health-daemon stop`, Ctrl+C, or SIGHUP of its `reload`.
StopWatch ==
  /\ watch # "off"
  /\ Off
  /\ UNCHANGED <<rcVars, editVars>>

Edit ==
  \E e \in Editors :
    ReadChecks(e) \/ TruncateChecks(e) \/ WriteChecks(e) \/ WriteChecksFails(e)

Watch == RunAllChecks \/ (\E n \in Names : HandleFailure(n)) \/ Sleep

\* Every process ends with the power.  An edit that did not end left the old
\* list or an empty one.
HealthHalts ==
  /\ editor' = [e \in Editors |-> NoEdit]
  /\ tangled' = (tangled \/ \E e \in Editors : editor[e] # NoEdit)
  /\ Off
  /\ UNCHANGED <<checks, exists, asked>>

=============================================================================
