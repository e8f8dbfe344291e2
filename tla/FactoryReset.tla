---------------------------- MODULE FactoryReset ----------------------------
(***************************************************************************)
(* `maculaos factory-reset` (pkg/cli/reset/reset.go).  k3s and what the    *)
(* command removes outside of /var/lib/maculaos are left out: nothing else *)
(* here reads them.                                                        *)
(***************************************************************************)
EXTENDS StateDir

CONSTANTS
  Erased       \* the files in pathsToDelete

ASSUME ResetAssumption == Erased \subseteq Files

VARIABLES
  marker,   \* /var/lib/maculaos/first-boot
  fresh     \* history: a reset ended well and nobody wrote a file since

resetVars == <<marker, fresh>>

ResetJob == [cmd : {"reset"}, rest : SUBSET Erased, clean : BOOLEAN]

ResetInit == marker = FALSE /\ fresh = FALSE

\* Confirmed, and k3s stopped.
Reset(p) ==
  /\ Start(p, [cmd |-> "reset", rest |-> Erased, clean |-> TRUE])
  /\ UNCHANGED resetVars

\* The next path is removed if it is there; a removal that fails is a warning.
Erase(p) ==
  /\ job[p].cmd = "reset"
  /\ \E f \in job[p].rest :
       \/ /\ IF file[f] = "absent" THEN UNCHANGED <<file, stirred>>
             ELSE Put(f, "absent", {p})
          /\ Goes(p, [job[p] EXCEPT !.rest = @ \ {f}])
          /\ UNCHANGED faults
       \/ /\ file[f] # "absent" /\ Fault
          /\ Goes(p, [job[p] EXCEPT !.rest = @ \ {f}, !.clean = FALSE])
          /\ UNCHANGED <<file, stirred>>
  /\ UNCHANGED <<saving, host, unnamed, begun, saves, marker, fresh>>

\* Mutant: the reset ends with paths still to remove.
Mark_Early(p) ==
  /\ job[p].cmd = "reset"
  /\ unnamed' = TRUE /\ marker' = TRUE /\ fresh' = (p \notin stirred)
  /\ Goes(p, NoJob) /\ stirred' = stirred \ {p}
  /\ UNCHANGED <<file, saving, host, bounds>>

\* The hostname goes, and the marker of the wizard comes; nobody looks whether
\* the calls fail.
Mark(p) ==
  /\ job[p].cmd = "reset" /\ job[p].rest = {}
  /\ unnamed' \in {unnamed, TRUE} /\ marker' \in {marker, TRUE}
  /\ IF unnamed' /\ marker' THEN UNCHANGED faults ELSE Fault
  /\ fresh' = (job[p].clean /\ p \notin stirred /\ saving = {})
  /\ Goes(p, NoJob)
  /\ UNCHANGED <<file, saving, host, stirred, begun, saves>>

=============================================================================
