------------------------------ MODULE Services ------------------------------
(***************************************************************************)
(* A node's services with everybody who drives them: operators of          *)
(* `maculaos mesh`, editors of `maculaos health`, the health watch, which  *)
(* restarts services of its own accord, and reboots.                       *)
(***************************************************************************)
EXTENDS Mesh, Health

CONSTANTS
  MaxHalts     \* bound: reboots in a behaviour

ASSUME HaltsAssumption == MaxHalts \in Nat

VARIABLE halts

vars == <<rcVars, meshVars, healthVars, halts>>

TypeOK ==
  /\ RcTypeOK /\ MeshTypeOK /\ HealthTypeOK
  /\ clean \subseteq Operators
  /\ halts \in 0 .. MaxHalts

Init == RcInit /\ MeshInit /\ HealthInit /\ halts = 0

Reboot ==
  /\ halts < MaxHalts /\ halts' = halts + 1
  /\ PowerCycle /\ MeshHalts /\ HealthHalts

Next ==
  \/ MeshNext /\ UNCHANGED <<healthVars, halts>>
  \/ Edit /\ UNCHANGED <<meshVars, halts>>
  \/ StartWatch /\ UNCHANGED <<meshVars, halts>>
  \/ Watch /\ UNCHANGED <<meshVars, halts>>
  \/ StopWatch /\ UNCHANGED <<meshVars, halts>>
  \/ Reboot

\* The watch is an endless loop of a process that the scheduler runs; nobody
\* has to type a command, or start the watch.
Spec == Init /\ [][Next]_vars /\ WF_vars(Watch /\ UNCHANGED <<meshVars, halts>>)

-----------------------------------------------------------------------------
(* Properties *)

\* Once an apply has ended that nothing disturbed - no other apply beside it,
\* no write of mesh.yaml since it read it, no failing call - what runs, what
\* is enabled and what the firewall lets in is what mesh.yaml asks for; it
\* stays so through later applies and through every restart by the watch,
\* until the next write or reboot.  A role that was dropped is stopped although
\* apply never stops one: restarting macula-mesh takes it down and its
\* start_pre does not let it up again (mesh.go:272-326).
RolesSettled ==
  settled => /\ enabled = {Peer} \cup mesh
             /\ running = {Peer} \cup mesh
             /\ mesh \subseteq rules

\* As long as no edit of health.yaml overlapped another or was cut short, the
\* file is the sum of the edits that ended well, and nobody who reads it
\* between two edits sees less (health.go:253-350).  An add that cannot read the
\* list reports success and begins a new one (health.go:294-297): the sum is that
\* of the edits from the last such one on.
EditsKept ==
  ~tangled /\ (\A e \in Editors : editor[e].at # "write") => checks = asked

\* A watch asks for a service to be restarted at most maxRestarts times in
\* its life, however often it fails, recovers and fails again, and whether
\* rc-service succeeds or not (health.go:472-495).
RestartsBounded == \A n \in Names : tries[n] <= MaxRestarts

\* A check with action restart that fails for ever is not forgotten: the watch
\* asks for the service again and again until the budget is spent, unless it is
\* stopped over and over (health.go:229-250).
Persists ==
  \A n \in Restarted :
    []<>(n \in failed) => <>(tries[n] = MaxRestarts) \/ []<>(watch = "off")

=============================================================================
