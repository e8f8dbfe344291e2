------------------------------- MODULE OpenRC -------------------------------
(***************************************************************************)
(* The OpenRC services of the mesh, as `maculaos mesh` and `maculaos       *)
(* health` drive them with rc-update, rc-service and iptables, and as      *)
(* overlay/etc/init.d/macula-{mesh,bootstrap,gateway} answer.              *)
(*                                                                         *)
(* OpenRC itself is external: restarting a service takes down the started  *)
(* services that need it and starts them again; starting one starts what   *)
(* it needs.  /etc is a tmpfs that every boot fills from the image, and    *)
(* with it go the runlevels; the rules of the firewall go with the kernel. *)
(***************************************************************************)
EXTENDS Naturals, FiniteSets

CONSTANTS
  MaxFaults,   \* bound: failing calls in a behaviour
  MaxCommands  \* bound: commands that write or apply a configuration

ASSUME BoundsAssumption == MaxFaults \in Nat /\ MaxCommands \in Nat

VARIABLES
  \* on the disk
  mesh,     \* the roles /var/lib/maculaos/mesh.yaml asks for
  there,    \* mesh.yaml exists
  \* the running system
  enabled,  \* services in the runlevel `default`
  running,  \* started services
  rules,    \* roles whose ports the firewall lets in
  \* history
  settled,  \* since the last boot an apply ended that nothing disturbed
  clean,    \* the applies at work that nothing disturbed so far
  \* the bounds
  faults, begun

history == <<settled, clean, faults>>
rcVars == <<mesh, there, enabled, running, rules, history, begun>>

Peer == "macula-mesh"
Roles == {"macula-bootstrap", "macula-gateway"}
Services == {Peer} \cup Roles

RcTypeOK ==
  /\ mesh \subseteq Roles
  /\ there \in BOOLEAN
  /\ enabled \subseteq Services
  /\ running \subseteq Services
  /\ rules \subseteq Roles
  /\ settled \in BOOLEAN
  /\ faults \in 0 .. MaxFaults /\ begun \in 0 .. MaxCommands

RcInit ==
  /\ mesh = {} /\ there = FALSE
  /\ enabled = {} /\ running = {} /\ rules = {}
  /\ settled = FALSE /\ clean = {}
  /\ faults = 0 /\ begun = 0

\* What an apply finds or leaves is no longer what mesh.yaml asks for.
Disturb == settled' = FALSE /\ clean' = {}

\* One more command is typed.
Begin == begun < MaxCommands /\ begun' = begun + 1

\* A call fails.
Trouble ==
  /\ faults < MaxFaults
  /\ faults' = faults + 1
  /\ Disturb

-----------------------------------------------------------------------------

\* Who goes down with s: both roles need macula-mesh.
Stopped(s) == {s} \cup (IF s = Peer THEN running \cap Roles ELSE {})

\* Who is started for s: what was stopped, and what it needs.
Started(s) == Stopped(s) \cup ({Peer} \ running)

\* start_pre of a role refuses to start what mesh.yaml does not ask for.
\* It reads the file as it is now, whoever restarts the service.
Refused == Roles \ mesh

\* Who of them comes up, when those in `bad` do not.
Comes(s, bad) == Started(s) \ (Refused \cup bad)

\* `rc-service s restart`.  A role does not start when what it needs
\* did not.  A role opens its ports itself.  macula-mesh
\* writes a mesh.yaml without roles when there is none.
Restart(s) ==
  /\ \E bad \in SUBSET Started(s) :
       /\ Peer \in bad => bad = Started(s)
       /\ IF bad = {} THEN UNCHANGED history ELSE Trouble
       /\ running' = (running \ Stopped(s)) \cup Comes(s, bad)
       /\ rules' = rules \cup (Roles \cap Comes(s, bad))
  /\ there' = (there \/ Peer \in Started(s))
  /\ UNCHANGED <<mesh, enabled, begun>>

\* `rc-update add s default` and `rc-update del s default`.
Enlist(s, wanted) ==
  /\ enabled' = IF wanted THEN enabled \cup {s} ELSE enabled \ {s}
  /\ UNCHANGED <<mesh, there, running, rules, history, begun>>

\* Power loss or reboot: the runlevels of the image name none of the three,
\* so nothing of the mesh is started.
PowerCycle ==
  /\ enabled' = {} /\ running' = {} /\ rules' = {}
  /\ settled' = FALSE /\ clean' = {}
  /\ UNCHANGED <<mesh, there, faults, begun>>

=============================================================================
