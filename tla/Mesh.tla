-------------------------------- MODULE Mesh --------------------------------
(***************************************************************************)
(* `maculaos mesh configure | wizard | apply` (pkg/cli/mesh/mesh.go).      *)
(*                                                                         *)
(* Any number of operators run these at a time, without a lock.            *)
(* os.WriteFile truncates mesh.yaml before it writes, and an empty file is *)
(* a valid configuration without roles.  Apply reads the file once, then   *)
(* runs rc-update, iptables and rc-service one after the other and goes on *)
(* whatever they return.  Realm, peers and TLS mode only travel through    *)
(* the file and are left out, as are the status command and the texts.     *)
(***************************************************************************)
EXTENDS OpenRC

CONSTANTS
  Operators    \* `maculaos mesh` processes that can be alive at a time

VARIABLES
  pc,      \* the call each is about to make
  want,    \* the roles it was told, or read
  todo,    \* the services it has still to go through
  wizard   \* it is the wizard: it offers to apply what it wrote

meshVars == <<pc, want, todo, wizard>>

\* The order in which applyAction goes through services.
First(S) ==
  IF Peer \in S THEN Peer
  ELSE IF "macula-bootstrap" \in S THEN "macula-bootstrap" ELSE "macula-gateway"

MeshTypeOK ==
  /\ pc \in [Operators -> {"idle", "truncate", "write", "ask", "enlist",
                           "restart"}]
  /\ want \in [Operators -> SUBSET Roles]
  /\ todo \in [Operators -> SUBSET Services]
  /\ wizard \in [Operators -> BOOLEAN]
  /\ clean \subseteq Operators

MeshInit ==
  /\ pc = [o \in Operators |-> "idle"]
  /\ want = [o \in Operators |-> {}]
  /\ todo = [o \in Operators |-> {}]
  /\ wizard = [o \in Operators |-> FALSE]

Goto(o, l) == pc' = [pc EXCEPT ![o] = l]

\* The command ends, and what it knew with it.
Ends(o) ==
  /\ Goto(o, "idle")
  /\ want' = [want EXCEPT ![o] = {}]
  /\ todo' = [todo EXCEPT ![o] = {}]
  /\ wizard' = [wizard EXCEPT ![o] = FALSE]

Applying(o) == pc[o] \in {"enlist", "restart"}

-----------------------------------------------------------------------------
(* Writing mesh.yaml *)

\* configureAction and wizardAction, up to the save: flags or answers.
Configure(o) ==
  /\ pc[o] = "idle"
  /\ \E roles \in SUBSET Roles, ask \in BOOLEAN :
       /\ want' = [want EXCEPT ![o] = roles]
       /\ wizard' = [wizard EXCEPT ![o] = ask]
  /\ Goto(o, "truncate")
  /\ Begin
  /\ UNCHANGED <<mesh, there, enabled, running, rules, history, todo>>

\* os.WriteFile opens with O_TRUNC ...
Truncate(o) ==
  /\ pc[o] = "truncate"
  /\ mesh' = {} /\ there' = TRUE
  /\ Disturb
  /\ Goto(o, "write")
  /\ UNCHANGED <<enabled, running, rules, faults, begun, want, todo, wizard>>

\* ... and writes.  Only the wizard goes on.
Write(o) ==
  /\ pc[o] = "write"
  /\ mesh' = want[o]
  /\ Disturb
  /\ IF wizard[o] THEN Goto(o, "ask") /\ UNCHANGED <<want, todo, wizard>> ELSE Ends(o)
  /\ UNCHANGED <<there, enabled, running, rules, faults, begun>>

\* `failed to write config`: the disk is full, the file stays empty.
WriteFails(o) ==
  /\ pc[o] = "write"
  /\ Trouble
  /\ Ends(o)
  /\ UNCHANGED <<mesh, there, enabled, running, rules, begun>>

\* `Apply configuration now?` - no.
Decline(o) ==
  /\ pc[o] = "ask"
  /\ Ends(o)
  /\ UNCHANGED rcVars

-----------------------------------------------------------------------------
(* applyAction *)

\* The configuration is read once; without a file it is an error.
Read(o) ==
  /\ \/ pc[o] = "idle" /\ Begin
     \/ pc[o] = "ask" /\ UNCHANGED begun
  /\ there
  /\ want' = [want EXCEPT ![o] = mesh]
  /\ todo' = [todo EXCEPT ![o] = Services]
  /\ clean' = IF \E q \in Operators : Applying(q) THEN {} ELSE {o}
  /\ wizard' = [wizard EXCEPT ![o] = FALSE]
  /\ Goto(o, "enlist")
  /\ UNCHANGED <<mesh, there, enabled, running, rules, settled, faults>>

\* enableService or disableService of the next service; neither stops nor
\* starts it.
SetRunlevel(o) ==
  /\ pc[o] = "enlist"
  /\ todo[o] # {}
  /\ LET s == First(todo[o]) IN
       \/ Enlist(s, s \in {Peer} \cup want[o])
       \/ /\ Trouble
          /\ UNCHANGED <<mesh, there, enabled, running, rules, begun>>
  /\ todo' = [todo EXCEPT ![o] = @ \ {First(@)}]
  /\ UNCHANGED <<pc, want, wizard>>

\* A mutation: only the roles are restarted, as nothing changed for the peer.
ConfigureFirewall_RolesOnly(o) ==
  /\ pc[o] = "enlist"
  /\ todo[o] = {}
  /\ rules' = rules \cup want[o]
  /\ todo' = [todo EXCEPT ![o] = want[o]]
  /\ Goto(o, "restart")
  /\ UNCHANGED <<mesh, there, enabled, running, history, begun, want, wizard>>

\* configureFirewall appends the rules of the roles, and removes none.
ConfigureFirewall(o) ==
  /\ pc[o] = "enlist"
  /\ todo[o] = {}
  /\ \/ rules' = rules \cup want[o] /\ UNCHANGED history
     \/ Trouble /\ \E some \in SUBSET want[o] : rules' = rules \cup some
  /\ todo' = [todo EXCEPT ![o] = {Peer} \cup want[o]]
  /\ Goto(o, "restart")
  /\ UNCHANGED <<mesh, there, enabled, running, begun, want, wizard>>

\* restartService of the next service.
RestartNext(o) ==
  /\ pc[o] = "restart"
  /\ todo[o] # {}
  /\ Restart(First(todo[o]))
  /\ todo' = [todo EXCEPT ![o] = @ \ {First(@)}]
  /\ UNCHANGED <<pc, want, wizard>>

\* `Mesh configuration applied!`
Applied(o) ==
  /\ pc[o] = "restart"
  /\ todo[o] = {}
  /\ settled' = (settled \/ o \in clean)
  /\ clean' = clean \ {o}
  /\ Ends(o)
  /\ UNCHANGED <<mesh, there, enabled, running, rules, faults, begun>>

\* Every process ends with the power.
MeshHalts ==
  /\ pc' = [o \in Operators |-> "idle"]
  /\ want' = [o \in Operators |-> {}]
  /\ todo' = [o \in Operators |-> {}]
  /\ wizard' = [o \in Operators |-> FALSE]

MeshNext ==
  \E o \in Operators :
    \/ Configure(o) \/ Truncate(o) \/ Write(o) \/ WriteFails(o) \/ Decline(o)
    \/ Read(o) \/ SetRunlevel(o) \/ ConfigureFirewall(o) \/ RestartNext(o)
    \/ Applied(o)

=============================================================================
