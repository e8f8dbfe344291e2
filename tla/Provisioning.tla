---------------------------- MODULE Provisioning ----------------------------
(***************************************************************************)
(* The first-boot setup of a node, which ends in /var/lib/maculaos:        *)
(*   cmd/macula-firstboot/main.go              pairing over HTTP           *)
(*   rust/crates/macula-wizard                 the wizard of a login       *)
(*                                                                         *)
(* The handlers of HTTP requests and the wizards run at the same time and  *)
(* take no lock.  A file is opened, which truncates it, and then written.  *)
(* A reboot, of the server's or of somebody else, ends them all; what they *)
(* wrote until then stays.                                                 *)
(***************************************************************************)
EXTENDS Naturals

CONSTANTS
  Handlers,    \* HTTP requests that can be in progress at a time
  Wizards,     \* login sessions, with the rights to write the files
  Codes,       \* the portal's pairing codes, and the credentials each buys
  Ids,         \* identities a wizard can generate
  MaxHalts,    \* bound: reboots in a behaviour that the server did not ask for
  MaxFaults    \* bound: failing calls in a behaviour

\* What a file can be when it is not whole: missing, truncated and not yet
\* written, or cut short or written over by somebody else.
Broken == {"none", "empty", "torn"}

ASSUME NamesAssumption == Broken \cap (Codes \cup Ids) = {}
ASSUME BoundsAssumption == MaxHalts \in Nat /\ MaxFaults \in Nat

VARIABLES
  \* on the disk
  configured,  \* .configured exists
  portal,      \* credentials/portal.json
  config,      \* config.yaml: the node_id in it
  identity,    \* identity.json
  \* the running system
  up,          \* it runs
  server,      \* macula-firstboot listens
  handler,     \* its requests
  wizard,      \* the wizards
  reboots,     \* a handler's goroutine is about to reboot
  \* the portal
  spent,       \* codes that were exchanged
  \* history
  told,        \* the code the last `Pairing successful!` was about
  rivals,      \* a writer began when another was at work or done
  \* the bounds
  halts, faults

files   == <<portal, config, identity>>
disk    == <<configured, files>>
actors  == <<handler, wizard>>
system  == <<up, server, reboots>>
history == <<told, rivals>>
bounds  == <<halts, faults>>
vars    == <<disk, system, actors, spent, history, bounds>>

Idle == [pc |-> "idle", code |-> "none"]
Out == [pc |-> "out", id |-> "none", quit |-> FALSE]

Request == [pc : {"idle", "exchange", "store", "write", "mark", "answer"},
            code : Codes \cup {"none"}]
Session == [pc : {"out", "steps", "summary", "config", "configWrite", "identity",
                  "identityWrite", "mark"},
            id : Ids \cup {"none"}, quit : BOOLEAN]

TypeOK ==
  /\ configured \in BOOLEAN
  /\ portal \in Broken \cup Codes
  /\ config \in Broken \cup Ids
  /\ identity \in Broken \cup Ids
  /\ up \in BOOLEAN /\ server \in BOOLEAN /\ reboots \in BOOLEAN
  /\ handler \in [Handlers -> Request]
  /\ wizard \in [Wizards -> Session]
  /\ spent \subseteq Codes
  /\ told \in Codes \cup {"none"}
  /\ rivals \in BOOLEAN
  /\ halts \in 0..MaxHalts
  /\ faults \in 0..MaxFaults

Init ==
  /\ configured = FALSE
  /\ portal = "none" /\ config = "none" /\ identity = "none"
  /\ up = FALSE /\ server = FALSE /\ reboots = FALSE
  /\ handler = [h \in Handlers |-> Idle]
  /\ wizard = [w \in Wizards |-> Out]
  /\ spent = {}
  /\ told = "none" /\ rivals = FALSE
  /\ halts = 0 /\ faults = 0

\* A call fails for a reason outside the model: no space, an I/O error, no network.
Fault == faults < MaxFaults /\ faults' = faults + 1 /\ UNCHANGED halts

\* The call does what it should, or fails.
Works == UNCHANGED bounds

-----------------------------------------------------------------------------
(* The machine.                                                            *)

GoDown ==
  /\ up' = FALSE /\ server' = FALSE /\ reboots' = FALSE
  /\ handler' = [h \in Handlers |-> Idle]
  /\ wizard' = [w \in Wizards |-> Out]

\* Somebody reboots the node, whatever is going on.
Halt ==
  /\ up
  /\ halts < MaxHalts
  /\ halts' = halts + 1
  /\ GoDown
  /\ UNCHANGED <<disk, spent, history, faults>>

Reboot ==
  /\ reboots
  /\ GoDown
  /\ UNCHANGED <<disk, spent, history, bounds>>

PowerOn ==
  /\ ~up
  /\ up' = TRUE
  /\ UNCHANGED <<disk, server, reboots, actors, spent, history, bounds>>

-----------------------------------------------------------------------------
(* Writers of the configuration.                                           *)

\* A request past its os.WriteFile's truncation, a wizard past its first.
AtWork ==
  \/ \E h \in Handlers : handler[h].pc \in {"write", "mark", "answer"}
  \/ \E w \in Wizards : wizard[w].pc \in {"configWrite", "identity", "identityWrite", "mark"}

\* What a file can be after `new` was written to it, through a descriptor whose
\* opening truncated it: where somebody else wrote since, the end of that may stay.
Written(old, new) == IF old = "empty" THEN {new} ELSE {new, "torn"}

\* What becomes of `rivals` when a writer begins.
Begins == rivals' = (rivals \/ configured \/ AtWork)

Handle(h, pc) == handler' = [handler EXCEPT ![h].pc = pc]
Wizard(w, pc) == wizard' = [wizard EXCEPT ![w].pc = pc]

\* main, without --force.
Serve ==
  /\ up /\ ~server
  /\ ~configured
  /\ server' = TRUE
  /\ UNCHANGED <<disk, up, reboots, actors, spent, history, bounds>>

\* handlePair does not look at .configured.
Pair(h) ==
  /\ server /\ handler[h] = Idle
  /\ \E c \in Codes : handler' = [handler EXCEPT ![h] = [pc |-> "exchange", code |-> c]]
  /\ UNCHANGED <<disk, system, wizard, spent, history, bounds>>

\* exchangeCodesWithPortal.  The portal accepts a code once; that it did may not
\* reach the node.
Exchange(h) ==
  /\ handler[h].pc = "exchange"
  /\ LET c == handler[h].code IN
     \/ /\ Works
        /\ c \notin spent
        /\ spent' = spent \cup {c}
        /\ Handle(h, "store")
     \/ /\ Works
        /\ c \in spent
        /\ handler' = [handler EXCEPT ![h] = Idle]
        /\ UNCHANGED spent
     \/ /\ Fault
        /\ spent' \in {spent, spent \cup {c}}
        /\ handler' = [handler EXCEPT ![h] = Idle]
  /\ UNCHANGED <<disk, system, wizard, history>>

\* storeCredentials: os.WriteFile truncates what is there.
Store(h) ==
  /\ handler[h].pc = "store"
  /\ \/ /\ Works
        /\ portal' = "empty"
        /\ Begins
        /\ Handle(h, "write")
     \/ /\ Fault
        /\ handler' = [handler EXCEPT ![h] = Idle]
        /\ UNCHANGED <<portal, rivals>>
  /\ UNCHANGED <<configured, config, identity, system, wizard, spent,
                 told>>

Write(h) ==
  /\ handler[h].pc = "write"
  /\ \/ /\ Works
        /\ portal' \in Written(portal, handler[h].code)
        /\ Handle(h, "mark")
     \/ /\ Fault
        /\ portal' \in {portal, "torn"}
        /\ handler' = [handler EXCEPT ![h] = Idle]
  /\ UNCHANGED <<configured, config, identity, system, wizard, spent, history>>

\* markConfigured, whose error is only logged: the file may be there all the same.
Mark(h) ==
  /\ handler[h].pc = "mark"
  /\ \/ Works /\ configured' = TRUE
     \/ Fault /\ configured' \in {configured, TRUE}
  /\ Handle(h, "answer")
  /\ UNCHANGED <<files, system, wizard, spent, history>>

\* Mutant: success is answered while the credentials are still being written.
Answer_Early(h) ==
  /\ handler[h].pc \in {"write", "answer"}
  /\ told' = handler[h].code
  /\ reboots' = TRUE
  /\ handler' = [handler EXCEPT ![h] = Idle]
  /\ UNCHANGED <<disk, up, server, wizard, spent, rivals, bounds>>

\* The answer, and the goroutine that reboots.
Answer(h) ==
  /\ handler[h].pc = "answer"
  /\ told' = handler[h].code
  /\ reboots' = TRUE
  /\ handler' = [handler EXCEPT ![h] = Idle]
  /\ UNCHANGED <<disk, up, server, wizard, spent, rivals, bounds>>

\* The identities that are somewhere, on the disk or in a wizard.
Known == {config, identity} \cup {wizard[w].id : w \in Wizards}

\* profile.d and the wizard's main look for .configured; App::new then
\* generates an identity.
Login(w) ==
  /\ up /\ wizard[w] = Out
  /\ ~configured
  /\ \E i \in Ids \ Known : wizard' = [wizard EXCEPT ![w] = [Out EXCEPT !.pc = "steps", !.id = i]]
  /\ UNCHANGED <<disk, system, handler, spent, history, bounds>>

\* handle_key: through the steps and back, or out.  On the summary, q and Enter
\* both set should_quit, and run() goes by the step alone.
Key(w) ==
  /\ \/ /\ wizard[w].pc = "steps"
        /\ Wizard(w, "summary") \/ wizard' = [wizard EXCEPT ![w] = Out]
     \/ /\ wizard[w].pc = "summary"
        /\ \/ Wizard(w, "steps")
           \/ \E q \in BOOLEAN :
                wizard' = [wizard EXCEPT ![w] = [@ EXCEPT !.pc = "config", !.quit = q]]
  /\ UNCHANGED <<disk, system, handler, spent, history, bounds>>

\* write_config: an error ends the wizard.
Fails(w) ==
  /\ wizard[w].pc \in {"config", "configWrite", "identity", "identityWrite", "mark"}
  /\ Fault
  /\ \/ UNCHANGED <<config, identity>>
     \/ /\ wizard[w].pc = "configWrite"
        /\ config' = "torn" /\ UNCHANGED identity
     \/ /\ wizard[w].pc = "identityWrite"
        /\ identity' = "torn" /\ UNCHANGED config
  /\ wizard' = [wizard EXCEPT ![w] = Out]
  /\ UNCHANGED <<configured, portal, system, handler, spent, history>>

WriteConfig(w) ==
  /\ \/ /\ wizard[w].pc = "config"
        /\ config' = "empty"
        /\ Begins
        /\ Wizard(w, "configWrite")
     \/ /\ wizard[w].pc = "configWrite"
        /\ config' \in Written(config, wizard[w].id)
        /\ Wizard(w, "identity")
        /\ UNCHANGED rivals
  /\ UNCHANGED <<configured, portal, identity, system, handler, spent,
                 told, bounds>>

\* Mutant: there is a place after the identity that nothing leaves.
WriteIdentity_Done(w) ==
  /\ \/ /\ wizard[w].pc = "identity"
        /\ identity' = "empty"
        /\ Wizard(w, "identityWrite")
     \/ /\ wizard[w].pc = "identityWrite"
        /\ identity' \in Written(identity, wizard[w].id)
        /\ Wizard(w, "done")
  /\ UNCHANGED <<configured, portal, config, system, handler, spent, history, bounds>>

WriteIdentity(w) ==
  /\ \/ /\ wizard[w].pc = "identity"
        /\ identity' = "empty"
        /\ Wizard(w, "identityWrite")
     \/ /\ wizard[w].pc = "identityWrite"
        /\ identity' \in Written(identity, wizard[w].id)
        /\ Wizard(w, "mark")
  /\ UNCHANGED <<configured, portal, config, system, handler, spent,
                 history, bounds>>

\* Mutant: the marker is written before the identity.
WriteMarker_Early(w) ==
  /\ wizard[w].pc \in {"identity", "mark"}
  /\ configured' = TRUE
  /\ wizard' = [wizard EXCEPT ![w] = IF wizard[w].pc = "mark" THEN Out
                                     ELSE [@ EXCEPT !.pc = "identity"]]
  /\ UNCHANGED <<files, system, handler, spent, history, bounds>>

WriteMarker(w) ==
  /\ wizard[w].pc = "mark"
  /\ configured' = TRUE
  /\ wizard' = [wizard EXCEPT ![w] = Out]
  /\ UNCHANGED <<files, system, handler, spent, history, bounds>>

Next ==
  \/ Halt \/ Reboot \/ PowerOn \/ Serve
  \/ \E h \in Handlers : Pair(h) \/ Exchange(h) \/ Store(h) \/ Write(h) \/ Mark(h) \/ Answer(h)
  \/ \E w \in Wizards :
       Login(w) \/ Key(w) \/ Fails(w) \/ WriteConfig(w) \/ WriteIdentity(w) \/ WriteMarker(w)

Spec == Init /\ [][Next]_vars

-----------------------------------------------------------------------------
(* Properties.                                                             *)

\* What .configured promises those who only look at it: whole credentials, or a
\* configuration with the identity it names.  It holds through reboots and errors,
\* as long as no writer begins beside another one or after one.
ConfiguredMeans ==
  (configured /\ ~rivals) => portal \in Codes \/ (config \in Ids /\ identity = config)

\* Who was told that a pairing succeeded finds its credentials on the node, also
\* after a reboot, an error, or the same code sent twice.
CredentialsKept ==
  (told # "none" /\ spent = {told}) => portal = told

\* The configuration is written `if we completed the wizard (not cancelled)`
\* (app.rs): who leaves with q, `q: Quit`, has nothing written.
CancelledWritesNothing ==
  \A w \in Wizards :
    wizard[w].pc \in {"configWrite", "identity", "identityWrite", "mark"} => ~wizard[w].quit

=============================================================================
