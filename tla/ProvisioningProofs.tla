------------------------- MODULE ProvisioningProofs -------------------------
(* The safety of the first-boot setup, for any number of requests, sessions, *)
(* codes and identities, and any number of reboots and errors.               *)
EXTENDS Provisioning, TLAPS

-----------------------------------------------------------------------------
(* The types.                                                              *)

LEMMA RestTypes == Idle \in Request /\ Out \in Session
<1>1. Idle \in Request
  BY DEF Idle, Request
<1>2. Out \in Session
  BY DEF Out, Session
<1> QED
  BY <1>1, <1>2

\* Whoever is past its start has a code, or an identity.
Named ==
  /\ \A h \in Handlers : handler[h].pc # "idle" => handler[h].code \in Codes
  /\ \A w \in Wizards : wizard[w].pc # "out" => wizard[w].id \in Ids

LEMMA TypeInit == Init => TypeOK /\ Named
<1> SUFFICES ASSUME Init PROVE TypeOK /\ Named
  OBVIOUS
<1>1. handler \in [Handlers -> Request] /\ wizard \in [Wizards -> Session]
  BY RestTypes DEF Init
<1>2. portal \in Broken /\ config \in Broken /\ identity \in Broken
  BY DEF Init, Broken
<1>3. halts \in 0..MaxHalts /\ faults \in 0..MaxFaults
  BY BoundsAssumption DEF Init
<1>4. /\ configured \in BOOLEAN /\ up \in BOOLEAN /\ server \in BOOLEAN
      /\ reboots \in BOOLEAN /\ rivals \in BOOLEAN
  BY DEF Init
<1>5. spent \subseteq Codes /\ told \in Codes \cup {"none"}
  BY DEF Init
<1>6. Named
  BY DEF Init, Named, Idle, Out
<1> QED
  BY <1>1, <1>2, <1>3, <1>4, <1>5, <1>6 DEF TypeOK

\* A wizard that moves on stays a session.
LEMMA Moves ==
  ASSUME TypeOK, NEW w \in Wizards,
         NEW pc \in {"steps", "summary", "config", "configWrite", "identity",
                    "identityWrite", "mark"}, Wizard(w, pc)
  PROVE  wizard' \in [Wizards -> Session]
  BY DEF TypeOK, Session, Wizard

LEMMA Leaves ==
  ASSUME TypeOK, NEW w \in Wizards, wizard' = [wizard EXCEPT ![w] = Out]
  PROVE  wizard' \in [Wizards -> Session]
  BY RestTypes DEF TypeOK

\* What a key does to its wizard.
LEMMA KeySteps ==
  ASSUME TypeOK, NEW w \in Wizards, Key(w)
  PROVE  /\ wizard[w].pc \in {"steps", "summary"}
         /\ \A v \in Wizards \ {w} : wizard'[v] = wizard[v]
         /\ \/ wizard'[w].pc = "out"
            \/ wizard'[w].pc \in {"steps", "summary", "config"} /\ wizard'[w].id = wizard[w].id
<1> USE DEF TypeOK, Session
<1>1. CASE Wizard(w, "summary") \/ Wizard(w, "steps")
  BY ZenonT(60), <1>1 DEF Key, Wizard
<1>2. CASE wizard' = [wizard EXCEPT ![w] = Out]
  BY <1>2 DEF Key, Out
<1>3. ASSUME NEW q \in BOOLEAN,
             wizard' = [wizard EXCEPT ![w] = [@ EXCEPT !.pc = "config", !.quit = q]]
      PROVE  /\ \A v \in Wizards \ {w} : wizard'[v] = wizard[v]
             /\ wizard'[w].pc = "config" /\ wizard'[w].id = wizard[w].id
  BY <1>3
<1>4. wizard[w].pc \in {"steps", "summary"}
  BY DEF Key
<1> QED
  BY <1>1, <1>2, <1>3, <1>4 DEF Key

\* Every step keeps the names.
LEMMA NamedNext == TypeOK /\ Named /\ [Next]_vars => Named'
<1> SUFFICES ASSUME TypeOK, Named, [Next]_vars PROVE Named'
  OBVIOUS
<1> USE DEF TypeOK, Named, Request, Session, Idle, Out, disk, files, actors, system, history, bounds
<1>1. CASE Halt
  BY <1>1 DEF Halt, GoDown
<1>2. CASE Reboot
  BY <1>2 DEF Reboot, GoDown
<1>3. CASE PowerOn
  BY <1>3 DEF PowerOn
<1>4. CASE Serve
  BY <1>4 DEF Serve
<1>5. ASSUME NEW h \in Handlers, Pair(h) PROVE Named'
  BY <1>5 DEF Pair
<1>6. ASSUME NEW h \in Handlers, Exchange(h) PROVE Named'
  BY <1>6 DEF Exchange, Works, Fault, Handle
<1>7. ASSUME NEW h \in Handlers, Store(h) PROVE Named'
  BY <1>7 DEF Store, Works, Fault, Handle, Begins
<1>8. ASSUME NEW h \in Handlers, Write(h) PROVE Named'
  BY <1>8 DEF Write, Works, Fault, Handle, Written
<1>9. ASSUME NEW h \in Handlers, Mark(h) PROVE Named'
  BY <1>9 DEF Mark, Works, Fault, Handle
<1>10. ASSUME NEW h \in Handlers, Answer(h) PROVE Named'
  BY <1>10 DEF Answer
<1>11. ASSUME NEW w \in Wizards, Login(w) PROVE Named'
  BY <1>11 DEF Login, Known
<1>12. ASSUME NEW w \in Wizards, Key(w) PROVE Named'
  BY <1>12, KeySteps DEF Key
<1>13. ASSUME NEW w \in Wizards, Fails(w) PROVE Named'
  BY <1>13 DEF Fails, Fault
<1>14. ASSUME NEW w \in Wizards, WriteConfig(w) PROVE Named'
  BY <1>14 DEF WriteConfig, Wizard, Begins, Written
<1>15. ASSUME NEW w \in Wizards, WriteIdentity(w) PROVE Named'
  BY <1>15 DEF WriteIdentity, Wizard, Written
<1>16. ASSUME NEW w \in Wizards, WriteMarker(w) PROVE Named'
  BY <1>16 DEF WriteMarker
<1>17. CASE UNCHANGED vars
  BY <1>17 DEF vars
<1> QED
  BY <1>1, <1>2, <1>3, <1>4, <1>5, <1>6, <1>7, <1>8, <1>9, <1>10, <1>11, <1>12,
     <1>13, <1>14, <1>15, <1>16, <1>17
  DEF Next

\* Every step keeps the types.
LEMMA TypeNext == TypeOK /\ Named /\ [Next]_vars => TypeOK'
<1> SUFFICES ASSUME TypeOK, Named, [Next]_vars PROVE TypeOK'
  OBVIOUS
<1> USE BoundsAssumption
<1> USE DEF TypeOK, disk, files, actors, system, history, bounds
<1>1. CASE Halt
  <2>1. up' \in BOOLEAN
    BY <1>1 DEF Halt, GoDown
  <2>2. server' \in BOOLEAN
    BY <1>1 DEF Halt, GoDown
  <2>3. reboots' \in BOOLEAN
    BY <1>1 DEF Halt, GoDown
  <2>4. handler' \in [Handlers -> Request]
    BY <1>1, RestTypes DEF Halt, GoDown
  <2>5. wizard' \in [Wizards -> Session]
    BY <1>1, RestTypes DEF Halt, GoDown
  <2>6. halts' \in 0..MaxHalts
    BY <1>1 DEF Halt, GoDown
  <2>7. UNCHANGED <<configured, portal, config, identity, spent, told, rivals, faults>>
    BY <1>1 DEF Halt
  <2> QED
    BY <2>1, <2>2, <2>3, <2>4, <2>5, <2>6, <2>7
<1>2. CASE Reboot
  <2>1. up' \in BOOLEAN
    BY <1>2 DEF Reboot, GoDown
  <2>2. server' \in BOOLEAN
    BY <1>2 DEF Reboot, GoDown
  <2>3. reboots' \in BOOLEAN
    BY <1>2 DEF Reboot, GoDown
  <2>4. handler' \in [Handlers -> Request]
    BY <1>2, RestTypes DEF Reboot, GoDown
  <2>5. wizard' \in [Wizards -> Session]
    BY <1>2, RestTypes DEF Reboot, GoDown
  <2>6. UNCHANGED <<configured, portal, config, identity, spent, told, rivals, halts, faults>>
    BY <1>2 DEF Reboot
  <2> QED
    BY <2>1, <2>2, <2>3, <2>4, <2>5, <2>6
<1>3. CASE PowerOn
  <2>1. up' \in BOOLEAN
    BY <1>3 DEF PowerOn
  <2>2. UNCHANGED <<configured, portal, config, identity, server, reboots, handler, wizard, spent, told, rivals, halts, faults>>
    BY <1>3 DEF PowerOn
  <2> QED
    BY <2>1, <2>2
<1>4. CASE Serve
  <2>1. server' \in BOOLEAN
    BY <1>4 DEF Serve
  <2>2. UNCHANGED <<configured, portal, config, identity, up, reboots, handler, wizard, spent, told, rivals, halts, faults>>
    BY <1>4 DEF Serve
  <2> QED
    BY <2>1, <2>2
<1>5. ASSUME NEW h \in Handlers, Pair(h) PROVE TypeOK'
  <2>1. handler' \in [Handlers -> Request]
    BY <1>5, RestTypes DEF Pair, Handle, Request
  <2>2. UNCHANGED <<configured, portal, config, identity, up, server, reboots, wizard, spent, told, rivals, halts, faults>>
    BY <1>5 DEF Pair, Works, Fault
  <2> QED
    BY <2>1, <2>2
<1>6. ASSUME NEW h \in Handlers, Exchange(h) PROVE TypeOK'
  <2>1. spent' \subseteq Codes
    BY <1>6 DEF Exchange, Named
  <2>2. handler' \in [Handlers -> Request]
    BY <1>6, RestTypes DEF Exchange, Handle, Request
  <2>3. faults' \in 0..MaxFaults
    BY <1>6 DEF Exchange, Works, Fault
  <2>4. UNCHANGED <<configured, portal, config, identity, up, server, reboots, wizard, told, rivals, halts>>
    BY <1>6 DEF Exchange, Works, Fault
  <2> QED
    BY <2>1, <2>2, <2>3, <2>4
<1>7. ASSUME NEW h \in Handlers, Store(h) PROVE TypeOK'
  <2>1. portal' \in Broken \cup Codes
    BY <1>7 DEF Store, Broken
  <2>2. rivals' \in BOOLEAN
    <3>1. (rivals \/ configured \/ AtWork) \in BOOLEAN
      OBVIOUS
    <3> QED
      BY <1>7, <3>1 DEF Store, Begins
  <2>3. handler' \in [Handlers -> Request]
    BY <1>7, RestTypes DEF Store, Handle, Request
  <2>4. faults' \in 0..MaxFaults
    BY <1>7 DEF Store, Works, Fault
  <2>5. UNCHANGED <<configured, config, identity, up, server, reboots, wizard, spent, told, halts>>
    BY <1>7 DEF Store, Works, Fault
  <2> QED
    BY <2>1, <2>2, <2>3, <2>4, <2>5
<1>8. ASSUME NEW h \in Handlers, Write(h) PROVE TypeOK'
  <2>1. portal' \in Broken \cup Codes
    BY <1>8 DEF Write, Written, Broken, Named
  <2>2. handler' \in [Handlers -> Request]
    BY <1>8, RestTypes DEF Write, Handle, Request
  <2>3. faults' \in 0..MaxFaults
    BY <1>8 DEF Write, Works, Fault
  <2>4. UNCHANGED <<configured, config, identity, up, server, reboots, wizard, spent, told, rivals, halts>>
    BY <1>8 DEF Write, Works, Fault
  <2> QED
    BY <2>1, <2>2, <2>3, <2>4
<1>9. ASSUME NEW h \in Handlers, Mark(h) PROVE TypeOK'
  <2>1. configured' \in BOOLEAN
    BY <1>9 DEF Mark
  <2>2. handler' \in [Handlers -> Request]
    BY <1>9, RestTypes DEF Mark, Handle, Request
  <2>3. faults' \in 0..MaxFaults
    <3>1. Works \/ Fault
      BY <1>9, Zenon DEF Mark
    <3> QED
      BY <3>1 DEF Works, Fault
  <2>4. UNCHANGED <<portal, config, identity, up, server, reboots, wizard, spent, told, rivals, halts>>
    BY <1>9 DEF Mark, Works, Fault
  <2> QED
    BY <2>1, <2>2, <2>3, <2>4
<1>10. ASSUME NEW h \in Handlers, Answer(h) PROVE TypeOK'
  <2>1. told' \in Codes \cup {"none"}
    BY <1>10 DEF Answer, Named
  <2>2. reboots' \in BOOLEAN
    BY <1>10 DEF Answer
  <2>3. handler' \in [Handlers -> Request]
    BY <1>10, RestTypes DEF Answer, Handle, Request
  <2>4. UNCHANGED <<configured, portal, config, identity, up, server, wizard, spent, rivals, halts, faults>>
    BY <1>10 DEF Answer, Works, Fault
  <2> QED
    BY <2>1, <2>2, <2>3, <2>4
<1>11. ASSUME NEW w \in Wizards, Login(w) PROVE TypeOK'
  <2>1. wizard' \in [Wizards -> Session]
    BY ZenonT(60), <1>11 DEF Login, Out, Session
  <2>2. UNCHANGED <<configured, portal, config, identity, up, server, reboots, handler, spent, told, rivals, halts, faults>>
    BY <1>11 DEF Login
  <2> QED
    BY <2>1, <2>2
<1>12. ASSUME NEW w \in Wizards, Key(w) PROVE TypeOK'
  <2>1. wizard' \in [Wizards -> Session]
    <3>1. CASE Wizard(w, "summary") \/ Wizard(w, "steps")
      BY <3>1, Moves
    <3>2. CASE wizard' = [wizard EXCEPT ![w] = Out]
      BY <3>2, Leaves
    <3>3. ASSUME NEW q \in BOOLEAN,
                 wizard' = [wizard EXCEPT ![w] = [@ EXCEPT !.pc = "config", !.quit = q]]
          PROVE  wizard' \in [Wizards -> Session]
      BY <3>3 DEF Session
    <3> QED
      BY <1>12, <3>1, <3>2, <3>3 DEF Key
  <2>2. UNCHANGED <<configured, portal, config, identity, up, server, reboots, handler, spent, told, rivals, halts, faults>>
    BY <1>12 DEF Key
  <2> QED
    BY <2>1, <2>2
<1>13. ASSUME NEW w \in Wizards, Fails(w) PROVE TypeOK'
  <2>1. config' \in Broken \cup Ids
    BY <1>13 DEF Fails, Broken
  <2>2. identity' \in Broken \cup Ids
    BY <1>13 DEF Fails, Broken
  <2>3. wizard' \in [Wizards -> Session]
    BY <1>13, Leaves DEF Fails
  <2>4. faults' \in 0..MaxFaults
    BY <1>13 DEF Fails, Works, Fault
  <2>5. UNCHANGED <<configured, portal, up, server, reboots, handler, spent, told, rivals, halts>>
    BY <1>13 DEF Fails, Works, Fault
  <2> QED
    BY <2>1, <2>2, <2>3, <2>4, <2>5
<1>14. ASSUME NEW w \in Wizards, WriteConfig(w) PROVE TypeOK'
  <2>1. config' \in Broken \cup Ids
    BY <1>14 DEF WriteConfig, Written, Broken, Named
  <2>2. rivals' \in BOOLEAN
    <3>1. (rivals \/ configured \/ AtWork) \in BOOLEAN
      OBVIOUS
    <3> QED
      BY <1>14, <3>1 DEF WriteConfig, Begins
  <2>3. wizard' \in [Wizards -> Session]
    BY <1>14, Moves DEF WriteConfig
  <2>4. UNCHANGED <<configured, portal, identity, up, server, reboots, handler, spent, told, halts, faults>>
    BY <1>14 DEF WriteConfig
  <2> QED
    BY <2>1, <2>2, <2>3, <2>4
<1>15. ASSUME NEW w \in Wizards, WriteIdentity(w) PROVE TypeOK'
  <2>1. identity' \in Broken \cup Ids
    BY <1>15 DEF WriteIdentity, Written, Broken, Named
  <2>2. wizard' \in [Wizards -> Session]
    BY <1>15, Moves DEF WriteIdentity
  <2>3. UNCHANGED <<configured, portal, config, up, server, reboots, handler, spent, told, rivals, halts, faults>>
    BY <1>15 DEF WriteIdentity
  <2> QED
    BY <2>1, <2>2, <2>3
<1>16. ASSUME NEW w \in Wizards, WriteMarker(w) PROVE TypeOK'
  <2>1. configured' \in BOOLEAN
    BY <1>16 DEF WriteMarker
  <2>2. wizard' \in [Wizards -> Session]
    BY <1>16, Leaves DEF WriteMarker
  <2>3. UNCHANGED <<portal, config, identity, up, server, reboots, handler, spent, told, rivals, halts, faults>>
    BY <1>16 DEF WriteMarker
  <2> QED
    BY <2>1, <2>2, <2>3
<1>17. CASE UNCHANGED vars
  BY <1>17 DEF vars
<1> QED
  BY <1>1, <1>2, <1>3, <1>4, <1>5, <1>6, <1>7, <1>8, <1>9, <1>10, <1>11, <1>12,
     <1>13, <1>14, <1>15, <1>16, <1>17
  DEF Next

\* Every reachable state is well typed.
THEOREM TypeCorrect == Spec => []TypeOK
  BY TypeInit, TypeNext, NamedNext, PTL DEF Spec

-----------------------------------------------------------------------------
(* What .configured means.                                                 *)

\* A request, or a wizard, that has begun to write.
Storing(h) == handler[h].pc \in {"write", "mark", "answer"}
Finishing(w) == wizard[w].pc \in {"configWrite", "identity", "identityWrite", "mark"}

\* Without rivals there is one writer, and none but an answering request's once
\* .configured is there.
OneWriter ==
  /\ \A h1, h2 \in Handlers : Storing(h1) /\ Storing(h2) => h1 = h2
  /\ \A w1, w2 \in Wizards : Finishing(w1) /\ Finishing(w2) => w1 = w2
  /\ \A h \in Handlers, w \in Wizards : ~(Storing(h) /\ Finishing(w))
  /\ configured => /\ \A h \in Handlers : handler[h].pc \notin {"write", "mark"}
                   /\ \A w \in Wizards : ~Finishing(w)

\* What the writer has done so far is on the disk.
Progress ==
  /\ \A h \in Handlers :
       /\ handler[h].pc = "write" => portal = "empty"
       /\ handler[h].pc \in {"mark", "answer"} => portal = handler[h].code
  /\ \A w \in Wizards :
       /\ wizard[w].pc = "configWrite" => config = "empty"
       /\ wizard[w].pc \in {"identity", "identityWrite", "mark"} => config = wizard[w].id
       /\ wizard[w].pc = "identityWrite" => identity = "empty"
       /\ wizard[w].pc = "mark" => identity = wizard[w].id

ConfInv == ~rivals => OneWriter /\ Progress /\ ConfiguredMeans

LEMMA ConfInit == Init => ConfInv
  BY DEF Init, ConfInv, OneWriter, Progress, ConfiguredMeans, Storing, Finishing, Idle, Out

\* Every step keeps what .configured stands for.
LEMMA ConfNext == TypeOK /\ Named /\ ConfInv /\ [Next]_vars => ConfInv'
<1> SUFFICES ASSUME TypeOK, Named, ConfInv, [Next]_vars PROVE ConfInv'
  OBVIOUS
<1> USE NamesAssumption
<1> USE DEF TypeOK, ConfInv, Named, OneWriter, Progress, ConfiguredMeans, Storing,
            Finishing, Broken, Request, Session, Idle, Out, disk, files, actors, system, history, bounds
<1>1. CASE Halt
  BY <1>1 DEF Halt, GoDown
<1>2. CASE Reboot
  BY <1>2 DEF Reboot, GoDown
<1>3. CASE PowerOn
  BY <1>3 DEF PowerOn
<1>4. CASE Serve
  BY <1>4 DEF Serve
<1>5. ASSUME NEW h \in Handlers, Pair(h) PROVE ConfInv'
  BY <1>5 DEF Pair
<1>6. ASSUME NEW h \in Handlers, Exchange(h) PROVE ConfInv'
  BY <1>6 DEF Exchange, Works, Fault, Handle
<1>7. ASSUME NEW h \in Handlers, Store(h) PROVE ConfInv'
  <2>1. CASE Begins
    <3>1. ~rivals' => /\ ~rivals /\ ~configured
                      /\ \A g \in Handlers : ~Storing(g)
                      /\ \A v \in Wizards : ~Finishing(v)
      BY <2>1 DEF Begins, AtWork
    <3> QED
      BY <1>7, <3>1 DEF Store, Works, Fault, Handle
  <2>2. CASE ~Begins
    BY <1>7, <2>2 DEF Store, Works, Fault, Handle
  <2> QED
    BY <2>1, <2>2
<1>8. ASSUME NEW h \in Handlers, Write(h) PROVE ConfInv'
  BY <1>8 DEF Write, Works, Fault, Handle, Written
<1>9. ASSUME NEW h \in Handlers, Mark(h) PROVE ConfInv'
  BY <1>9 DEF Mark, Works, Fault, Handle
<1>10. ASSUME NEW h \in Handlers, Answer(h) PROVE ConfInv'
  BY <1>10 DEF Answer
<1>11. ASSUME NEW w \in Wizards, Login(w) PROVE ConfInv'
  BY <1>11 DEF Login, Known
<1>12. ASSUME NEW w \in Wizards, Key(w) PROVE ConfInv'
  <2>1. UNCHANGED <<configured, portal, config, identity, rivals, handler>>
    BY <1>12 DEF Key
  <2>2. \A v \in Wizards :
          wizard'[v].pc \in {"configWrite", "identity", "identityWrite", "mark"} =>
            wizard'[v] = wizard[v]
    BY <1>12, KeySteps
  <2> QED
    BY <2>1, <2>2
<1>13. ASSUME NEW w \in Wizards, Fails(w) PROVE ConfInv'
  BY <1>13 DEF Fails, Fault
<1>14. ASSUME NEW w \in Wizards, WriteConfig(w) PROVE ConfInv'
  <2>1. CASE Begins
    <3>1. ~rivals' => /\ ~rivals /\ ~configured
                      /\ \A g \in Handlers : ~Storing(g)
                      /\ \A v \in Wizards : ~Finishing(v)
      BY <2>1 DEF Begins, AtWork
    <3> QED
      BY <1>14, <3>1 DEF WriteConfig, Wizard, Written
  <2>2. CASE ~Begins
    BY <1>14, <2>2 DEF WriteConfig, Wizard, Written
  <2> QED
    BY <2>1, <2>2
<1>15. ASSUME NEW w \in Wizards, WriteIdentity(w) PROVE ConfInv'
  BY SMTT(60), <1>15 DEF WriteIdentity, Wizard, Written
<1>16. ASSUME NEW w \in Wizards, WriteMarker(w) PROVE ConfInv'
  BY <1>16 DEF WriteMarker
<1>17. CASE UNCHANGED vars
  BY <1>17 DEF vars
<1> QED
  BY <1>1, <1>2, <1>3, <1>4, <1>5, <1>6, <1>7, <1>8, <1>9, <1>10, <1>11, <1>12,
     <1>13, <1>14, <1>15, <1>16, <1>17
  DEF Next

\* Whoever finds .configured finds whole credentials, or a configuration and the
\* identity it names, unless writers met: for any number of them.
THEOREM ConfiguredSafe == Spec => []ConfiguredMeans
<1>1. TypeOK /\ ConfInv => ConfiguredMeans
  BY DEF ConfInv, ConfiguredMeans
<1> QED
  BY TypeInit, TypeNext, NamedNext, ConfInit, ConfNext, <1>1, PTL DEF Spec

-----------------------------------------------------------------------------
(* Credentials that were confirmed.                                        *)

\* A request whose code the portal has accepted.
Paid(h) == handler[h].pc \in {"store", "write", "mark", "answer"}

\* The portal accepts a code once: nobody else has it, nobody was told of it.
PaidOnce ==
  /\ \A h \in Handlers : Paid(h) => handler[h].code \in spent \ {told, "none"}
  /\ \A h1, h2 \in Handlers :
       Paid(h1) /\ Paid(h2) /\ handler[h1].code = handler[h2].code => h1 = h2
  /\ told \in spent \cup {"none"}

\* A request that alone has paid is alone in writing.
PaidWrites ==
  \A h \in Handlers : spent = {handler[h].code} =>
    /\ handler[h].pc = "write" => portal = "empty"
    /\ handler[h].pc \in {"mark", "answer"} => portal = handler[h].code

CredInv == PaidOnce /\ PaidWrites /\ CredentialsKept

LEMMA CredInit == Init => CredInv
  BY DEF Init, CredInv, PaidOnce, PaidWrites, CredentialsKept, Paid, Idle

\* Every step keeps confirmed credentials.
LEMMA CredNext == TypeOK /\ Named /\ CredInv /\ [Next]_vars => CredInv'
<1> SUFFICES ASSUME TypeOK, Named, CredInv, [Next]_vars PROVE CredInv'
  OBVIOUS
<1> USE NamesAssumption
<1> USE DEF TypeOK, Named, CredInv, PaidOnce, PaidWrites, CredentialsKept, Paid, Broken,
            Request, Session, Idle, Out, disk, files, actors, system, history, bounds
<1>1. CASE Halt
  BY <1>1 DEF Halt, GoDown
<1>2. CASE Reboot
  BY <1>2 DEF Reboot, GoDown
<1>3. CASE PowerOn
  BY <1>3 DEF PowerOn
<1>4. CASE Serve
  BY <1>4 DEF Serve
<1>5. ASSUME NEW h \in Handlers, Pair(h) PROVE CredInv'
  BY <1>5 DEF Pair
<1>6. ASSUME NEW h \in Handlers, Exchange(h) PROVE CredInv'
  BY SMTT(60), <1>6 DEF Exchange, Works, Fault, Handle
<1>7. ASSUME NEW h \in Handlers, Store(h) PROVE CredInv'
  BY SMTT(60), <1>7 DEF Store, Works, Fault, Handle, Begins
<1>8. ASSUME NEW h \in Handlers, Write(h) PROVE CredInv'
  BY SMTT(60), <1>8 DEF Write, Works, Fault, Handle, Written
<1>9. ASSUME NEW h \in Handlers, Mark(h) PROVE CredInv'
  BY <1>9 DEF Mark, Works, Fault, Handle
<1>10. ASSUME NEW h \in Handlers, Answer(h) PROVE CredInv'
  BY <1>10 DEF Answer
<1>11. ASSUME NEW w \in Wizards, Login(w) PROVE CredInv'
  BY <1>11 DEF Login, Known
<1>12. ASSUME NEW w \in Wizards, Key(w) PROVE CredInv'
  BY ZenonT(60), <1>12 DEF Key, Wizard
<1>13. ASSUME NEW w \in Wizards, Fails(w) PROVE CredInv'
  BY <1>13 DEF Fails, Fault
<1>14. ASSUME NEW w \in Wizards, WriteConfig(w) PROVE CredInv'
  BY <1>14 DEF WriteConfig, Wizard, Begins, Written
<1>15. ASSUME NEW w \in Wizards, WriteIdentity(w) PROVE CredInv'
  BY <1>15 DEF WriteIdentity, Wizard, Written
<1>16. ASSUME NEW w \in Wizards, WriteMarker(w) PROVE CredInv'
  BY <1>16 DEF WriteMarker
<1>17. CASE UNCHANGED vars
  BY <1>17 DEF vars
<1> QED
  BY <1>1, <1>2, <1>3, <1>4, <1>5, <1>6, <1>7, <1>8, <1>9, <1>10, <1>11, <1>12,
     <1>13, <1>14, <1>15, <1>16, <1>17
  DEF Next

\* Whoever was told that a pairing succeeded finds its credentials on the node, for
\* any number of requests, sessions, reboots and errors.
THEOREM CredentialsSafe == Spec => []CredentialsKept
<1>1. CredInv => CredentialsKept
  BY DEF CredInv
<1> QED
  BY TypeInit, TypeNext, NamedNext, CredInit, CredNext, <1>1, PTL DEF Spec

=============================================================================
