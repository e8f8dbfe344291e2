--------------------------- MODULE ServicesProofs ---------------------------
(***************************************************************************)
(* Proofs about Services, for any operators, editors and checks and any    *)
(* number of commands, failing calls and reboots.                          *)
(***************************************************************************)
EXTENDS Services, TLAPS

-----------------------------------------------------------------------------
(* Types *)

LEMMA TypeInit == Init => TypeOK
<1> SUFFICES ASSUME Init PROVE TypeOK
  OBVIOUS
<1>1. RcTypeOK
  <2>1. faults \in 0 .. MaxFaults /\ begun \in 0 .. MaxCommands
    BY BoundsAssumption DEF Init, RcInit
  <2> QED
    BY <2>1 DEF Init, RcInit, RcTypeOK
<1>2. MeshTypeOK
  BY DEF Init, RcInit, MeshInit, MeshTypeOK
<1>3. HealthTypeOK
  BY DEF Init, HealthInit, HealthTypeOK, Zero
<1> QED
  BY <1>1, <1>2, <1>3, HaltsAssumption DEF Init, RcInit, TypeOK

\* A call that fails counts, and ends what was undisturbed.
LEMMA TroubleType ==
  ASSUME RcTypeOK, Trouble
  PROVE  faults' \in 0 .. MaxFaults /\ settled' = FALSE /\ clean' = {}
  BY BoundsAssumption DEF RcTypeOK, Trouble, Disturb

\* Applies go through services only.
LEMMA FirstOf == ASSUME NEW S \in SUBSET Services, S # {} PROVE First(S) \in S
  BY DEF First, Services, Roles, Peer

\* What a restart leaves of the system is of its type.
LEMMA RestartType ==
  ASSUME RcTypeOK, NEW s \in Services, Restart(s)
  PROVE  RcTypeOK' /\ clean' \subseteq clean
<1>1. running' \subseteq Services /\ rules' \subseteq Roles /\ there' \in BOOLEAN
  BY DEF Restart, RcTypeOK, Stopped, Started, Comes, Services
<1>2. faults' \in 0 .. MaxFaults /\ settled' \in BOOLEAN /\ clean' \subseteq clean
  <2>1. Trouble \/ UNCHANGED history
    BY DEF Restart
  <2> QED
    BY <2>1, TroubleType DEF RcTypeOK, history
<1>3. UNCHANGED <<mesh, enabled, begun>>
  BY DEF Restart
<1> QED
  BY <1>1, <1>2, <1>3 DEF RcTypeOK

\* Operators keep the types.
LEMMA MeshType ==
  ASSUME RcTypeOK, MeshTypeOK, MeshNext PROVE RcTypeOK' /\ MeshTypeOK'
<1> PICK o \in Operators :
      \/ Configure(o) \/ Truncate(o) \/ Write(o) \/ WriteFails(o) \/ Decline(o)
      \/ Read(o) \/ SetRunlevel(o) \/ ConfigureFirewall(o) \/ RestartNext(o)
      \/ Applied(o)
  BY DEF MeshNext
<1> USE BoundsAssumption DEF RcTypeOK, MeshTypeOK, Goto, history, Disturb
<1>1. CASE Configure(o)
  BY <1>1 DEF Configure, Begin
<1>2. CASE Truncate(o)
  BY <1>2 DEF Truncate
<1>3. CASE Write(o)
  BY <1>3 DEF Write, Ends
<1>4. CASE WriteFails(o)
  BY <1>4, TroubleType DEF WriteFails, Ends
<1>5. CASE Decline(o)
  BY <1>5 DEF Decline, Ends, rcVars
<1>6. CASE Read(o)
  BY <1>6 DEF Read, Begin
<1>7. CASE SetRunlevel(o)
  <2>1. First(todo[o]) \in Services
    BY <1>7, FirstOf DEF SetRunlevel
  <2>2. RcTypeOK' /\ clean' \subseteq clean
    BY <1>7, <2>1, TroubleType DEF SetRunlevel, Enlist
  <2> QED
    BY <1>7, <2>2 DEF SetRunlevel
<1>8. CASE ConfigureFirewall(o)
  BY <1>8, TroubleType DEF ConfigureFirewall, Services
<1>9. CASE RestartNext(o)
  <2>1. First(todo[o]) \in Services
    BY <1>9, FirstOf DEF RestartNext
  <2>2. RcTypeOK' /\ clean' \subseteq clean
    BY <1>9, <2>1, RestartType DEF RestartNext
  <2> QED
    BY <1>9, <2>2 DEF RestartNext
<1>10. CASE Applied(o)
  BY <1>10 DEF Applied, Ends
<1> QED
  BY <1>1, <1>2, <1>3, <1>4, <1>5, <1>6, <1>7, <1>8, <1>9, <1>10

\* An edit under way.
Busy == [at : {"truncate", "write"}, name : Names, add : BOOLEAN, list : SUBSET Names,
         blind : BOOLEAN]

\* What an editor has in hand once it has read the list, or could not.
LEMMA EditRead ==
  ASSUME HealthTypeOK, NEW e \in Editors, ReadChecks(e)
  PROVE  \E x \in Busy :
           /\ editor' = [editor EXCEPT ![e] = x]
           /\ x.at = "truncate"
           /\ x.list = IF x.blind THEN {x.name} ELSE IF x.add THEN checks \cup {x.name}
                       ELSE checks \ {x.name}
<1>0. checks \subseteq Names
  BY DEF HealthTypeOK
<1>1. PICK n \in Names :
        \/ \E add \in BOOLEAN :
             editor' = [editor EXCEPT ![e] =
               [at |-> "truncate", name |-> n, add |-> add, blind |-> FALSE,
                list |-> IF add THEN checks \cup {n} ELSE checks \ {n}]]
        \/ editor' = [editor EXCEPT ![e] =
             [at |-> "truncate", name |-> n, add |-> TRUE, blind |-> TRUE, list |-> {n}]]
  BY DEF ReadChecks
<1>2. ASSUME NEW add \in BOOLEAN,
             editor' = [editor EXCEPT ![e] =
               [at |-> "truncate", name |-> n, add |-> add, blind |-> FALSE,
                list |-> IF add THEN checks \cup {n} ELSE checks \ {n}]]
      PROVE  \E x \in Busy :
               /\ editor' = [editor EXCEPT ![e] = x]
               /\ x.at = "truncate"
               /\ x.list = IF x.blind THEN {x.name} ELSE IF x.add THEN checks \cup {x.name}
                           ELSE checks \ {x.name}
  <2> DEFINE x == [at |-> "truncate", name |-> n, add |-> add, blind |-> FALSE,
                   list |-> IF add THEN checks \cup {n} ELSE checks \ {n}]
  <2>1. (IF add THEN checks \cup {n} ELSE checks \ {n}) \in SUBSET Names
    BY <1>0
  <2>2. x \in Busy
    BY <2>1 DEF Busy
  <2> WITNESS x \in Busy
  <2> QED
    BY <1>2
<1>3. ASSUME editor' = [editor EXCEPT ![e] =
               [at |-> "truncate", name |-> n, add |-> TRUE, blind |-> TRUE, list |-> {n}]]
      PROVE  \E x \in Busy :
               /\ editor' = [editor EXCEPT ![e] = x]
               /\ x.at = "truncate"
               /\ x.list = IF x.blind THEN {x.name} ELSE IF x.add THEN checks \cup {x.name}
                           ELSE checks \ {x.name}
  <2> DEFINE x == [at |-> "truncate", name |-> n, add |-> TRUE, blind |-> TRUE, list |-> {n}]
  <2>1. x \in Busy
    BY DEF Busy
  <2> WITNESS x \in Busy
  <2> QED
    BY <1>3
<1> QED
  BY <1>1, <1>2, <1>3

\* So do the health commands.
LEMMA HealthType ==
  ASSUME RcTypeOK, HealthTypeOK, Edit \/ StartWatch \/ Watch \/ StopWatch
  PROVE  RcTypeOK' /\ HealthTypeOK' /\ clean' \subseteq clean
<1> USE BoundsAssumption, ChecksAssumption DEF RcTypeOK, HealthTypeOK
<1>1. ASSUME NEW e \in Editors, ReadChecks(e) PROVE RcTypeOK' /\ HealthTypeOK' /\ UNCHANGED clean
  <2>1. faults' \in 0 .. MaxFaults /\ UNCHANGED <<settled, clean>>
    BY <1>1 DEF ReadChecks, Fault, history
  <2>2. editor' \in [Editors -> {NoEdit} \cup [at : {"truncate", "write"}, name : Names,
                                           add : BOOLEAN, list : SUBSET Names,
                                           blind : BOOLEAN]]
    BY <1>1, EditRead DEF Busy
  <2> QED
    BY <1>1, <2>1, <2>2 DEF ReadChecks, Begin, watchVars
<1>2. ASSUME NEW e \in Editors, TruncateChecks(e)
      PROVE RcTypeOK' /\ HealthTypeOK' /\ UNCHANGED clean
  BY <1>2 DEF TruncateChecks, rcVars, history, watchVars, NoEdit
<1>3. ASSUME NEW e \in Editors, WriteChecks(e)
      PROVE RcTypeOK' /\ HealthTypeOK' /\ UNCHANGED clean
  BY <1>3 DEF WriteChecks, rcVars, history, watchVars, NoEdit
<1>4. ASSUME NEW e \in Editors, WriteChecksFails(e)
      PROVE RcTypeOK' /\ HealthTypeOK' /\ UNCHANGED clean
  BY <1>4 DEF WriteChecksFails, Fault, watchVars
<1>5. CASE StartWatch
  <2>1. faults' \in 0 .. MaxFaults /\ UNCHANGED <<settled, clean>>
    BY <1>5 DEF StartWatch, Fault, history
  <2>2. config' \subseteq Names
    BY <1>5 DEF StartWatch
  <2> QED
    BY <1>5, <2>1, <2>2 DEF StartWatch, editVars, Zero
<1>6. CASE RunAllChecks
  BY <1>6 DEF RunAllChecks, rcVars, history, editVars
<1>7. ASSUME NEW n \in Names, HandleFailure(n)
      PROVE RcTypeOK' /\ HealthTypeOK' /\ clean' \subseteq clean
  <2>1. RcTypeOK' /\ clean' \subseteq clean
    BY <1>7, RestartType DEF HandleFailure, rcVars, history
  <2>2. HealthTypeOK'
    BY <1>7 DEF HandleFailure, editVars
  <2> QED
    BY <2>1, <2>2
<1>8. CASE Sleep
  BY <1>8 DEF Sleep, rcVars, history, editVars
<1>9. CASE StopWatch
  BY <1>9 DEF StopWatch, Off, rcVars, history, editVars, Zero
<1> QED
  BY <1>1, <1>2, <1>3, <1>4, <1>5, <1>6, <1>7, <1>8, <1>9 DEF Edit, Watch

LEMMA TypeNext == TypeOK /\ [Next]_vars => TypeOK'
<1> SUFFICES ASSUME TypeOK, [Next]_vars PROVE TypeOK'
  OBVIOUS
<1> USE DEF TypeOK
<1>1. CASE MeshNext /\ UNCHANGED <<healthVars, halts>>
  BY <1>1, MeshType DEF HealthTypeOK, healthVars, editVars, watchVars, MeshTypeOK
<1>2. CASE (Edit \/ StartWatch \/ Watch \/ StopWatch) /\ UNCHANGED <<meshVars, halts>>
  BY <1>2, HealthType DEF MeshTypeOK, meshVars
<1>3. CASE Reboot
  <2>1. RcTypeOK' /\ MeshTypeOK'
    BY <1>3 DEF Reboot, PowerCycle, MeshHalts, RcTypeOK, MeshTypeOK
  <2>2. HealthTypeOK'
    BY <1>3 DEF Reboot, HealthHalts, Off, Zero, HealthTypeOK
  <2>3. halts' \in 0 .. MaxHalts /\ clean' = {}
    BY <1>3, HaltsAssumption DEF Reboot, PowerCycle
  <2> QED
    BY <2>1, <2>2, <2>3
<1>4. CASE UNCHANGED vars
  BY <1>4 DEF vars, rcVars, history, meshVars, healthVars, editVars, watchVars, RcTypeOK,
              MeshTypeOK, HealthTypeOK
<1> QED
  BY <1>1, <1>2, <1>3, <1>4 DEF Next

\* Every variable of Services stays in its type.
THEOREM TypeCorrect == Spec => []TypeOK
  BY TypeInit, TypeNext, PTL DEF Spec

-----------------------------------------------------------------------------
(* The checks *)

\* What the account of the edits is once that of e is written back.
Account(e) ==
  IF editor[e].blind THEN {editor[e].name}
  ELSE IF editor[e].add THEN asked \cup {editor[e].name}
  ELSE asked \ {editor[e].name}

\* Without an edit that overlapped another or did not end, one process at most is
\* at work, with a list that is what the edits so far amount to, and its own.
EditInv ==
  ~tangled =>
    /\ \A e, f \in Editors : editor[e] # NoEdit /\ editor[f] # NoEdit => e = f
    /\ (\A e \in Editors : editor[e].at # "write") => checks = asked
    /\ \A e \in Editors : editor[e].at = "write" => checks = {}
    /\ \A e \in Editors : editor[e] # NoEdit => editor[e].list = Account(e)

LEMMA EditNext == TypeOK /\ EditInv /\ [Next]_vars => EditInv'
<1> SUFFICES ASSUME TypeOK, EditInv, [Next]_vars PROVE EditInv'
  OBVIOUS
<1>t. editor \in [Editors -> {NoEdit} \cup Busy]
  BY DEF TypeOK, HealthTypeOK, Busy
<1>n. NoEdit.at = "idle"
  BY DEF NoEdit
<1>1. ASSUME NEW e \in Editors, ReadChecks(e) PROVE EditInv'
  <2>1. PICK x \in Busy :
          /\ editor' = [editor EXCEPT ![e] = x]
          /\ x.at = "truncate"
          /\ x.list = IF x.blind THEN {x.name} ELSE IF x.add THEN checks \cup {x.name}
                      ELSE checks \ {x.name}
    BY <1>1, EditRead DEF TypeOK
  <2> SUFFICES ASSUME ~tangled' PROVE EditInv'
    BY DEF EditInv
  <2>2. ~tangled /\ \A f \in Editors : editor[f] = NoEdit
    BY <1>1 DEF ReadChecks
  <2>3. checks = asked /\ checks' = asked' /\ asked' = asked
    BY <1>1, <1>n, <2>2 DEF ReadChecks, EditInv
  <2>4. \A f \in Editors \ {e} : editor'[f] = NoEdit
    BY <2>1, <2>2, <1>t
  <2>5. editor'[e] = x
    BY <2>1, <1>t
  <2>6. editor'[e].list = Account(e)' /\ editor'[e].at = "truncate"
    BY <2>1, <2>3, <2>5 DEF Account
  <2> QED
    BY <1>n, <2>3, <2>4, <2>6 DEF EditInv
<1>2. ASSUME NEW e \in Editors, TruncateChecks(e) PROVE EditInv'
  <2>1. editor[e] \in Busy /\ editor[e] # NoEdit
    BY <1>2, <1>t, <1>n DEF TruncateChecks
  <2>2. editor' = [editor EXCEPT ![e].at = "write"]
    BY <1>2 DEF TruncateChecks
  <2>3. /\ editor'[e].at = "write"
        /\ editor'[e].list = editor[e].list
        /\ editor'[e].add = editor[e].add
        /\ editor'[e].name = editor[e].name
        /\ editor'[e].blind = editor[e].blind
    BY <2>1, <2>2, <1>t DEF Busy
  <2>4. \A f \in Editors \ {e} : editor'[f] = editor[f]
    BY <2>2, <1>t
  <2>5. UNCHANGED <<asked, tangled>> /\ checks' = {}
    BY <1>2 DEF TruncateChecks
  <2>6. Account(e)' = Account(e) /\ \A f \in Editors \ {e} : Account(f)' = Account(f)
    BY <2>3, <2>4, <2>5 DEF Account
  <2> QED
    BY <2>1, <2>3, <2>4, <2>5, <2>6 DEF EditInv
<1>3. ASSUME NEW e \in Editors, WriteChecks(e) PROVE EditInv'
  <2>1. editor[e] \in Busy /\ editor[e] # NoEdit
    BY <1>3, <1>t, <1>n DEF WriteChecks
  <2>2. editor'[e] = NoEdit /\ \A f \in Editors \ {e} : editor'[f] = editor[f]
    BY <1>3, <1>t DEF WriteChecks
  <2> SUFFICES ASSUME ~tangled' PROVE EditInv'
    BY DEF EditInv
  <2>3. ~tangled /\ \A f \in Editors : editor'[f] = NoEdit
    BY <1>3, <2>1, <2>2 DEF WriteChecks, EditInv
  <2>4. checks = {} /\ editor[e].list = Account(e)
    BY <1>3, <2>1, <2>3 DEF WriteChecks, EditInv
  <2>5. checks' = asked'
    BY <1>3, <2>4 DEF WriteChecks, Account
  <2> QED
    BY <1>n, <2>3, <2>5 DEF EditInv
<1>4. ASSUME NEW e \in Editors, WriteChecksFails(e) PROVE EditInv'
  BY <1>4 DEF WriteChecksFails, EditInv
<1>5. CASE Reboot
  BY <1>5, <1>n DEF Reboot, HealthHalts, EditInv
<1>6. CASE UNCHANGED editVars
  BY <1>6 DEF editVars, EditInv, Account
<1> QED
  BY <1>1, <1>2, <1>3, <1>4, <1>5, <1>6
     DEF Next, Edit, StartWatch, Watch, RunAllChecks, HandleFailure, Sleep, StopWatch,
         healthVars, vars

\* As long as no edit of health.yaml overlapped another or was cut short, the file is
\* the sum of the edits that ended well (health.go:253-350), from the last on that could
\* not read the list and began a new one.
THEOREM EditsStay == Spec => []EditsKept
<1>1. Init => EditInv
  BY DEF Init, HealthInit, EditInv
<1>2. EditInv => EditsKept
  BY DEF EditInv, EditsKept
<1> QED
  BY <1>1, <1>2, EditNext, TypeCorrect, PTL DEF Spec

-----------------------------------------------------------------------------
(* The budget of the watch *)

CountInv == counts = tries /\ \A n \in Names : tries[n] <= MaxRestarts

LEMMA CountNext == TypeOK /\ CountInv /\ [Next]_vars => CountInv'
<1> SUFFICES ASSUME TypeOK, CountInv, [Next]_vars PROVE CountInv'
  OBVIOUS
<1> USE ChecksAssumption DEF CountInv, TypeOK, HealthTypeOK
<1>1. ASSUME NEW n \in Names, HandleFailure(n) PROVE CountInv'
  <2>1. CASE counts[n] >= MaxRestarts
    BY <1>1, <2>1 DEF HandleFailure
  <2>2. CASE ~(counts[n] >= MaxRestarts)
    <3>1. counts' = [counts EXCEPT ![n] = @ + 1] /\ tries' = [tries EXCEPT ![n] = @ + 1]
      BY <1>1, <2>2 DEF HandleFailure
    <3>2. tries[n] < MaxRestarts /\ tries[n] \in Nat
      BY <2>2
    <3> QED
      BY <3>1, <3>2
  <2> QED
    BY <2>1, <2>2
<1>2. CASE Off
  BY <1>2 DEF Off, Zero
<1>3. CASE StartWatch
  BY <1>3 DEF StartWatch, Zero
<1>4. CASE UNCHANGED <<counts, tries>>
  BY <1>4
<1> QED
  BY <1>1, <1>2, <1>3, <1>4
     DEF Next, Edit, ReadChecks, TruncateChecks, WriteChecks, WriteChecksFails, Watch,
         RunAllChecks, Sleep, StopWatch, Reboot, HealthHalts, healthVars, watchVars, vars

\* A watch asks for a service to be restarted at most maxRestarts times in its life,
\* whether rc-service succeeds or not (health.go:472-495).
THEOREM BudgetKept == Spec => []RestartsBounded
<1>1. Init => CountInv
  BY ChecksAssumption DEF Init, HealthInit, CountInv, Zero
<1>2. CountInv => RestartsBounded
  BY DEF CountInv, RestartsBounded
<1> QED
  BY <1>1, <1>2, CountNext, TypeCorrect, PTL DEF Spec

-----------------------------------------------------------------------------
(* What an apply leaves *)

\* How far the apply of o is that nothing disturbed: it is alone, with the roles that
\* mesh.yaml names; the runlevel is right for the services it has gone through, and
\* in its second half so is what runs, once macula-mesh was restarted.
Halfway(o) ==
  /\ Applying(o) /\ want[o] = mesh
  /\ \A q \in Operators : Applying(q) => q = o
  /\ pc[o] = "enlist" =>
       \A s \in Services \ todo[o] : s \in enabled <=> s \in {Peer} \cup mesh
  /\ pc[o] = "restart" =>
       /\ enabled = {Peer} \cup mesh /\ mesh \subseteq rules
       /\ todo[o] \subseteq {Peer} \cup mesh
       /\ Peer \in todo[o] => mesh \subseteq todo[o]
       /\ Peer \notin todo[o] => /\ Peer \in running
                                 /\ running \cap Roles \subseteq mesh
                                 /\ mesh \ todo[o] \subseteq running

SettleInv ==
  /\ RolesSettled
  /\ settled => \A q \in Operators : Applying(q) => want[q] = mesh
  /\ \A o \in clean : Halfway(o)

\* A restart that nothing fails in does not start what mesh.yaml does not name, nor
\* stop what it names.
LEMMA RestartKeeps ==
  ASSUME RcTypeOK, NEW s \in Services, Restart(s), ~(settled' = FALSE /\ clean' = {})
  PROVE  /\ UNCHANGED <<settled, clean, mesh, enabled>>
         /\ rules \subseteq rules'
         /\ s = Peer => Peer \in running' /\ running' \cap Roles \subseteq mesh
         /\ Peer \in running /\ running \cap Roles \subseteq mesh =>
              /\ Peer \in running' /\ running' \cap Roles \subseteq mesh
              /\ running \cap mesh \subseteq running'
              /\ s \in mesh => s \in running'
<1>1. ~Trouble
  BY DEF Trouble, Disturb
<1>2. running' = (running \ Stopped(s)) \cup Comes(s, {})
  BY <1>1 DEF Restart
<1>3. UNCHANGED <<settled, clean, mesh, enabled>> /\ rules \subseteq rules'
  BY <1>1 DEF Restart, history
<1>4. s = Peer \/ s \in Roles
  BY DEF Services
<1>5. s = Peer => Peer \in running' /\ running' \cap Roles \subseteq mesh
  BY <1>2 DEF Stopped, Started, Comes, Refused, Roles, Peer
<1>6. CASE s = Peer
  BY <1>2, <1>3, <1>5, <1>6 DEF Stopped, Started, Comes, Refused, Roles, Peer, RcTypeOK
<1>7. CASE s \in Roles
  BY <1>2, <1>3, <1>5, <1>7 DEF Stopped, Started, Comes, Refused, Roles, Peer, RcTypeOK
<1> QED
  BY <1>4, <1>6, <1>7

\* If something failed, there is nothing to show.
LEMMA Disturbed == ASSUME settled' = FALSE, clean' = {} PROVE SettleInv'
  BY DEF SettleInv, RolesSettled

\* A restart by the watch, or by an apply for the service at hand.
LEMMA RestartSettled ==
  ASSUME TypeOK, SettleInv, NEW s \in Services, Restart(s)
  PROVE  RolesSettled'
<1>1. CASE settled' = FALSE
  BY <1>1 DEF RolesSettled
<1>2. CASE settled' # FALSE
  <2>1. UNCHANGED <<settled, clean, mesh, enabled>> /\ rules \subseteq rules'
    BY <1>2, RestartKeeps DEF TypeOK
  <2>2. RcTypeOK'
    BY RestartType DEF TypeOK
  <2> SUFFICES ASSUME settled PROVE RolesSettled'
    BY <2>1 DEF RolesSettled
  <2>3. running = {Peer} \cup mesh /\ enabled = {Peer} \cup mesh /\ mesh \subseteq rules
    BY DEF SettleInv, RolesSettled
  <2>4. mesh \subseteq Roles /\ Peer \notin Roles
    BY DEF TypeOK, RcTypeOK, Roles, Peer
  <2>5. /\ Peer \in running' /\ running' \cap Roles \subseteq mesh
        /\ running \cap mesh \subseteq running'
    BY <1>2, <2>3, <2>4, RestartKeeps DEF TypeOK
  <2>6. running' = {Peer} \cup mesh
    BY <2>2, <2>3, <2>4, <2>5 DEF RcTypeOK, Services
  <2> QED
    BY <2>1, <2>3, <2>6 DEF RolesSettled
<1> QED
  BY <1>1, <1>2

\* Every step of an operator.
LEMMA MeshSettles ==
  ASSUME TypeOK, SettleInv, NEW o \in Operators,
         \/ Configure(o) \/ Truncate(o) \/ Write(o) \/ WriteFails(o) \/ Decline(o)
         \/ Read(o) \/ SetRunlevel(o) \/ ConfigureFirewall(o) \/ RestartNext(o)
         \/ Applied(o)
  PROVE  SettleInv'
<1> USE DEF Goto, Applying
<1>t. /\ pc \in [Operators -> {"idle", "truncate", "write", "ask", "enlist", "restart"}]
      /\ want \in [Operators -> SUBSET Roles]
      /\ todo \in [Operators -> SUBSET Services] /\ clean \subseteq Operators
      /\ settled \in BOOLEAN
  BY DEF TypeOK, MeshTypeOK, RcTypeOK
<1>1. CASE Configure(o)
  BY <1>1, <1>t DEF Configure, SettleInv, RolesSettled, Halfway, history
<1>2. CASE Truncate(o)
  BY <1>2, Disturbed DEF Truncate, Disturb
<1>3. CASE Write(o)
  BY <1>3, Disturbed DEF Write, Disturb
<1>4. CASE WriteFails(o)
  BY <1>4, Disturbed DEF WriteFails, Trouble, Disturb
<1>5. CASE Decline(o)
  BY <1>5, <1>t DEF Decline, Ends, rcVars, history, SettleInv, RolesSettled, Halfway
<1>6. CASE Read(o)
  <2>1. /\ want' = [want EXCEPT ![o] = mesh] /\ todo' = [todo EXCEPT ![o] = Services]
        /\ pc' = [pc EXCEPT ![o] = "enlist"]
        /\ clean' = IF \E q \in Operators : Applying(q) THEN {} ELSE {o}
        /\ UNCHANGED <<mesh, enabled, running, rules, settled>>
    BY <1>6 DEF Read
  <2>2. RolesSettled'
    BY <2>1 DEF SettleInv, RolesSettled
  <2>3. settled' => \A q \in Operators : Applying(q)' => want'[q] = mesh'
    BY <2>1, <1>t DEF SettleInv
  <2>4. ASSUME NEW q \in clean' PROVE Halfway(q)'
    <3>1. q = o /\ \A r \in Operators : ~Applying(r)
      BY <2>1, <2>4
    <3>2. Applying(o)' /\ want'[o] = mesh' /\ \A r \in Operators : Applying(r)' => r = o
      BY <2>1, <3>1, <1>t
    <3>3. pc'[o] = "enlist" /\ todo'[o] = Services
      BY <2>1, <1>t
    <3> QED
      BY <3>1, <3>2, <3>3 DEF Halfway
  <2> QED
    BY <2>2, <2>3, <2>4 DEF SettleInv
<1>7. CASE SetRunlevel(o)
  <2> DEFINE s == First(todo[o])
  <2>1. s \in todo[o] /\ s \in Services /\ pc[o] = "enlist"
    BY <1>7, <1>t, FirstOf DEF SetRunlevel
  <2>2. CASE Trouble
    BY <2>2, Disturbed DEF Trouble, Disturb
  <2>3. CASE Enlist(s, s \in {Peer} \cup want[o])
    <3>1. /\ enabled' = IF s \in {Peer} \cup want[o] THEN enabled \cup {s} ELSE enabled \ {s}
          /\ UNCHANGED <<mesh, running, rules, settled, clean>>
      BY <2>3 DEF Enlist, history
    <3>2. todo' = [todo EXCEPT ![o] = todo[o] \ {s}] /\ UNCHANGED <<pc, want>>
      BY <1>7 DEF SetRunlevel
    <3>3. RolesSettled'
      BY <2>1, <3>1 DEF SettleInv, RolesSettled, Services
    <3>4. settled' => \A q \in Operators : Applying(q)' => want'[q] = mesh'
      BY <3>1, <3>2 DEF SettleInv
    <3>5. ASSUME NEW q \in clean' PROVE Halfway(q)'
      <4>1. Halfway(q) /\ q = o
        BY <2>1, <3>1, <3>5 DEF SettleInv, Halfway
      <4>2. \A r \in Services \ todo'[o] : r \in enabled' <=> r \in {Peer} \cup mesh'
        BY <2>1, <3>1, <3>2, <4>1, <1>t DEF Halfway
      <4> QED
        BY <2>1, <3>1, <3>2, <4>1, <4>2, <1>t DEF Halfway
    <3> QED
      BY <3>3, <3>4, <3>5 DEF SettleInv
  <2> QED
    BY <2>2, <2>3, <1>7 DEF SetRunlevel
<1>8. CASE ConfigureFirewall(o)
  <2>0. CASE Trouble
    BY <2>0, Disturbed DEF Trouble, Disturb
  <2>5. CASE rules' = rules \cup want[o] /\ UNCHANGED history
    <3>1. /\ pc[o] = "enlist" /\ todo[o] = {} /\ rules' = rules \cup want[o]
          /\ todo' = [todo EXCEPT ![o] = {Peer} \cup want[o]]
          /\ pc' = [pc EXCEPT ![o] = "restart"]
          /\ UNCHANGED <<mesh, enabled, running, settled, clean, want>>
      BY <1>8, <2>5 DEF ConfigureFirewall, history
    <3>2. RolesSettled'
      BY <3>1 DEF SettleInv, RolesSettled
    <3>3. settled' => \A q \in Operators : Applying(q)' => want'[q] = mesh'
      BY <3>1, <1>t DEF SettleInv
    <3>4. ASSUME NEW q \in clean' PROVE Halfway(q)'
      <4>1. Halfway(q) /\ q = o /\ want[o] = mesh
        BY <3>1, <3>4 DEF SettleInv, Halfway
      <4>2. enabled' = {Peer} \cup mesh'
        <5>1. \A s \in Services : s \in enabled <=> s \in {Peer} \cup mesh
          BY <3>1, <4>1 DEF Halfway
        <5>2. enabled \subseteq Services /\ {Peer} \cup mesh \subseteq Services
          BY DEF TypeOK, RcTypeOK, Services
        <5> QED
          BY <3>1, <5>1, <5>2
      <4>3. mesh' \subseteq rules' /\ todo'[o] = {Peer} \cup mesh' /\ pc'[o] = "restart"
        BY <3>1, <4>1, <1>t
      <4>4. want'[o] = mesh' /\ \A r \in Operators : Applying(r)' => r = o
        BY <3>1, <4>1, <1>t DEF Halfway
      <4> QED
        BY <4>1, <4>2, <4>3, <4>4 DEF Halfway
    <3> QED
      BY <3>2, <3>3, <3>4 DEF SettleInv
  <2> QED
    BY <2>0, <2>5, <1>8 DEF ConfigureFirewall
<1>9. CASE RestartNext(o)
  <2> DEFINE s == First(todo[o])
  <2>1. s \in todo[o] /\ s \in Services /\ pc[o] = "restart" /\ Restart(s)
    BY <1>9, <1>t, FirstOf DEF RestartNext
  <2>2. todo' = [todo EXCEPT ![o] = todo[o] \ {s}] /\ UNCHANGED <<pc, want>>
    BY <1>9 DEF RestartNext
  <2>3. CASE settled' = FALSE /\ clean' = {}
    BY <2>3, Disturbed
  <2>4. CASE ~(settled' = FALSE /\ clean' = {})
    <3>1. /\ UNCHANGED <<settled, clean, mesh, enabled>> /\ rules \subseteq rules'
          /\ s = Peer => Peer \in running' /\ running' \cap Roles \subseteq mesh
          /\ Peer \in running /\ running \cap Roles \subseteq mesh =>
               /\ Peer \in running' /\ running' \cap Roles \subseteq mesh
               /\ running \cap mesh \subseteq running'
               /\ s \in mesh => s \in running'
      BY <2>1, <2>4, RestartKeeps DEF TypeOK
    <3>2. RolesSettled'
      BY <2>1, RestartSettled
    <3>3. settled' => \A q \in Operators : Applying(q)' => want'[q] = mesh'
      BY <2>2, <3>1 DEF SettleInv
    <3>4. ASSUME NEW q \in clean' PROVE Halfway(q)'
      <4>1. Halfway(q) /\ q = o
        BY <2>1, <3>1, <3>4 DEF SettleInv, Halfway
      <4>2. Applying(o)' /\ want'[o] = mesh' /\ \A r \in Operators : Applying(r)' => r = o
        BY <2>2, <3>1, <4>1 DEF Halfway
      <4>3. pc'[o] = "restart" /\ todo'[o] = todo[o] \ {s}
        BY <2>1, <2>2, <1>t
      <4>4. /\ enabled' = {Peer} \cup mesh' /\ mesh' \subseteq rules'
            /\ todo'[o] \subseteq {Peer} \cup mesh'
        BY <2>1, <3>1, <4>1, <4>3 DEF Halfway
      <4>5. Peer \in todo'[o] => mesh' \subseteq todo'[o]
        <5>1. Peer \in todo[o] => s = Peer
          BY DEF First
        <5> QED
          BY <4>3, <5>1
      <4>6. Peer \notin todo'[o] => /\ Peer \in running'
                                    /\ running' \cap Roles \subseteq mesh'
                                    /\ mesh' \ todo'[o] \subseteq running'
        <5>1. CASE Peer \in todo[o]
          <6>1. s = Peer
            BY <5>1 DEF First
          <6>2. mesh \subseteq todo[o] /\ Peer \notin mesh
            BY <2>1, <4>1, <5>1 DEF Halfway, TypeOK, RcTypeOK, Roles, Peer
          <6> QED
            BY <3>1, <4>3, <6>1, <6>2
        <5>2. CASE Peer \notin todo[o]
          <6>1. /\ Peer \in running /\ running \cap Roles \subseteq mesh
                /\ mesh \ todo[o] \subseteq running
            BY <2>1, <4>1, <5>2 DEF Halfway
          <6>2. s \in mesh
            BY <2>1, <4>1, <5>2 DEF Halfway
          <6> QED
            BY <3>1, <4>3, <6>1, <6>2
        <5> QED
          BY <5>1, <5>2
      <4> QED
        BY <4>1, <4>2, <4>3, <4>4, <4>5, <4>6 DEF Halfway
    <3> QED
      BY <3>2, <3>3, <3>4 DEF SettleInv
  <2> QED
    BY <2>3, <2>4
<1>10. CASE Applied(o)
  <2>1. /\ pc[o] = "restart" /\ todo[o] = {}
        /\ settled' = (settled \/ o \in clean) /\ clean' = clean \ {o}
        /\ pc' = [pc EXCEPT ![o] = "idle"] /\ want' = [want EXCEPT ![o] = {}]
        /\ todo' = [todo EXCEPT ![o] = {}]
        /\ UNCHANGED <<mesh, enabled, running, rules>>
    BY <1>10 DEF Applied, Ends
  <2>2. CASE o \in clean
    <3>1. Halfway(o)
      BY <2>2 DEF SettleInv
    <3>2. /\ enabled = {Peer} \cup mesh /\ mesh \subseteq rules /\ Peer \in running
          /\ running \cap Roles \subseteq mesh /\ mesh \subseteq running
      BY <2>1, <3>1 DEF Halfway
    <3>3. running = {Peer} \cup mesh
      BY <3>2 DEF TypeOK, RcTypeOK, Services
    <3>4. RolesSettled'
      BY <2>1, <3>2, <3>3 DEF RolesSettled
    <3>5. \A q \in Operators : ~Applying(q)'
      BY <2>1, <3>1, <1>t DEF Halfway
    <3>6. clean' = {}
      BY <2>1, <3>1, <1>t DEF SettleInv, Halfway
    <3> QED
      BY <3>4, <3>5, <3>6 DEF SettleInv
  <2>3. CASE o \notin clean
    <3>1. settled' = settled /\ clean' = clean
      BY <2>1, <2>3, <1>t
    <3>2. RolesSettled'
      BY <2>1, <3>1 DEF SettleInv, RolesSettled
    <3>3. settled' => \A q \in Operators : Applying(q)' => want'[q] = mesh'
      BY <2>1, <3>1, <1>t DEF SettleInv
    <3>4. clean' = {}
      BY <2>1, <2>3, <3>1, <1>t DEF SettleInv, Halfway
    <3> QED
      BY <3>2, <3>3, <3>4 DEF SettleInv
  <2> QED
    BY <2>2, <2>3
<1> QED
  BY <1>1, <1>2, <1>3, <1>4, <1>5, <1>6, <1>7, <1>8, <1>9, <1>10

\* The watch restarts a service at any time.
LEMMA WatchSettles ==
  ASSUME TypeOK, SettleInv, NEW s \in Services, Restart(s), UNCHANGED meshVars
  PROVE  SettleInv'
<1>1. CASE settled' = FALSE /\ clean' = {}
  BY <1>1, Disturbed
<1>2. CASE ~(settled' = FALSE /\ clean' = {})
  <2>1. /\ UNCHANGED <<settled, clean, mesh, enabled>> /\ rules \subseteq rules'
        /\ Peer \in running /\ running \cap Roles \subseteq mesh =>
             /\ Peer \in running' /\ running' \cap Roles \subseteq mesh
             /\ running \cap mesh \subseteq running'
    BY <1>2, RestartKeeps DEF TypeOK
  <2>2. RolesSettled'
    BY RestartSettled
  <2>3. UNCHANGED <<pc, want, todo>>
    BY DEF meshVars
  <2>4. settled' => \A q \in Operators : Applying(q)' => want'[q] = mesh'
    BY <2>1, <2>3 DEF SettleInv, Applying
  <2>5. ASSUME NEW o \in clean' PROVE Halfway(o)'
    <3>1. Halfway(o)
      BY <2>1, <2>5 DEF SettleInv
    <3> QED
      BY <2>1, <2>3, <3>1 DEF Halfway, Applying
  <2> QED
    BY <2>2, <2>4, <2>5 DEF SettleInv
<1> QED
  BY <1>1, <1>2

LEMMA SettleNext == TypeOK /\ SettleInv /\ [Next]_vars => SettleInv'
<1> SUFFICES ASSUME TypeOK, SettleInv, [Next]_vars PROVE SettleInv'
  OBVIOUS
<1> DEFINE Same == UNCHANGED <<mesh, enabled, running, rules, settled, meshVars>>
<1>1. ASSUME Same, UNCHANGED clean PROVE SettleInv'
  BY <1>1 DEF SettleInv, RolesSettled, Halfway, Applying, meshVars
<1>2. CASE MeshNext
  BY <1>2, MeshSettles DEF MeshNext
<1>3. ASSUME NEW n \in Names, HandleFailure(n), UNCHANGED meshVars PROVE SettleInv'
  <2>1. (n \in Services /\ Restart(n)) \/ UNCHANGED rcVars
    BY <1>3 DEF HandleFailure
  <2>2. CASE UNCHANGED rcVars
    BY <1>1, <1>3, <2>2 DEF rcVars, history
  <2> QED
    BY <1>3, <2>1, <2>2, WatchSettles
<1>4. CASE Edit /\ UNCHANGED meshVars
  BY <1>1, <1>4 DEF Edit, ReadChecks, TruncateChecks, WriteChecks, WriteChecksFails, Fault,
                    rcVars, history
<1>5. CASE (StartWatch \/ RunAllChecks \/ Sleep \/ StopWatch) /\ UNCHANGED meshVars
  BY <1>1, <1>5 DEF StartWatch, RunAllChecks, Sleep, StopWatch, Fault, rcVars, history
<1>6. CASE Reboot
  BY <1>6, Disturbed DEF Reboot, PowerCycle
<1>7. CASE UNCHANGED vars
  BY <1>1, <1>7 DEF vars, rcVars, history
<1> QED
  BY <1>2, <1>3, <1>4, <1>5, <1>6, <1>7 DEF Next, Watch

\* Once an apply has ended that nothing disturbed, what is enabled, runs and is let in is
\* what mesh.yaml asks for, through later applies and restarts by the watch, until the
\* next write or reboot (mesh.go:272-326).
THEOREM SettledStays == Spec => []RolesSettled
<1>1. Init => SettleInv
  BY DEF Init, RcInit, SettleInv, RolesSettled
<1>2. SettleInv => RolesSettled
  BY DEF SettleInv
<1> QED
  BY <1>1, <1>2, SettleNext, TypeCorrect, PTL DEF Spec

=============================================================================
