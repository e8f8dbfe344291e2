---------------------------- MODULE ConfigProofs ----------------------------
(***************************************************************************)
(* For all documents in all sources, any number of calls, edits, failures  *)
(* and reboots: no apply takes away what an earlier one granted            *)
(* (GrantsStay), every call works on a configuration of known fields       *)
(* (TypeCorrect), and the one that comes to its end undisturbed leaves the *)
(* system as the sources say (ApplyConverges).                             *)
(***************************************************************************)
EXTENDS Config, SequenceTheorems, WellFoundedInduction, TLAPS

-----------------------------------------------------------------------------

\* What is a function or a record, and of what.
HostFields == {"there", "local", "name"}

Shape ==
  /\ DOMAIN at = Procs /\ DOMAIN todo = Procs /\ DOMAIN got = Procs
  /\ DOMAIN hosts = HostFields
  /\ \A p \in Procs : /\ DOMAIN got[p] = {"hosts", "keys", "env"}
                      /\ DOMAIN got[p].hosts = HostFields

LEMMA ShapeEnds ==
  ASSUME Shape, NEW p \in Procs, NEW fine, NextApplier(p, fine), UNCHANGED hosts
  PROVE  Shape'
  BY DEF Shape, NextApplier, HostFields, NothingRead, NoHosts

LEMMA ShapeEndsKey ==
  ASSUME Shape, NEW p \in Procs, NEW k, NEW fine, NextKey(p, k, fine), UNCHANGED hosts
  PROVE  Shape'
<1>1. CASE left[p] = {k}
  BY <1>1, ShapeEnds DEF NextKey
<1>2. CASE left[p] # {k}
  <2>1. /\ UNCHANGED <<todo, hosts>> /\ at' = [at EXCEPT ![p] = "key"]
        /\ got' = [got EXCEPT ![p] = NothingRead]
    BY <1>2 DEF NextKey
  <2> QED
    BY <2>1 DEF Shape, HostFields, NothingRead, NoHosts
<1> QED
  BY <1>1, <1>2

\* Every step keeps it.
LEMMA ShapeNext == Shape /\ [Next]_vars => Shape'
<1> SUFFICES ASSUME Shape, [Next]_vars PROVE Shape'
  OBVIOUS
<1> USE DEF Shape, HostFields, NothingRead, NoHosts, fileVars, procVars, worldVars, histVars, bounds
<1>1. ASSUME NEW p \in Procs, ApplySettings(p) PROVE Shape'
  BY <1>1 DEF ApplySettings, Apply, Put, NextApplier
<1>2. ASSUME NEW p \in Procs, LoadModules(p) PROVE Shape'
  BY <1>2 DEF LoadModules, Apply, Put, NextApplier
<1>3. ASSUME NEW p \in Procs, WriteFiles(p) PROVE Shape'
  BY <1>3 DEF WriteFiles, Apply, Put, NextApplier
<1>4. ASSUME NEW p \in Procs, ExecuteCommand(p) PROVE Shape'
  BY <1>4 DEF ExecuteCommand, Apply, Put, NextApplier
<1>5. ASSUME NEW p \in Procs, SetPassword(p) PROVE Shape'
  BY <1>5 DEF SetPassword, Apply, NextApplier
<1>6. ASSUME NEW p \in Procs, ApplyHostname(p) PROVE Shape'
  BY <1>6 DEF ApplyHostname, At, Goto
<1>7. ASSUME NEW p \in Procs, AskName(p) PROVE Shape'
  BY <1>7 DEF AskName, At, Goto
<1>8. ASSUME NEW p \in Procs, WriteName(p) PROVE Shape'
  BY <1>8 DEF WriteName, At, Goto
<1>9. ASSUME NEW p \in Procs, ReadHosts(p) PROVE Shape'
  <2>1. CASE hosts.there
    BY <1>9, <2>1 DEF ReadHosts, Goto
  <2>2. CASE ~(hosts.there)
    <3>1. NextApplier(p, FALSE) /\ UNCHANGED hosts
      BY <1>9, <2>2 DEF ReadHosts
    <3> QED
      BY <3>1, ShapeEnds
  <2> QED
    BY <2>1, <2>2
<1>10. ASSUME NEW p \in Procs, EmptyHosts(p) PROVE Shape'
  BY <1>10 DEF EmptyHosts, At, Goto
<1>11. ASSUME NEW p \in Procs, FillHosts(p) PROVE Shape'
  BY <1>11 DEF FillHosts, At, Goto, NextApplier
<1>12. ASSUME NEW p \in Procs, ApplySSHKeys(p) PROVE Shape'
  <2>1. CASE cfg[p].keys # {}
    BY <1>12, <2>1 DEF ApplySSHKeys, Goto
  <2>2. CASE ~(cfg[p].keys # {})
    <3>1. NextApplier(p, TRUE) /\ UNCHANGED hosts
      BY <1>12, <2>2 DEF ApplySSHKeys
    <3> QED
      BY <3>1, ShapeEnds
  <2> QED
    BY <2>1, <2>2
<1>13. ASSUME NEW p \in Procs, SkipKey(p) PROVE Shape'
  <2>1. PICK k \in left[p] : NextKey(p, k, TRUE)
    BY <1>13 DEF SkipKey
  <2>2. UNCHANGED hosts
    BY <1>13 DEF SkipKey, fileVars
  <2> QED
    BY <2>1, <2>2, ShapeEndsKey
<1>14. ASSUME NEW p \in Procs, ReadKeys(p) PROVE Shape'
  BY <1>14 DEF ReadKeys, At, Goto
<1>15. ASSUME NEW p \in Procs, WriteKeys(p) PROVE Shape'
  <2>1. PICK k \in left[p] : NextKey(p, k, TRUE)
    BY <1>15 DEF WriteKeys
  <2>2. UNCHANGED hosts
    BY <1>15 DEF WriteKeys, fileVars
  <2> QED
    BY <2>1, <2>2, ShapeEndsKey
<1>16. ASSUME NEW p \in Procs, ApplyEnvironment(p) PROVE Shape'
  BY <1>16 DEF ApplyEnvironment, At, Goto
<1>17. ASSUME NEW p \in Procs, EmptyEnvironment(p) PROVE Shape'
  BY <1>17 DEF EmptyEnvironment, At, Goto
<1>18. ASSUME NEW p \in Procs, WriteEnvironment(p) PROVE Shape'
  BY <1>18 DEF WriteEnvironment, At, Goto, NextApplier
<1>19. ASSUME NEW p \in Procs, ApplyK3S(p) PROVE Shape'
  BY <1>19 DEF ApplyK3S, At, Goto, NextApplier
<1>20. ASSUME NEW p \in Procs, ApplyInstall(p) PROVE Shape'
  BY <1>20 DEF ApplyInstall, At, Goto, NextApplier
<1>21. ASSUME NEW p \in Procs, Fail(p) PROVE Shape'
  <2>1. UNCHANGED hosts
    BY <1>21 DEF Fail
  <2>2. \/ NextApplier(p, FALSE)
        \/ \E k \in left[p] : NextKey(p, k, FALSE)
    BY <1>21 DEF Fail
  <2> QED
    BY <2>1, <2>2, ShapeEnds, ShapeEndsKey
<1>22. CASE ConfigInitrd
  BY <1>22 DEF ConfigInitrd
<1>23. CASE ApplyInitrd
  BY <1>23 DEF ApplyInitrd, Start, Running
<1>24. CASE SetupHostname
  BY <1>24 DEF SetupHostname, Phase
<1>25. CASE SetupConfig
  BY <1>25 DEF SetupConfig, Start, Running
<1>26. CASE Runlevels
  BY <1>26 DEF Runlevels, Phase
<1>27. CASE Ccapply
  BY <1>27 DEF Ccapply, Start, Running
<1>28. ASSUME NEW p \in Callers, Call(p) PROVE Shape'
  BY <1>28 DEF Call, Start, Running
<1>29. ASSUME NEW p \in Callers, Configure(p) PROVE Shape'
  BY <1>29 DEF Configure, BeginEdit, Disturbed
<1>30. ASSUME NEW p \in Callers, RunCCApply(p) PROVE Shape'
  BY <1>30 DEF RunCCApply, Start, Running
<1>31. CASE Edit
  BY <1>31 DEF Edit, BeginEdit, Disturbed
<1>32. CASE EndEdit
  BY <1>32 DEF EndEdit, Disturbed
<1>33. CASE Reboot
  BY <1>33 DEF Reboot, NothingRead, NoHosts
<1>34. CASE UNCHANGED vars
  BY <1>34 DEF vars
<1> QED
  BY <1>1, <1>2, <1>3, <1>4, <1>5, <1>6, <1>7, <1>8, <1>9, <1>10, <1>11, <1>12, <1>13,
     <1>14, <1>15, <1>16, <1>17, <1>18, <1>19, <1>20, <1>21, <1>22, <1>23, <1>24, <1>25,
     <1>26, <1>27, <1>28, <1>29, <1>30, <1>31, <1>32, <1>33, <1>34 DEF Next, Applier

\* What a process alone has read of a file is in it until it writes it.
Holds ==
  /\ \A p \in Procs : at[p] # "start" => todo[p] # <<>>
  /\ alone =>
       /\ \A p, q \in Procs : todo[p] # <<>> /\ todo[q] # <<>> => p = q
       /\ \A p \in Procs : at[p] = "write" => got[p].keys = authorized
       /\ ~failed => /\ \A p \in Procs : at[p] \in {"empty", "fill"} => got[p].hosts.local
                     /\ hosts.there /\ (\A p \in Procs : at[p] # "fill") => hosts.local

\* The other processes are where they were.
Mine(p) ==
  \A q \in Procs \ {p} : at'[q] = at[q] /\ got'[q] = got[q] /\ (todo'[q] = <<>> <=> todo[q] = <<>>)

Reading(p) ==
  /\ at[p] = "write" => got[p].keys = authorized
  /\ ~failed => /\ at[p] \in {"empty", "fill"} => got[p].hosts.local
                /\ hosts.there /\ at[p] # "fill" => hosts.local

\* A process that is alone has to see to itself only.
LEMMA Alone ==
  ASSUME Holds, NEW p \in Procs, todo[p] # <<>>, Mine(p), alone' = alone,
         at'[p] # "start" => todo'[p] # <<>>,
         alone => Reading(p)'
  PROVE  Holds'
<1> USE DEF Holds
<1>1. \A q \in Procs : at'[q] # "start" => todo'[q] # <<>>
  BY DEF Mine
<1> SUFFICES ASSUME alone PROVE Holds'
  BY <1>1
<1>2. \A q \in Procs \ {p} : todo'[q] = <<>> /\ at'[q] = "start"
  BY DEF Mine
<1> QED
  BY <1>1, <1>2 DEF Reading

LEMMA Itself == ASSUME Holds, alone, NEW p \in Procs, todo[p] # <<>> PROVE Reading(p)
<1>1. \A q \in Procs \ {p} : at[q] = "start"
  BY DEF Holds
<1> QED
  BY <1>1 DEF Holds, Reading

\* An applier that ends.
LEMMA Ends ==
  ASSUME Shape, NEW p \in Procs, NEW fine, NextApplier(p, fine)
  PROVE  Mine(p) /\ at'[p] = "start" /\ UNCHANGED alone
  BY DEF Shape, NextApplier, Mine

LEMMA EndsKey ==
  ASSUME Shape, NEW p \in Procs, NEW k, NEW fine, NextKey(p, k, fine), todo[p] # <<>>
  PROVE  /\ Mine(p) /\ UNCHANGED alone /\ at'[p] \in {"start", "key"}
         /\ at'[p] # "start" => todo'[p] # <<>>
<1>1. CASE left[p] = {k}
  BY <1>1, Ends DEF NextKey
<1>2. CASE left[p] # {k}
  BY <1>2 DEF NextKey, Shape, Mine
<1> QED
  BY <1>1, <1>2

\* A process that begins.
LEMMA Begins ==
  ASSUME Shape, Holds, NEW p \in Procs, NEW appliers, Start(p, appliers), UNCHANGED failed
  PROVE  Holds'
<1>1. UNCHANGED <<at, got, authorized, hosts, failed>>
  BY DEF Start, fileVars
<1>2. \A q \in Procs \ {p} : todo'[q] = todo[q]
  BY DEF Start, Shape
<1>3. todo[p] = <<>> /\ (alone' => alone /\ Running = {})
  BY DEF Start
<1>4. alone' => \A q \in Procs : todo[q] = <<>>
  BY <1>3 DEF Running
<1>5. \A q \in Procs : at'[q] # "start" => todo'[q] # <<>>
  BY <1>1, <1>2, <1>3 DEF Holds
<1> QED
  BY <1>1, <1>2, <1>3, <1>4, <1>5 DEF Holds

LEMMA Quiet ==
  Holds /\ UNCHANGED <<at, got, todo, authorized, hosts, failed, alone>> => Holds'
  BY DEF Holds

\* Every step keeps it.
LEMMA HoldsNext == Shape /\ Shape' /\ Holds /\ [Next]_vars => Holds'
<1> SUFFICES ASSUME Shape, Shape', Holds, [Next]_vars PROVE Holds'
  OBVIOUS
<1> USE DEF Shape, HostFields, NothingRead, NoHosts, fileVars, procVars, worldVars, histVars, bounds
<1>1. ASSUME NEW p \in Procs, ApplySettings(p) PROVE Holds'
  <2>1. todo[p] # <<>> /\ at[p] \notin {"fill", "empty"}
    BY <1>1 DEF ApplySettings, Apply, Put
  <2>2. Mine(p) /\ UNCHANGED alone /\ (at'[p] # "start" => todo'[p] # <<>>)
    BY <1>1, <2>1, Ends DEF ApplySettings, Apply, Put, Mine
  <2>3. alone => Reading(p)'
    BY <1>1, <2>1, <2>2, Itself, Ends DEF ApplySettings, Apply, Put, Reading
  <2> QED
    BY <2>1, <2>2, <2>3, Alone
<1>2. ASSUME NEW p \in Procs, LoadModules(p) PROVE Holds'
  <2>1. todo[p] # <<>> /\ at[p] \notin {"fill", "empty"}
    BY <1>2 DEF LoadModules, Apply, Put
  <2>2. Mine(p) /\ UNCHANGED alone /\ (at'[p] # "start" => todo'[p] # <<>>)
    BY <1>2, <2>1, Ends DEF LoadModules, Apply, Put, Mine
  <2>3. alone => Reading(p)'
    BY <1>2, <2>1, <2>2, Itself, Ends DEF LoadModules, Apply, Put, Reading
  <2> QED
    BY <2>1, <2>2, <2>3, Alone
<1>3. ASSUME NEW p \in Procs, WriteFiles(p) PROVE Holds'
  <2>1. todo[p] # <<>> /\ at[p] \notin {"fill", "empty"}
    BY <1>3 DEF WriteFiles, Apply, Put
  <2>2. Mine(p) /\ UNCHANGED alone /\ (at'[p] # "start" => todo'[p] # <<>>)
    BY <1>3, <2>1, Ends DEF WriteFiles, Apply, Put, Mine
  <2>3. alone => Reading(p)'
    BY <1>3, <2>1, <2>2, Itself, Ends DEF WriteFiles, Apply, Put, Reading
  <2> QED
    BY <2>1, <2>2, <2>3, Alone
<1>4. ASSUME NEW p \in Procs, ExecuteCommand(p) PROVE Holds'
  <2>1. todo[p] # <<>> /\ at[p] \notin {"fill", "empty"}
    BY <1>4 DEF ExecuteCommand, Apply, Put
  <2>2. Mine(p) /\ UNCHANGED alone /\ (at'[p] # "start" => todo'[p] # <<>>)
    BY <1>4, <2>1, Ends DEF ExecuteCommand, Apply, Put, Mine
  <2>3. alone => Reading(p)'
    BY <1>4, <2>1, <2>2, Itself, Ends DEF ExecuteCommand, Apply, Put, Reading
  <2> QED
    BY <2>1, <2>2, <2>3, Alone
<1>5. ASSUME NEW p \in Procs, SetPassword(p) PROVE Holds'
  <2>1. todo[p] # <<>> /\ at[p] \notin {"fill", "empty"}
    BY <1>5 DEF SetPassword, Apply
  <2>2. Mine(p) /\ UNCHANGED alone /\ (at'[p] # "start" => todo'[p] # <<>>)
    BY <1>5, <2>1, Ends DEF SetPassword, Apply, Mine
  <2>3. alone => Reading(p)'
    BY <1>5, <2>1, <2>2, Itself, Ends DEF SetPassword, Apply, Reading
  <2> QED
    BY <2>1, <2>2, <2>3, Alone
<1>6. ASSUME NEW p \in Procs, ApplyHostname(p) PROVE Holds'
  <2>1. todo[p] # <<>> /\ at[p] \notin {"fill", "empty"}
    BY <1>6 DEF ApplyHostname, At, Goto
  <2>2. Mine(p) /\ UNCHANGED alone /\ (at'[p] # "start" => todo'[p] # <<>>)
    BY <1>6, <2>1, Ends DEF ApplyHostname, At, Goto, Mine
  <2>3. alone => Reading(p)'
    BY <1>6, <2>1, <2>2, Itself, Ends DEF ApplyHostname, At, Goto, Reading
  <2> QED
    BY <2>1, <2>2, <2>3, Alone
<1>7. ASSUME NEW p \in Procs, AskName(p) PROVE Holds'
  <2>1. todo[p] # <<>> /\ at[p] \notin {"fill", "empty"}
    BY <1>7 DEF AskName, At, Goto
  <2>2. Mine(p) /\ UNCHANGED alone /\ (at'[p] # "start" => todo'[p] # <<>>)
    BY <1>7, <2>1, Ends DEF AskName, At, Goto, Mine
  <2>3. alone => Reading(p)'
    BY <1>7, <2>1, <2>2, Itself, Ends DEF AskName, At, Goto, Reading
  <2> QED
    BY <2>1, <2>2, <2>3, Alone
<1>8. ASSUME NEW p \in Procs, WriteName(p) PROVE Holds'
  <2>1. todo[p] # <<>> /\ at[p] \notin {"fill", "empty"}
    BY <1>8 DEF WriteName, At, Goto
  <2>2. Mine(p) /\ UNCHANGED alone /\ (at'[p] # "start" => todo'[p] # <<>>)
    BY <1>8, <2>1, Ends DEF WriteName, At, Goto, Mine
  <2>3. alone => Reading(p)'
    BY <1>8, <2>1, <2>2, Itself, Ends DEF WriteName, At, Goto, Reading
  <2> QED
    BY <2>1, <2>2, <2>3, Alone
<1>9. ASSUME NEW p \in Procs, ReadHosts(p) PROVE Holds'
  <2>1. todo[p] # <<>> /\ at[p] = "hosts" /\ UNCHANGED fileVars /\ UNCHANGED failed
    BY <1>9 DEF ReadHosts, At
  <2>2. Mine(p) /\ UNCHANGED alone /\ (at'[p] # "start" => todo'[p] # <<>>)
    BY <1>9, <2>1, Ends DEF ReadHosts, Goto, Mine
  <2>3. \/ at'[p] = "start"
        \/ at'[p] = "empty" /\ hosts.there /\ got'[p].hosts = hosts
    <3>1. CASE hosts.there
      BY <1>9, <3>1 DEF ReadHosts, Goto, Shape
    <3>2. CASE ~hosts.there
      BY <1>9, <3>2, Ends DEF ReadHosts
    <3> QED
      BY <3>1, <3>2
  <2>4. alone => Reading(p)'
    BY <2>1, <2>2, <2>3, Itself DEF Reading
  <2> QED
    BY <2>1, <2>2, <2>4, Alone
<1>10. ASSUME NEW p \in Procs, EmptyHosts(p) PROVE Holds'
  <2>1. todo[p] # <<>> /\ at[p] = "empty"
    BY <1>10 DEF EmptyHosts, At, Goto
  <2>2. Mine(p) /\ UNCHANGED alone /\ (at'[p] # "start" => todo'[p] # <<>>)
    BY <1>10, <2>1, Ends DEF EmptyHosts, At, Goto, Mine
  <2>3. alone => Reading(p)'
    BY <1>10, <2>1, <2>2, Itself, Ends DEF EmptyHosts, At, Goto, Reading
  <2> QED
    BY <2>1, <2>2, <2>3, Alone
<1>11. ASSUME NEW p \in Procs, FillHosts(p) PROVE Holds'
  <2>1. todo[p] # <<>> /\ at[p] = "fill"
    BY <1>11 DEF FillHosts, At, Goto
  <2>2. Mine(p) /\ UNCHANGED alone /\ (at'[p] # "start" => todo'[p] # <<>>)
    BY <1>11, <2>1, Ends DEF FillHosts, At, Goto, Mine
  <2>3. alone => Reading(p)'
    BY <1>11, <2>1, <2>2, Itself, Ends DEF FillHosts, At, Goto, Reading
  <2> QED
    BY <2>1, <2>2, <2>3, Alone
<1>12. ASSUME NEW p \in Procs, ApplySSHKeys(p) PROVE Holds'
  <2>1. todo[p] # <<>> /\ at[p] \notin {"fill", "empty"}
    BY <1>12 DEF ApplySSHKeys, At, Goto
  <2>2. Mine(p) /\ UNCHANGED alone /\ (at'[p] # "start" => todo'[p] # <<>>)
    BY <1>12, <2>1, Ends DEF ApplySSHKeys, At, Goto, Mine
  <2>3. alone => Reading(p)'
    BY <1>12, <2>1, <2>2, Itself, Ends DEF ApplySSHKeys, At, Goto, Reading
  <2> QED
    BY <2>1, <2>2, <2>3, Alone
<1>13. ASSUME NEW p \in Procs, SkipKey(p) PROVE Holds'
  <2>1. PICK k \in left[p] : NextKey(p, k, TRUE)
    BY <1>13 DEF SkipKey
  <2>2. todo[p] # <<>> /\ at[p] \in {"key", "write"}
    BY <1>13 DEF SkipKey, At
  <2>3. Mine(p) /\ UNCHANGED alone /\ at'[p] \in {"start", "key"} /\ (at'[p] # "start" => todo'[p] # <<>>)
    BY <2>1, <2>2, EndsKey
  <2>4. alone => Reading(p)'
    BY <1>13, <2>2, <2>3, Itself DEF SkipKey, Reading, fileVars
  <2> QED
    BY <2>2, <2>3, <2>4, Alone
<1>14. ASSUME NEW p \in Procs, ReadKeys(p) PROVE Holds'
  <2>1. todo[p] # <<>> /\ at[p] \notin {"fill", "empty"}
    BY <1>14 DEF ReadKeys, At, Goto
  <2>2. Mine(p) /\ UNCHANGED alone /\ (at'[p] # "start" => todo'[p] # <<>>)
    BY <1>14, <2>1, Ends DEF ReadKeys, At, Goto, Mine
  <2>3. alone => Reading(p)'
    BY <1>14, <2>1, <2>2, Itself, Ends DEF ReadKeys, At, Goto, Reading
  <2> QED
    BY <2>1, <2>2, <2>3, Alone
<1>15. ASSUME NEW p \in Procs, WriteKeys(p) PROVE Holds'
  <2>1. PICK k \in left[p] : NextKey(p, k, TRUE)
    BY <1>15 DEF WriteKeys
  <2>2. todo[p] # <<>> /\ at[p] \in {"key", "write"}
    BY <1>15 DEF WriteKeys, At
  <2>3. Mine(p) /\ UNCHANGED alone /\ at'[p] \in {"start", "key"} /\ (at'[p] # "start" => todo'[p] # <<>>)
    BY <2>1, <2>2, EndsKey
  <2>4. alone => Reading(p)'
    BY <1>15, <2>2, <2>3, Itself DEF WriteKeys, Reading, fileVars
  <2> QED
    BY <2>2, <2>3, <2>4, Alone
<1>16. ASSUME NEW p \in Procs, ApplyEnvironment(p) PROVE Holds'
  <2>1. todo[p] # <<>> /\ at[p] \notin {"fill", "empty"}
    BY <1>16 DEF ApplyEnvironment, At, Goto
  <2>2. Mine(p) /\ UNCHANGED alone /\ (at'[p] # "start" => todo'[p] # <<>>)
    BY <1>16, <2>1, Ends DEF ApplyEnvironment, At, Goto, Mine
  <2>3. alone => Reading(p)'
    BY <1>16, <2>1, <2>2, Itself, Ends DEF ApplyEnvironment, At, Goto, Reading
  <2> QED
    BY <2>1, <2>2, <2>3, Alone
<1>17. ASSUME NEW p \in Procs, EmptyEnvironment(p) PROVE Holds'
  <2>1. todo[p] # <<>> /\ at[p] \notin {"fill", "empty"}
    BY <1>17 DEF EmptyEnvironment, At, Goto
  <2>2. Mine(p) /\ UNCHANGED alone /\ (at'[p] # "start" => todo'[p] # <<>>)
    BY <1>17, <2>1, Ends DEF EmptyEnvironment, At, Goto, Mine
  <2>3. alone => Reading(p)'
    BY <1>17, <2>1, <2>2, Itself, Ends DEF EmptyEnvironment, At, Goto, Reading
  <2> QED
    BY <2>1, <2>2, <2>3, Alone
<1>18. ASSUME NEW p \in Procs, WriteEnvironment(p) PROVE Holds'
  <2>1. todo[p] # <<>> /\ at[p] \notin {"fill", "empty"}
    BY <1>18 DEF WriteEnvironment, At, Goto
  <2>2. Mine(p) /\ UNCHANGED alone /\ (at'[p] # "start" => todo'[p] # <<>>)
    BY <1>18, <2>1, Ends DEF WriteEnvironment, At, Goto, Mine
  <2>3. alone => Reading(p)'
    BY <1>18, <2>1, <2>2, Itself, Ends DEF WriteEnvironment, At, Goto, Reading
  <2> QED
    BY <2>1, <2>2, <2>3, Alone
<1>19. ASSUME NEW p \in Procs, ApplyK3S(p) PROVE Holds'
  <2>1. todo[p] # <<>> /\ at[p] \notin {"fill", "empty"}
    BY <1>19 DEF ApplyK3S, At, Goto
  <2>2. Mine(p) /\ UNCHANGED alone /\ (at'[p] # "start" => todo'[p] # <<>>)
    BY <1>19, <2>1, Ends DEF ApplyK3S, At, Goto, Mine
  <2>3. alone => Reading(p)'
    BY <1>19, <2>1, <2>2, Itself, Ends DEF ApplyK3S, At, Goto, Reading
  <2> QED
    BY <2>1, <2>2, <2>3, Alone
<1>20. ASSUME NEW p \in Procs, ApplyInstall(p) PROVE Holds'
  <2>1. todo[p] # <<>> /\ at[p] \notin {"fill", "empty"}
    BY <1>20 DEF ApplyInstall, At, Goto
  <2>2. Mine(p) /\ UNCHANGED alone /\ (at'[p] # "start" => todo'[p] # <<>>)
    BY <1>20, <2>1, Ends DEF ApplyInstall, At, Goto, Mine
  <2>3. alone => Reading(p)'
    BY <1>20, <2>1, <2>2, Itself, Ends DEF ApplyInstall, At, Goto, Reading
  <2> QED
    BY <2>1, <2>2, <2>3, Alone
<1>21. ASSUME NEW p \in Procs, Fail(p) PROVE Holds'
  <2>1. todo[p] # <<>> /\ failed' /\ UNCHANGED fileVars
    BY <1>21 DEF Fail
  <2>2. \/ NextApplier(p, FALSE)
        \/ \E k \in left[p] : NextKey(p, k, FALSE)
    BY <1>21 DEF Fail
  <2>3. /\ Mine(p) /\ UNCHANGED alone /\ at'[p] \in {"start", "key"}
        /\ at'[p] # "start" => todo'[p] # <<>>
    BY <2>1, <2>2, Ends, EndsKey
  <2>4. alone => Reading(p)'
    BY <2>1, <2>3 DEF Reading
  <2> QED
    BY <2>1, <2>3, <2>4, Alone
<1>22. CASE ConfigInitrd
  <2>1. UNCHANGED <<at, got, todo, authorized, hosts, failed, alone>>
    BY <1>22 DEF ConfigInitrd, fileVars, procVars
  <2> QED
    BY <2>1, Quiet
<1>23. CASE ApplyInitrd
  BY <1>23, Begins DEF ApplyInitrd, Procs
<1>24. CASE SetupHostname
  <2>1. UNCHANGED <<at, got, todo, authorized, failed, alone>> /\ hosts'.local
    BY <1>24 DEF SetupHostname, Phase
  <2> QED
    BY <2>1 DEF Holds
<1>25. CASE SetupConfig
  BY <1>25, Begins DEF SetupConfig, Procs
<1>26. CASE Runlevels
  <2>1. UNCHANGED <<at, got, todo, authorized, hosts, failed, alone>>
    BY <1>26 DEF Runlevels, Phase, fileVars, procVars
  <2> QED
    BY <2>1, Quiet
<1>27. CASE Ccapply
  BY <1>27, Begins DEF Ccapply, Procs
<1>28. ASSUME NEW p \in Callers, Call(p) PROVE Holds'
  <2>1. PICK appliers \in {RunApply, InstallApply} : Start(p, appliers)
    BY <1>28 DEF Call
  <2> QED
    BY <1>28, <2>1, Begins DEF Call, Procs
<1>29. ASSUME NEW p \in Callers, Configure(p) PROVE Holds'
  <2>1. UNCHANGED <<at, got, todo, authorized, hosts, failed, alone>>
    BY <1>29 DEF Configure, BeginEdit, Disturbed, fileVars, procVars
  <2> QED
    BY <2>1, Quiet
<1>30. ASSUME NEW p \in Callers, RunCCApply(p) PROVE Holds'
  BY <1>30, Begins DEF RunCCApply, Procs
<1>31. CASE Edit
  <2>1. UNCHANGED <<at, got, todo, authorized, hosts, failed, alone>>
    BY <1>31 DEF Edit, BeginEdit, Disturbed, fileVars, procVars
  <2> QED
    BY <2>1, Quiet
<1>32. CASE EndEdit
  <2>1. UNCHANGED <<at, got, todo, authorized, hosts, failed, alone>>
    BY <1>32 DEF EndEdit, Disturbed, fileVars, procVars
  <2> QED
    BY <2>1, Quiet
<1>33. CASE Reboot
  <2>1. /\ \A p \in Procs : todo'[p] = <<>> /\ at'[p] = "start"
        /\ hosts' = NoHosts
    BY <1>33 DEF Reboot
  <2> QED
    BY <2>1 DEF Holds
<1>34. CASE UNCHANGED vars
  BY <1>34, Quiet DEF vars
<1> QED
  BY <1>1, <1>2, <1>3, <1>4, <1>5, <1>6, <1>7, <1>8, <1>9, <1>10, <1>11, <1>12, <1>13,
     <1>14, <1>15, <1>16, <1>17, <1>18, <1>19, <1>20, <1>21, <1>22, <1>23, <1>24, <1>25,
     <1>26, <1>27, <1>28, <1>29, <1>30, <1>31, <1>32, <1>33, <1>34 DEF Next, Applier

LEMMA HostsStay ==
  ASSUME Holds', alone', mode = "local" => authorized \subseteq authorized'
  PROVE  Kept
  BY DEF Holds, Kept

\* No step takes anything away.
LEMMA KeptNext == Shape /\ Holds /\ Holds' /\ alone' /\ [Next]_vars => Kept
<1> SUFFICES ASSUME Shape, Holds, Holds', alone', [Next]_vars PROVE Kept
  OBVIOUS
<1> USE DEF Shape, HostFields, NothingRead, NoHosts, fileVars, procVars, worldVars, histVars, bounds
<1>1. ASSUME NEW p \in Procs, ApplySettings(p) PROVE Kept
  <2>1. mode = "local" => authorized \subseteq authorized'
    BY <1>1 DEF ApplySettings, Apply, Put, NextApplier
  <2> QED
    BY <2>1, HostsStay
<1>2. ASSUME NEW p \in Procs, LoadModules(p) PROVE Kept
  <2>1. mode = "local" => authorized \subseteq authorized'
    BY <1>2 DEF LoadModules, Apply, Put, NextApplier
  <2> QED
    BY <2>1, HostsStay
<1>3. ASSUME NEW p \in Procs, WriteFiles(p) PROVE Kept
  <2>1. mode = "local" => authorized \subseteq authorized'
    BY <1>3 DEF WriteFiles, Apply, Put, NextApplier
  <2> QED
    BY <2>1, HostsStay
<1>4. ASSUME NEW p \in Procs, ExecuteCommand(p) PROVE Kept
  <2>1. mode = "local" => authorized \subseteq authorized'
    BY <1>4 DEF ExecuteCommand, Apply, Put, NextApplier
  <2> QED
    BY <2>1, HostsStay
<1>5. ASSUME NEW p \in Procs, SetPassword(p) PROVE Kept
  <2>1. mode = "local" => authorized \subseteq authorized'
    BY <1>5 DEF SetPassword, Apply, NextApplier
  <2> QED
    BY <2>1, HostsStay
<1>6. ASSUME NEW p \in Procs, ApplyHostname(p) PROVE Kept
  <2>1. mode = "local" => authorized \subseteq authorized'
    BY <1>6 DEF ApplyHostname, At, Goto
  <2> QED
    BY <2>1, HostsStay
<1>7. ASSUME NEW p \in Procs, AskName(p) PROVE Kept
  <2>1. mode = "local" => authorized \subseteq authorized'
    BY <1>7 DEF AskName, At, Goto
  <2> QED
    BY <2>1, HostsStay
<1>8. ASSUME NEW p \in Procs, WriteName(p) PROVE Kept
  <2>1. mode = "local" => authorized \subseteq authorized'
    BY <1>8 DEF WriteName, At, Goto
  <2> QED
    BY <2>1, HostsStay
<1>9. ASSUME NEW p \in Procs, ReadHosts(p) PROVE Kept
  <2>1. mode = "local" => authorized \subseteq authorized'
    BY <1>9 DEF ReadHosts, At, Goto, NextApplier
  <2> QED
    BY <2>1, HostsStay
<1>10. ASSUME NEW p \in Procs, EmptyHosts(p) PROVE Kept
  <2>1. mode = "local" => authorized \subseteq authorized'
    BY <1>10 DEF EmptyHosts, At, Goto
  <2> QED
    BY <2>1, HostsStay
<1>11. ASSUME NEW p \in Procs, FillHosts(p) PROVE Kept
  <2>1. mode = "local" => authorized \subseteq authorized'
    BY <1>11 DEF FillHosts, At, Goto, NextApplier
  <2> QED
    BY <2>1, HostsStay
<1>12. ASSUME NEW p \in Procs, ApplySSHKeys(p) PROVE Kept
  <2>1. mode = "local" => authorized \subseteq authorized'
    BY <1>12 DEF ApplySSHKeys, At, Goto, NextApplier
  <2> QED
    BY <2>1, HostsStay
<1>13. ASSUME NEW p \in Procs, SkipKey(p) PROVE Kept
  <2>1. mode = "local" => authorized \subseteq authorized'
    BY <1>13 DEF SkipKey, At, NextKey, NextApplier
  <2> QED
    BY <2>1, HostsStay
<1>14. ASSUME NEW p \in Procs, ReadKeys(p) PROVE Kept
  <2>1. mode = "local" => authorized \subseteq authorized'
    BY <1>14 DEF ReadKeys, At, Goto
  <2> QED
    BY <2>1, HostsStay
<1>15. ASSUME NEW p \in Procs, WriteKeys(p) PROVE Kept
  <2>1. alone /\ todo[p] # <<>> /\ at[p] = "write"
    BY <1>15 DEF WriteKeys, At, NextKey, NextApplier
  <2>2. got[p].keys = authorized
    BY <2>1 DEF Holds
  <2>3. authorized \subseteq authorized'
    BY <1>15, <2>2 DEF WriteKeys
  <2> QED
    BY <2>3, HostsStay
<1>16. ASSUME NEW p \in Procs, ApplyEnvironment(p) PROVE Kept
  <2>1. mode = "local" => authorized \subseteq authorized'
    BY <1>16 DEF ApplyEnvironment, At, Goto
  <2> QED
    BY <2>1, HostsStay
<1>17. ASSUME NEW p \in Procs, EmptyEnvironment(p) PROVE Kept
  <2>1. mode = "local" => authorized \subseteq authorized'
    BY <1>17 DEF EmptyEnvironment, At, Goto
  <2> QED
    BY <2>1, HostsStay
<1>18. ASSUME NEW p \in Procs, WriteEnvironment(p) PROVE Kept
  <2>1. mode = "local" => authorized \subseteq authorized'
    BY <1>18 DEF WriteEnvironment, At, Goto, NextApplier
  <2> QED
    BY <2>1, HostsStay
<1>19. ASSUME NEW p \in Procs, ApplyK3S(p) PROVE Kept
  <2>1. mode = "local" => authorized \subseteq authorized'
    BY <1>19 DEF ApplyK3S, At, Goto, NextApplier
  <2> QED
    BY <2>1, HostsStay
<1>20. ASSUME NEW p \in Procs, ApplyInstall(p) PROVE Kept
  <2>1. mode = "local" => authorized \subseteq authorized'
    BY <1>20 DEF ApplyInstall, At, Goto, NextApplier
  <2> QED
    BY <2>1, HostsStay
<1>21. ASSUME NEW p \in Procs, Fail(p) PROVE Kept
  <2>1. mode = "local" => authorized \subseteq authorized'
    BY <1>21 DEF Fail, NextKey, NextApplier
  <2> QED
    BY <2>1, HostsStay
<1>22. CASE ConfigInitrd
  <2>1. mode = "local" => authorized \subseteq authorized'
    BY <1>22 DEF ConfigInitrd
  <2> QED
    BY <2>1, HostsStay
<1>23. CASE ApplyInitrd
  <2>1. mode = "local" => authorized \subseteq authorized'
    BY <1>23 DEF ApplyInitrd, Start, Running
  <2> QED
    BY <2>1, HostsStay
<1>24. CASE SetupHostname
  <2>1. mode = "local" => authorized \subseteq authorized'
    BY <1>24 DEF SetupHostname, Phase
  <2> QED
    BY <2>1, HostsStay
<1>25. CASE SetupConfig
  <2>1. mode = "local" => authorized \subseteq authorized'
    BY <1>25 DEF SetupConfig, Start, Running
  <2> QED
    BY <2>1, HostsStay
<1>26. CASE Runlevels
  <2>1. mode = "local" => authorized \subseteq authorized'
    BY <1>26 DEF Runlevels, Phase
  <2> QED
    BY <2>1, HostsStay
<1>27. CASE Ccapply
  <2>1. mode = "local" => authorized \subseteq authorized'
    BY <1>27 DEF Ccapply, Start, Running
  <2> QED
    BY <2>1, HostsStay
<1>28. ASSUME NEW p \in Callers, Call(p) PROVE Kept
  <2>1. mode = "local" => authorized \subseteq authorized'
    BY <1>28 DEF Call, Start, Running
  <2> QED
    BY <2>1, HostsStay
<1>29. ASSUME NEW p \in Callers, Configure(p) PROVE Kept
  <2>1. mode = "local" => authorized \subseteq authorized'
    BY <1>29 DEF Configure, BeginEdit, Disturbed
  <2> QED
    BY <2>1, HostsStay
<1>30. ASSUME NEW p \in Callers, RunCCApply(p) PROVE Kept
  <2>1. mode = "local" => authorized \subseteq authorized'
    BY <1>30 DEF RunCCApply, Start, Running
  <2> QED
    BY <2>1, HostsStay
<1>31. CASE Edit
  <2>1. mode = "local" => authorized \subseteq authorized'
    BY <1>31 DEF Edit, BeginEdit, Disturbed
  <2> QED
    BY <2>1, HostsStay
<1>32. CASE EndEdit
  <2>1. mode = "local" => authorized \subseteq authorized'
    BY <1>32 DEF EndEdit, Disturbed
  <2> QED
    BY <2>1, HostsStay
<1>33. CASE Reboot
  <2>1. mode = "local" => authorized \subseteq authorized'
    BY <1>33 DEF Reboot, NothingRead, NoHosts
  <2> QED
    BY <2>1, HostsStay
<1>34. CASE UNCHANGED vars
  BY <1>34, HostsStay DEF vars
<1> QED
  BY <1>1, <1>2, <1>3, <1>4, <1>5, <1>6, <1>7, <1>8, <1>9, <1>10, <1>11, <1>12, <1>13,
     <1>14, <1>15, <1>16, <1>17, <1>18, <1>19, <1>20, <1>21, <1>22, <1>23, <1>24, <1>25,
     <1>26, <1>27, <1>28, <1>29, <1>30, <1>31, <1>32, <1>33, <1>34 DEF Next, Applier

\* An authorized key stays, also through a crash between any two steps, and so do the
\* lines of /etc/hosts, unless two calls overlap or a write fails (ssh.go:107-130,
\* hostname.go:38-54).
THEOREM GrantsStay == Spec => KeysKept
<1>1. ASSUME Init PROVE Shape /\ Holds
  <2>1. /\ todo = [p \in Procs |-> <<>>] /\ at = [p \in Procs |-> "start"]
        /\ got = [p \in Procs |-> NothingRead] /\ hosts = NoHosts
    BY <1>1 DEF Init
  <2> QED
    BY <2>1 DEF Shape, Holds, HostFields, NothingRead, NoHosts
<1>2. Shape /\ Holds /\ [Next]_vars => Shape' /\ Holds'
  BY ShapeNext, HoldsNext
<1>3. Shape /\ Holds /\ Holds' /\ [Next]_vars => (alone' => Kept)
  BY KeptNext
<1> QED
  BY <1>1, <1>2, <1>3, PTL DEF Spec, KeysKept

-----------------------------------------------------------------------------
(* What the operators of the model compute.                                 *)

\* A set of numbers has a least one.
LEMMA LeastOf ==
  ASSUME NEW B \in SUBSET Nat, B # {}
  PROVE  Min(B) \in B /\ \A y \in B : Min(B) <= y
<1> DEFINE R == OpToRel(<, Nat)
<1>1. \E x \in B : \A y \in B : <<y, x>> \notin R
  BY NatLessThanWellFounded, WFMin
<1>2. \A x, y \in Nat : <<y, x>> \in R <=> y < x
  BY DEF OpToRel
<1> HIDE DEF R
<1>3. \E x \in B : \A y \in B : x <= y
  <2>1. PICK x \in B : \A y \in B : <<y, x>> \notin R
    BY <1>1
  <2>2. ASSUME NEW y \in B PROVE x <= y
    <3>1. ~(y < x) /\ x \in Nat /\ y \in Nat
      BY <1>2, <2>1
    <3> QED
      BY <3>1
  <2> QED
    BY <2>2
<1> QED
  BY <1>3 DEF Min

\* What there is to apply.
Appliers == Fields \cup Always

\* Of the appliers that are left, none that has something to do is passed over.
LEMMA Busy ==
  ASSUME NEW s \in Seq(Appliers), NEW doc
  PROVE  /\ FromBusy(s, doc) \in Seq(Appliers)
         /\ Range(FromBusy(s, doc)) \subseteq Range(s)
         /\ FromBusy(s, doc) # <<>> => Head(FromBusy(s, doc)) \in DOMAIN doc \cup Always
         /\ \A f \in Range(s) : f \in DOMAIN doc \cup Always => f \in Range(FromBusy(s, doc))
<1> DEFINE busy == {i \in 1 .. Len(s) : s[i] \in Always \/ s[i] \in DOMAIN doc}
           r == FromBusy(s, doc)
<1>0. Len(s) \in Nat /\ DOMAIN s = 1 .. Len(s) /\ \A i \in 1 .. Len(s) : s[i] \in Appliers
  OBVIOUS
<1>1. CASE busy = {}
  <2>1. r = <<>>
    BY <1>1 DEF FromBusy
  <2>2. Range(r) = {}
    BY <2>1 DEF Range
  <2> QED
    BY <1>0, <1>1, <2>1, <2>2 DEF Range
<1>2. CASE busy # {}
  <2> DEFINE m == Min(busy)
             n == Len(s)
  <2>0. busy \in SUBSET Nat
    BY <1>0
  <2>2. r = SubSeq(s, m, n)
    BY <1>2 DEF FromBusy
  <2>1. m \in busy /\ \A i \in busy : m <= i
    <3> HIDE DEF busy
    <3> QED
      BY <1>2, <2>0, LeastOf
  <2>3. m \in 1 .. n
    BY <2>1
  <2> HIDE DEF r, busy, m
  <2>4. /\ r \in Seq(Appliers) /\ Len(r) = n - m + 1
        /\ \A i \in 1 .. n - m + 1 : r[i] = s[m + i - 1]
    BY <1>0, <2>2, <2>3, SubSeqProperties
  <2>5. DOMAIN r = 1 .. n - m + 1
    BY <2>4, LenProperties
  <2>6. Range(r) \subseteq Range(s)
    <3>1. ASSUME NEW i \in DOMAIN r PROVE r[i] \in Range(s)
      <4>1. m + i - 1 \in DOMAIN s /\ r[i] = s[m + i - 1]
        BY SMTT(60), <1>0, <2>3, <2>4, <2>5
      <4> QED
        BY <4>1 DEF Range
    <3> QED
      BY <3>1 DEF Range
  <2>7. r # <<>> /\ Head(r) = s[m]
    BY <2>3, <2>4
  <2>8. ASSUME NEW i \in 1 .. n, s[i] \in DOMAIN doc \cup Always
        PROVE  s[i] \in Range(r)
    <3>1. i >= m
      BY <2>1, <2>8 DEF busy
    <3>2. i - m + 1 \in DOMAIN r /\ r[i - m + 1] = s[i]
      BY <2>3, <2>4, <2>5, <3>1
    <3> QED
      BY <3>2 DEF Range
  <2>9. s[m] \in DOMAIN doc \cup Always
    BY <2>1 DEF busy
  <2> QED
    BY <1>0, <2>4, <2>6, <2>7, <2>8, <2>9 DEF r, Range
<1> QED
  BY <1>1, <1>2

\* The first of a sequence, and the others.
LEMMA OneLess ==
  ASSUME NEW s \in Seq(Appliers), s # <<>>
  PROVE  /\ Head(s) \in Range(s) /\ Tail(s) \in Seq(Appliers)
         /\ Range(Tail(s)) \subseteq Range(s)
         /\ Range(s) = Range(Tail(s)) \cup {Head(s)}
<1>1. /\ Len(s) \in Nat \ {0} /\ DOMAIN s = 1 .. Len(s)
      /\ Tail(s) \in Seq(Appliers) /\ Len(Tail(s)) = Len(s) - 1
      /\ \A i \in 1 .. Len(s) - 1 : Tail(s)[i] = s[i + 1]
      /\ Head(s) = s[1]
  OBVIOUS
<1>2. DOMAIN Tail(s) = 1 .. Len(s) - 1
  BY <1>1
<1>3. \A i \in 1 .. Len(s) : i = 1 \/ (i - 1 \in 1 .. Len(s) - 1 /\ Tail(s)[i - 1] = s[i])
  BY <1>1
<1>4. \A i \in 1 .. Len(s) - 1 : i + 1 \in 1 .. Len(s)
  BY <1>1
<1>5. Head(s) \in Range(s)
  BY <1>1 DEF Range
<1>6. ASSUME NEW i \in DOMAIN Tail(s) PROVE Tail(s)[i] \in Range(s)
  BY <1>1, <1>2, <1>4 DEF Range
<1>7. ASSUME NEW i \in DOMAIN s PROVE s[i] \in Range(Tail(s)) \cup {Head(s)}
  BY <1>1, <1>2, <1>3 DEF Range
<1>8. Range(Tail(s)) \subseteq Range(s)
  BY <1>6 DEF Range
<1>9. Range(s) \subseteq Range(Tail(s)) \cup {Head(s)}
  BY <1>7 DEF Range
<1> QED
  BY <1>1, <1>5, <1>8, <1>9

LEMMA MaxOfSix ==
  ASSUME NEW s \in SUBSET (1 .. 6), s # {}
  PROVE  Max(s) \in s /\ \A i \in s : i <= Max(s)
<1>1. \E x \in s : \A y \in s : x >= y
  <2>1. \A i \in s : i \in Nat /\ i >= 1 /\ i <= 6
    OBVIOUS
  <2>2. CASE 6 \in s
    BY <2>1, <2>2
  <2>3. CASE 6 \notin s /\ 5 \in s
    <3>1. \A i \in s : i <= 5
      BY <2>1, <2>3
    <3> QED
      BY <2>3, <3>1
  <2>4. CASE 6 \notin s /\ 5 \notin s /\ 4 \in s
    <3>1. \A i \in s : i <= 4
      BY <2>1, <2>4
    <3> QED
      BY <2>4, <3>1
  <2>5. CASE 6 \notin s /\ 5 \notin s /\ 4 \notin s /\ 3 \in s
    <3>1. \A i \in s : i <= 3
      BY <2>1, <2>5
    <3> QED
      BY <2>5, <3>1
  <2>6. CASE 6 \notin s /\ 5 \notin s /\ 4 \notin s /\ 3 \notin s /\ 2 \in s
    <3>1. \A i \in s : i <= 2
      BY <2>1, <2>6
    <3> QED
      BY <2>6, <3>1
  <2>7. CASE 6 \notin s /\ 5 \notin s /\ 4 \notin s /\ 3 \notin s /\ 2 \notin s
    <3>1. \A i \in s : i = 1
      BY <2>1, <2>7
    <3>2. 1 \in s
      BY <3>1
    <3> QED
      BY <3>1, <3>2
  <2> QED
    BY <2>2, <2>3, <2>4, <2>5, <2>6, <2>7
<1>2. PICK x \in s : \A y \in s : x >= y
  BY <1>1
<1>3. Max(s) \in s /\ \A y \in s : Max(s) >= y
  BY <1>2 DEF Max
<1> QED
  BY <1>3

\* The merge of six documents, one over the other: the recursive function behind
\* FoldLeft exists, because the one that merges those of the six in a set is it.
LEMMA FoldOfSix ==
  ASSUME NEW base, NEW d, DOMAIN d = 1 .. 6
  PROVE  FoldLeft(Over, base, d) =
           Over(Over(Over(Over(Over(Over(base, d[1]), d[2]), d[3]), d[4]), d[5]), d[6])
<1> DEFINE S == SUBSET (1 .. 6)
           Body(g, s) == IF s = {} THEN base ELSE Over(g[s \ {Max(s)}], d[Max(s)])
           iter == CHOOSE g : g = [s \in S |-> Body(g, s)]
           Then(i, s, x) == IF i \in s THEN Over(x, d[i]) ELSE x
           To(s) == Then(6, s, Then(5, s, Then(4, s, Then(3, s, Then(2, s, Then(1, s, base))))))
           fold == [s \in S |-> To(s)]
<1>1. FoldLeft(Over, base, d) = iter[1 .. 6]
  BY DEF FoldLeft, MapThenFoldSet
<1>2. ASSUME NEW s \in S PROVE fold[s] = Body(fold, s)
  <2>1. CASE s = {}
    BY <2>1
  <2>2. CASE s # {}
    <3> DEFINE m == Max(s)
               r == s \ {m}
    <3>1. m \in s /\ \A i \in s : i <= m
      BY <2>2, MaxOfSix
    <3> HIDE DEF m
    <3>2. r \in S
      OBVIOUS
    <3>3. To(s) = Over(To(r), d[m])
      <4>1. m \in 1 .. 6
        BY <3>1
      <4>2. m = 1 \/ m = 2 \/ m = 3 \/ m = 4 \/ m = 5 \/ m = 6
        BY <4>1
      <4>3. \A i \in 1 .. 6 : (i > m => i \notin s /\ i \notin r) /\ (i < m => (i \in s <=> i \in r))
        BY <3>1, <4>1
      <4>4. m \in s /\ m \notin r
        BY <3>1
      <4> HIDE DEF r
      <4> QED
        BY <4>2, <4>3, <4>4
    <3>4. fold[s] = To(s) /\ fold[r] = To(r)
      BY <3>2
    <3> HIDE DEF To, fold
    <3> QED
      BY <2>2, <3>3, <3>4 DEF m
  <2> QED
    BY <2>1, <2>2
<1>3. fold = [s \in S |-> Body(fold, s)]
  <2>1. fold = [s \in S |-> fold[s]]
    OBVIOUS
  <2> HIDE DEF fold, Body
  <2> QED
    BY <1>2, <2>1
<1>4. iter = [s \in S |-> Body(iter, s)]
  <2> HIDE DEF fold, Body
  <2> QED
    BY <1>3
<1>5. iter[{}] = base
  <2>1. {} \in S
    OBVIOUS
  <2> HIDE DEF iter
  <2> QED
    BY <1>4, <2>1
<1>6. ASSUME NEW n \in 1 .. 6 PROVE iter[1 .. n] = Over(iter[1 .. n - 1], d[n])
  <2>1. 1 .. n \in S /\ 1 .. n # {}
    OBVIOUS
  <2>2. Max(1 .. n) = n
    <3>1. Max(1 .. n) \in 1 .. n /\ \A i \in 1 .. n : i <= Max(1 .. n)
      BY <2>1, MaxOfSix
    <3> QED
      BY <3>1
  <2>3. (1 .. n) \ {n} = 1 .. n - 1
    OBVIOUS
  <2>4. iter[1 .. n] = Body(iter, 1 .. n)
    <3> HIDE DEF iter, Body
    <3> QED
      BY <1>4, <2>1
  <2> HIDE DEF iter
  <2> QED
    BY <2>1, <2>2, <2>3, <2>4
<1>7. 1 .. 0 = {}
  OBVIOUS
<1> HIDE DEF iter
<1>8. iter[1 .. 1] = Over(base, d[1])
  BY <1>5, <1>6, <1>7
<1>9. iter[1 .. 2] = Over(iter[1 .. 1], d[2])
  BY <1>6
<1>10. iter[1 .. 3] = Over(iter[1 .. 2], d[3])
  BY <1>6
<1>11. iter[1 .. 4] = Over(iter[1 .. 3], d[4])
  BY <1>6
<1>12. iter[1 .. 5] = Over(iter[1 .. 4], d[5])
  BY <1>6
<1>13. iter[1 .. 6] = Over(iter[1 .. 5], d[6])
  BY <1>6
<1> QED
  BY <1>1, <1>8, <1>9, <1>10, <1>11, <1>12, <1>13

\* M has the fields that the first n documents name, as the last of them has it.
UpTo(M, D, n) ==
  /\ \A f \in DOMAIN M : \E i \in 1 .. n : f \in DOMAIN D[i] /\ M[f] = D[i][f]
  /\ \A i \in 1 .. n : \A f \in DOMAIN D[i] :
       /\ f \in DOMAIN M
       /\ (\A j \in 1 .. n : f \in DOMAIN D[j] => j <= i) => M[f] = D[i][f]

LEMMA UpToNext ==
  ASSUME NEW M, NEW D, NEW n \in Nat, UpTo(M, D, n)
  PROVE  UpTo(Over(M, D[n + 1]), D, n + 1)
<1> DEFINE new == D[n + 1]
           N == Over(M, new)
<1>1. /\ DOMAIN N = DOMAIN M \cup DOMAIN new
      /\ \A f \in DOMAIN new : N[f] = new[f]
      /\ \A f \in DOMAIN M : f \notin DOMAIN new => N[f] = M[f]
  BY DEF Over
<1> HIDE DEF N
<1>2. ASSUME NEW f \in DOMAIN N
      PROVE  \E i \in 1 .. n + 1 : f \in DOMAIN D[i] /\ N[f] = D[i][f]
  <2>1. CASE f \in DOMAIN new
    BY <1>1, <2>1
  <2>2. CASE f \notin DOMAIN new
    <3>1. f \in DOMAIN M /\ N[f] = M[f]
      BY <1>1, <1>2, <2>2
    <3>2. PICK i \in 1 .. n : f \in DOMAIN D[i] /\ M[f] = D[i][f]
      BY <3>1 DEF UpTo
    <3> QED
      BY <3>1, <3>2
  <2> QED
    BY <2>1, <2>2
<1>3. ASSUME NEW i \in 1 .. n + 1, NEW f \in DOMAIN D[i]
      PROVE  /\ f \in DOMAIN N
             /\ (\A j \in 1 .. n + 1 : f \in DOMAIN D[j] => j <= i) => N[f] = D[i][f]
  <2>1. CASE i = n + 1
    BY <1>1, <1>3, <2>1
  <2>2. CASE i # n + 1
    <3>1. i \in 1 .. n
      BY <2>2
    <3>2. f \in DOMAIN M /\ ((\A j \in 1 .. n : f \in DOMAIN D[j] => j <= i) => M[f] = D[i][f])
      BY <1>3, <3>1 DEF UpTo
    <3>3. ASSUME \A j \in 1 .. n + 1 : f \in DOMAIN D[j] => j <= i
          PROVE  N[f] = D[i][f]
      <4>1. f \notin DOMAIN new
        BY <3>1, <3>3
      <4>2. \A j \in 1 .. n : f \in DOMAIN D[j] => j <= i
        BY <3>3
      <4> QED
        BY <1>1, <3>2, <4>1, <4>2
    <3> QED
      BY <1>1, <3>2, <3>3
  <2> QED
    BY <2>1, <2>2
<1> QED
  BY <1>2, <1>3 DEF UpTo, N

\* ... and after the six, of all of them.
LEMMA MergeOfSix ==
  ASSUME NEW D, DOMAIN D = 1 .. 6
  PROVE  UpTo(FoldLeft(Over, Nothing, D), D, 6)
<1>0. UpTo(Nothing, D, 0)
  BY DEF UpTo, Nothing
<1> DEFINE M1 == Over(Nothing, D[1])
           M2 == Over(M1, D[2])
           M3 == Over(M2, D[3])
           M4 == Over(M3, D[4])
           M5 == Over(M4, D[5])
           M6 == Over(M5, D[6])
<1>7. FoldLeft(Over, Nothing, D) = M6
  BY FoldOfSix
<1>1. UpTo(M1, D, 0 + 1)
  BY <1>0, UpToNext
<1> HIDE DEF M1
<1>2. UpTo(M2, D, 1 + 1)
  BY <1>1, UpToNext
<1> HIDE DEF M2
<1>3. UpTo(M3, D, 2 + 1)
  BY <1>2, UpToNext
<1> HIDE DEF M3
<1>4. UpTo(M4, D, 3 + 1)
  BY <1>3, UpToNext
<1> HIDE DEF M4
<1>5. UpTo(M5, D, 4 + 1)
  BY <1>4, UpToNext
<1> HIDE DEF M5
<1>6. UpTo(M6, D, 5 + 1)
  BY <1>5, UpToNext
<1> HIDE DEF M6
<1> QED
  BY <1>6, <1>7

\* What a call of `maculaos config` reads is what its sources say, field by field.
LEMMA ReadSays ==
  ASSUME DOMAIN source = DOMAIN Docs, phase # "initrd"
  PROVE  \A f : /\ Named(f) <=> f \in DOMAIN ReadConfig
                /\ Named(f) => Says(f) = ReadConfig[f]
<1> DEFINE D == [i \in 1 .. Len(Readers) |->
                   IF Readers[i] \in Readable THEN source[Readers[i]] ELSE Nothing]
           M == FoldLeft(Over, Nothing, D)
<1>1. Len(Readers) = 6 /\ \A i \in 1 .. 6 : Readers[i] \in DOMAIN source
  BY DocsAssumption DEF Readers
<1>2. DOMAIN D = 1 .. 6 /\ \A i \in 1 .. 6 : D[i] = source[Readers[i]]
  BY <1>1 DEF Readable
<1>3. ReadConfig = M
  BY DEF ReadConfig
<1> HIDE DEF D
<1>4. UpTo(M, D, 6)
  BY <1>2, MergeOfSix
<1> HIDE DEF M
<1> SUFFICES ASSUME NEW f
             PROVE  /\ Named(f) <=> f \in DOMAIN M
                    /\ Named(f) => Says(f) = M[f]
  BY <1>3
<1>5. Naming(f) = {i \in 1 .. 6 : f \in DOMAIN D[i]}
  BY <1>1, <1>2 DEF Naming
<1>6. Named(f) <=> f \in DOMAIN M
  BY <1>4, <1>5 DEF Named, UpTo
<1>7. ASSUME Named(f) PROVE Says(f) = M[f]
  <2>1. Naming(f) # {} /\ Naming(f) \in SUBSET (1 .. 6)
    BY <1>5, <1>7 DEF Named
  <2>2. \E i \in Naming(f) : \A j \in Naming(f) : j <= i
    BY <2>1, MaxOfSix
  <2> DEFINE last == CHOOSE i \in Naming(f) : \A j \in Naming(f) : j <= i
  <2>3. last \in Naming(f) /\ \A j \in Naming(f) : j <= last
    BY <2>2
  <2>4. Says(f) = source[Readers[last]][f]
    BY DEF Says
  <2> HIDE DEF last
  <2>5. last \in 1 .. 6 /\ f \in DOMAIN D[last] /\ \A j \in 1 .. 6 : f \in DOMAIN D[j] => j <= last
    BY <1>5, <2>3
  <2>6. M[f] = D[last][f]
    BY <1>4, <2>5 DEF UpTo
  <2> QED
    BY <1>2, <2>4, <2>5, <2>6
<1> QED
  BY <1>6, <1>7

-----------------------------------------------------------------------------
(* Types                                                                    *)

\* What a source can hold: what can be found there, and what `maculaos install`
\* makes of it.
Legal(doc) ==
  /\ DOMAIN doc \subseteq Fields
  /\ \A f \in DOMAIN doc : doc[f] \in Written(f) \cup IF f = "k3s" THEN {"default"} ELSE {}

Labels ==
  {"start", "ask", "etc", "hosts", "empty", "fill", "key", "write", "wipe", "pour"}
HostsType == [there : BOOLEAN, local : BOOLEAN, name : Names]
K3sType ==
  {NoK3s} \cup [there : {TRUE}, args : Written("k3s") \cup {"default"}, restarted : BOOLEAN]

FilesType ==
  /\ kernelName \in Names /\ etcName \in Names /\ hosts \in HostsType
  /\ authorized \subseteq KeysNamed /\ k3s \in K3sType
  /\ k3sBin \in {"/sbin", "/usr/local", "none"} /\ installing \in BOOLEAN

SourcesType ==
  /\ DOMAIN source = DOMAIN Docs
  /\ \A s \in DOMAIN Docs : source[s] = Malformed \/ Legal(source[s])
  /\ draft = Malformed \/ Legal(draft)
  /\ editing \in DOMAIN Docs \cup {""}

StageType ==
  /\ mode \in {"local", "live", "install"}
  /\ phase \in {"off", "initrd", "mode", "setup", "config", "up", "served"}
  /\ editor \in Callers \cup {"hand", ""}
  /\ failed \in BOOLEAN /\ events \in 0 .. MaxEvents

PlanType ==
  /\ todo \in [Procs -> Seq(Appliers)] /\ DOMAIN cfg = Procs /\ DOMAIN plan = Procs
  /\ \A p \in Procs :
       /\ Legal(cfg[p]) /\ plan[p] \in Plans \cup {<<>>}
       /\ Range(todo[p]) \subseteq Range(plan[p])
       /\ todo[p] # <<>> => Head(todo[p]) \in DOMAIN cfg[p] \cup Always
  /\ clean \in [Procs -> BOOLEAN] /\ alone \in BOOLEAN
  /\ settled \in {"none", "boot", "run"}

LocalsType ==
  /\ at \in [Procs -> Labels] /\ name \in [Procs -> Names]
  /\ left \in [Procs -> SUBSET KeysNamed]
  /\ DOMAIN got = Procs
  /\ \A p \in Procs : /\ DOMAIN got[p] = {"hosts", "keys", "env"}
                      /\ got[p].hosts \in HostsType /\ got[p].keys \subseteq KeysNamed

TypeInv == FilesType /\ SourcesType /\ StageType /\ PlanType /\ LocalsType

LEMMA TypeEnough == TypeInv => TypeOK
<1> SUFFICES ASSUME TypeInv PROVE TypeOK
  OBVIOUS
<1> USE DEF TypeInv
<1>1. /\ mode \in {"local", "live", "install"}
      /\ phase \in {"off", "initrd", "mode", "setup", "config", "up", "served"}
      /\ editor \in Callers \cup {"hand", ""}
      /\ failed \in BOOLEAN /\ events \in 0 .. MaxEvents
  BY DEF StageType
<1>2. /\ \A s \in DOMAIN Docs : source[s] = Malformed \/ DOMAIN source[s] \subseteq Fields
      /\ editing \in DOMAIN Docs \cup {""}
  BY DEF SourcesType, Legal
<1>3. /\ {kernelName, etcName} \subseteq Names
      /\ hosts \in [there : BOOLEAN, local : BOOLEAN, name : Names]
      /\ authorized \subseteq KeysNamed
      /\ k3s \in {NoK3s} \cup [there : {TRUE}, args : Written("k3s") \cup {"default"},
                             restarted : BOOLEAN]
      /\ k3sBin \in {"/sbin", "/usr/local", "none"} /\ installing \in BOOLEAN
  BY DEF FilesType, HostsType, K3sType
<1>4. ASSUME NEW p \in Procs
      PROVE  /\ plan[p] \in Plans \cup {<<>>} /\ Range(todo[p]) \subseteq Range(plan[p])
             /\ todo[p] # <<>> => cfg[p] = Nothing \/ DOMAIN cfg[p] \subseteq Fields
             /\ name[p] \in Names /\ left[p] \subseteq KeysNamed
             /\ got[p].keys \subseteq KeysNamed /\ got[p].hosts.name \in Names
  BY DEF PlanType, LocalsType, Legal, HostsType
<1>5. /\ at \in [Procs -> Labels]
      /\ clean \in [Procs -> BOOLEAN] /\ alone \in BOOLEAN
      /\ settled \in {"none", "boot", "run"}
  BY DEF PlanType, LocalsType
<1> QED
  BY <1>1, <1>2, <1>3, <1>4, <1>5 DEF TypeOK, Labels

\* What the values of a document are good for.
LEMMA Lawful ==
  ASSUME NEW doc, Legal(doc)
  PROVE  /\ "hostname" \in DOMAIN doc => doc.hostname \in Names
         /\ "keys" \in DOMAIN doc => doc.keys \subseteq KeysNamed
         /\ "k3s" \in DOMAIN doc => doc.k3s \in Written("k3s") \cup {"default"}
<1>1. "hostname" \in DOMAIN doc => doc.hostname \in Written("hostname")
  BY DEF Legal
<1>2. "keys" \in DOMAIN doc => doc.keys \in Written("keys")
  BY DEF Legal
<1> QED
  BY <1>1, <1>2 DEF Legal, Names, KeysNamed

LEMMA NothingLegal == Legal(Nothing)
  BY DEF Legal, Nothing

LEMMA FoundLegal ==
  ASSUME NEW s \in DOMAIN Docs, NEW d \in Docs[s], d # Malformed
  PROVE  Legal(d)
<1>1. DOMAIN d \subseteq Fields
  BY DocsAssumption
<1>2. d \in UNION {Docs[t] \ {Malformed} : t \in DOMAIN Docs}
  OBVIOUS
<1>3. \A f \in DOMAIN d : d[f] \in Written(f)
  BY <1>2 DEF Written
<1> QED
  BY <1>1, <1>3 DEF Legal

LEMMA ReadLegal ==
  ASSUME SourcesType, CanRead
  PROVE  Legal(ReadConfig)
<1> DEFINE D == [i \in 1 .. Len(Readers) |->
                   IF Readers[i] \in Readable THEN source[Readers[i]] ELSE Nothing]
           M == FoldLeft(Over, Nothing, D)
<1>1. Len(Readers) = 6
  BY DEF Readers
<1>2. Readable \subseteq DOMAIN source
  BY DocsAssumption DEF Readable, SourcesType
<1>3. DOMAIN D = 1 .. 6
  BY <1>1
<1>4. ASSUME NEW i \in 1 .. 6 PROVE Legal(D[i])
  BY <1>1, <1>2, NothingLegal DEF SourcesType, CanRead
<1>5. ReadConfig = M
  BY DEF ReadConfig
<1> HIDE DEF D
<1>6. UpTo(M, D, 6)
  BY <1>3, MergeOfSix
<1> HIDE DEF M
<1>7. ASSUME NEW f \in DOMAIN M
      PROVE  f \in Fields /\ M[f] \in Written(f) \cup IF f = "k3s" THEN {"default"} ELSE {}
  <2>1. PICK i \in 1 .. 6 : f \in DOMAIN D[i] /\ M[f] = D[i][f]
    BY <1>6 DEF UpTo
  <2> QED
    BY <1>4, <2>1 DEF Legal
<1> QED
  BY <1>5, <1>7 DEF Legal

\* What `maculaos install` writes back.
LEMMA OverLegal ==
  ASSUME NEW asked \in {Nothing} \cup [{"k3s"} -> {"default"}], NEW doc, Legal(doc)
  PROVE  Legal(Over(asked, doc))
<1>1. DOMAIN asked \subseteq {"k3s"} /\ \A f \in DOMAIN asked : asked[f] = "default"
  BY DEF Nothing
<1>2. /\ DOMAIN Over(asked, doc) = DOMAIN asked \cup DOMAIN doc
      /\ \A f \in DOMAIN asked \cup DOMAIN doc :
           Over(asked, doc)[f] = IF f \in DOMAIN doc THEN doc[f] ELSE asked[f]
  BY DEF Over
<1>3. "k3s" \in Fields
  BY DEF Fields
<1> QED
  BY <1>1, <1>2, <1>3 DEF Legal

LEMMA PlanRange ==
  ASSUME NEW appliers \in Plans
  PROVE  appliers \in Seq(Appliers) /\ appliers # <<>>
<1>1. InitApply \in Seq(Appliers)
  BY DEF InitApply, Appliers, Fields, Plain, Added, Always
<1>2. BootApply \in Seq(Appliers)
  BY DEF BootApply, Appliers, Fields, Plain, Added, Always
<1>3. RunApply \in Seq(Appliers)
  BY DEF RunApply, Appliers, Fields, Plain, Added, Always
<1>4. InstallApply \in Seq(Appliers)
  BY DEF InstallApply, Appliers, Fields
<1>5. InitApply # <<>> /\ BootApply # <<>> /\ RunApply # <<>> /\ InstallApply # <<>>
  BY DEF InitApply, BootApply, RunApply, InstallApply
<1> QED
  BY <1>1, <1>2, <1>3, <1>4, <1>5 DEF Plans

LEMMA EndsType ==
  ASSUME PlanType, LocalsType, NEW p \in Procs, todo[p] # <<>>,
         NEW fine \in BOOLEAN, NextApplier(p, fine)
  PROVE  PlanType' /\ LocalsType'
<1> DEFINE rest == FromBusy(Tail(todo[p]), cfg[p])
<1>1. todo[p] \in Seq(Appliers)
  BY DEF PlanType
<1>2. Tail(todo[p]) \in Seq(Appliers) /\ Range(Tail(todo[p])) \subseteq Range(todo[p])
  BY <1>1, OneLess
<1>3. /\ rest \in Seq(Appliers) /\ Range(rest) \subseteq Range(todo[p])
      /\ rest # <<>> => Head(rest) \in DOMAIN cfg[p] \cup Always
  BY <1>2, Busy
<1> HIDE DEF rest
<1>4. /\ todo' = [todo EXCEPT ![p] = rest]
      /\ at' = [at EXCEPT ![p] = "start"]
      /\ name' = [name EXCEPT ![p] = ""]
      /\ got' = [got EXCEPT ![p] = NothingRead]
      /\ left' = [left EXCEPT ![p] = {}]
      /\ plan' = IF rest = <<>> THEN [plan EXCEPT ![p] = <<>>] ELSE plan
      /\ cfg' = IF rest = <<>> THEN [cfg EXCEPT ![p] = Nothing] ELSE cfg
      /\ clean' = [clean EXCEPT ![p] = (clean[p] /\ fine) /\ ~(rest = <<>>)]
      /\ settled' \in {settled, "boot", "run"}
      /\ UNCHANGED alone
  BY DEF NextApplier, rest
<1>5. LocalsType'
  <2>1. "" \in Names
    BY DEF Names
  <2>2. /\ DOMAIN NothingRead = {"hosts", "keys", "env"}
        /\ NothingRead.hosts \in HostsType /\ NothingRead.keys = {}
    BY <2>1 DEF NothingRead, NoHosts, HostsType
  <2>3. "start" \in Labels
    BY DEF Labels
  <2>4. at' \in [Procs -> Labels] /\ name' \in [Procs -> Names]
        /\ left' \in [Procs -> SUBSET KeysNamed]
    BY <1>4, <2>1, <2>3 DEF LocalsType
  <2>5. DOMAIN got' = Procs /\ \A q \in Procs : got'[q] = IF q = p THEN NothingRead ELSE got[q]
    BY <1>4 DEF LocalsType
  <2> QED
    BY <2>2, <2>4, <2>5 DEF LocalsType
<1>6. ASSUME NEW q \in Procs
      PROVE  /\ Legal(cfg'[q]) /\ plan'[q] \in Plans \cup {<<>>}
             /\ Range(todo'[q]) \subseteq Range(plan'[q])
             /\ todo'[q] # <<>> => Head(todo'[q]) \in DOMAIN cfg'[q] \cup Always
  <2>1. CASE q # p
    <3>1. todo'[q] = todo[q] /\ cfg'[q] = cfg[q] /\ plan'[q] = plan[q]
      BY <1>4, <2>1 DEF PlanType
    <3> QED
      BY <3>1 DEF PlanType
  <2>2. CASE q = p /\ rest = <<>>
    <3>1. todo'[q] = <<>> /\ cfg'[q] = Nothing /\ plan'[q] = <<>>
      BY <1>4, <2>2 DEF PlanType
    <3> QED
      BY <3>1, NothingLegal
  <2>3. CASE q = p /\ rest # <<>>
    <3>1. todo'[q] = rest /\ cfg'[q] = cfg[p] /\ plan'[q] = plan[p]
      BY <1>4, <2>3 DEF PlanType
    <3> QED
      BY <1>3, <3>1 DEF PlanType
  <2> QED
    BY <2>1, <2>2, <2>3
<1>7. /\ todo' \in [Procs -> Seq(Appliers)] /\ DOMAIN cfg' = Procs /\ DOMAIN plan' = Procs
      /\ clean' \in [Procs -> BOOLEAN] /\ alone' \in BOOLEAN
      /\ settled' \in {"none", "boot", "run"}
  BY <1>3, <1>4 DEF PlanType
<1> QED
  BY <1>5, <1>6, <1>7 DEF PlanType

LEMMA EndsKeyType ==
  ASSUME PlanType, LocalsType, NEW p \in Procs, todo[p] # <<>>,
         NEW k, NEW fine \in BOOLEAN, NextKey(p, k, fine)
  PROVE  PlanType' /\ LocalsType'
<1>1. CASE left[p] = {k}
  BY <1>1, EndsType DEF NextKey
<1>2. CASE left[p] # {k}
  <2>1. /\ left' = [left EXCEPT ![p] = left[p] \ {k}]
        /\ at' = [at EXCEPT ![p] = "key"]
        /\ got' = [got EXCEPT ![p] = NothingRead]
        /\ clean' = [clean EXCEPT ![p] = clean[p] /\ fine]
        /\ UNCHANGED <<todo, plan, cfg, name, settled, alone>>
    BY <1>2 DEF NextKey
  <2>2. PlanType'
    BY <2>1 DEF PlanType
  <2>3. "" \in Names /\ "key" \in Labels
    BY DEF Names, Labels
  <2>4. /\ DOMAIN NothingRead = {"hosts", "keys", "env"}
        /\ NothingRead.hosts \in HostsType /\ NothingRead.keys = {}
    BY <2>3 DEF NothingRead, NoHosts, HostsType
  <2>5. at' \in [Procs -> Labels] /\ left' \in [Procs -> SUBSET KeysNamed]
    BY <2>1, <2>3 DEF LocalsType
  <2>6. DOMAIN got' = Procs /\ \A q \in Procs : got'[q] = IF q = p THEN NothingRead ELSE got[q]
    BY <2>1 DEF LocalsType
  <2> QED
    BY <2>1, <2>2, <2>4, <2>5, <2>6 DEF LocalsType
<1> QED
  BY <1>1, <1>2

LEMMA GotoType ==
  ASSUME PlanType, LocalsType, NEW p \in Procs, NEW l \in Labels, Goto(p, l),
         name' \in [Procs -> Names], left' \in [Procs -> SUBSET KeysNamed],
         DOMAIN got' = Procs,
         \A q \in Procs : /\ DOMAIN got'[q] = {"hosts", "keys", "env"}
                          /\ got'[q].hosts \in HostsType /\ got'[q].keys \subseteq KeysNamed
  PROVE  PlanType' /\ LocalsType'
<1>1. at' = [at EXCEPT ![p] = l] /\ UNCHANGED <<todo, plan, cfg, clean, settled, alone>>
  BY DEF Goto, histVars
<1>2. PlanType'
  BY <1>1 DEF PlanType
<1>3. at' \in [Procs -> Labels]
  BY <1>1 DEF LocalsType
<1> QED
  BY <1>2, <1>3 DEF LocalsType

\* A step that reads nothing.
LEMMA GotoOnly ==
  ASSUME PlanType, LocalsType, NEW p \in Procs, NEW l \in Labels, Goto(p, l),
         UNCHANGED <<name, got, left>>
  PROVE  PlanType' /\ LocalsType'
<1>1. /\ name' \in [Procs -> Names] /\ left' \in [Procs -> SUBSET KeysNamed]
      /\ DOMAIN got' = Procs
      /\ \A q \in Procs : /\ DOMAIN got'[q] = {"hosts", "keys", "env"}
                          /\ got'[q].hosts \in HostsType /\ got'[q].keys \subseteq KeysNamed
  BY DEF LocalsType
<1> QED
  BY <1>1, GotoType

LEMMA StartType ==
  ASSUME TypeInv, NEW p \in Procs, NEW appliers \in Plans, Start(p, appliers)
  PROVE  PlanType' /\ LocalsType' /\ FilesType'
<1> USE DEF TypeInv
<1>0. UNCHANGED <<fileVars, at, name, got, left>> /\ alone' \in BOOLEAN
  BY DEF Start, PlanType
<1>1. FilesType' /\ LocalsType'
  BY <1>0 DEF fileVars, FilesType, LocalsType
<1>2. CASE ~CanRead
  <2>1. UNCHANGED <<todo, plan, cfg, clean, settled>>
    BY <1>2 DEF Start
  <2> QED
    BY <1>0, <1>1, <2>1 DEF PlanType
<1>3. CASE CanRead
  <2> DEFINE doc == ReadConfig
             rest == FromBusy(appliers, doc)
  <2>1. Legal(doc)
    BY <1>3, ReadLegal
  <2>2. /\ todo' = [todo EXCEPT ![p] = rest]
        /\ plan' = [plan EXCEPT ![p] = appliers]
        /\ cfg' = [cfg EXCEPT ![p] = doc]
        /\ clean' = [q \in Procs |-> q = p /\ Running = {} /\ editing = ""]
        /\ settled' = "none"
    BY <1>3 DEF Start
  <2> HIDE DEF doc
  <2>3. /\ rest \in Seq(Appliers) /\ Range(rest) \subseteq Range(appliers)
        /\ rest # <<>> => Head(rest) \in DOMAIN doc \cup Always
    BY PlanRange, Busy
  <2> HIDE DEF rest
  <2>4. ASSUME NEW q \in Procs
        PROVE  /\ Legal(cfg'[q]) /\ plan'[q] \in Plans \cup {<<>>}
               /\ Range(todo'[q]) \subseteq Range(plan'[q])
               /\ todo'[q] # <<>> => Head(todo'[q]) \in DOMAIN cfg'[q] \cup Always
    <3>1. CASE q # p
      <4>1. todo'[q] = todo[q] /\ cfg'[q] = cfg[q] /\ plan'[q] = plan[q]
        BY <2>2, <3>1 DEF PlanType
      <4> QED
        BY <4>1 DEF PlanType
    <3>2. CASE q = p
      <4>1. todo'[q] = rest /\ cfg'[q] = doc /\ plan'[q] = appliers
        BY <2>2, <3>2 DEF PlanType
      <4> QED
        BY <2>1, <2>3, <4>1
    <3> QED
      BY <3>1, <3>2
  <2>5. /\ todo' \in [Procs -> Seq(Appliers)] /\ DOMAIN cfg' = Procs /\ DOMAIN plan' = Procs
        /\ clean' \in [Procs -> BOOLEAN] /\ settled' \in {"none", "boot", "run"}
    BY <2>2, <2>3 DEF PlanType
  <2> QED
    BY <1>0, <1>1, <2>4, <2>5 DEF PlanType
<1> QED
  BY <1>2, <1>3

\* Who runs knows what to do.
LEMMA HeadNamed ==
  ASSUME TypeInv, NEW p \in Procs, todo[p] # <<>>, Head(todo[p]) \in {"hostname", "keys", "env"}
  PROVE  Head(todo[p]) \in DOMAIN cfg[p] /\ Legal(cfg[p])
  BY DEF TypeInv, PlanType, Always

LEMMA WorldFrame ==
  ASSUME TypeInv, UNCHANGED worldVars
  PROVE  /\ SourcesType'
         /\ failed' \in BOOLEAN /\ events' \in 0 .. MaxEvents => StageType'
  BY DEF TypeInv, worldVars, SourcesType, StageType

LEMMA EventType ==
  ASSUME TypeInv, Event
  PROVE  events' \in 0 .. MaxEvents
<1>1. events \in 0 .. MaxEvents /\ events < MaxEvents /\ events' = events + 1
  BY DEF TypeInv, StageType, Event
<1> QED
  BY <1>1, ConfigBound

\* The appliers
LEMMA ApplierType ==
  ASSUME TypeInv, NEW p \in Procs, Applier(p)
  PROVE  TypeInv'
<1> USE DEF TypeInv
<1>0. /\ UNCHANGED bounds => failed' \in BOOLEAN /\ events' \in 0 .. MaxEvents
      /\ TRUE \in BOOLEAN /\ FALSE \in BOOLEAN
  BY DEF bounds, StageType
<1>1. CASE ApplySettings(p)
  <2>1. todo[p] # <<>> /\ NextApplier(p, TRUE) /\ UNCHANGED worldVars /\ UNCHANGED bounds
    BY <1>1 DEF ApplySettings, Apply
  <2>2. FilesType'
    BY <1>1 DEF ApplySettings, Put, fileVars, FilesType
  <2> QED
    BY <1>0, <2>1, <2>2, EndsType, WorldFrame
<1>2. CASE LoadModules(p)
  <2>1. todo[p] # <<>> /\ NextApplier(p, TRUE) /\ UNCHANGED worldVars /\ UNCHANGED bounds
    BY <1>2 DEF LoadModules, Apply
  <2>2. FilesType'
    BY <1>2 DEF LoadModules, Put, fileVars, FilesType
  <2> QED
    BY <1>0, <2>1, <2>2, EndsType, WorldFrame
<1>3. CASE WriteFiles(p)
  <2>1. todo[p] # <<>> /\ NextApplier(p, TRUE) /\ UNCHANGED worldVars /\ UNCHANGED bounds
    BY <1>3 DEF WriteFiles, Apply
  <2>2. FilesType'
    BY <1>3 DEF WriteFiles, Put, fileVars, FilesType
  <2> QED
    BY <1>0, <2>1, <2>2, EndsType, WorldFrame
<1>4. CASE ExecuteCommand(p)
  <2>1. todo[p] # <<>> /\ NextApplier(p, TRUE) /\ UNCHANGED worldVars /\ UNCHANGED bounds
    BY <1>4 DEF ExecuteCommand, Apply
  <2>2. FilesType'
    BY <1>4 DEF ExecuteCommand, Put, fileVars, FilesType
  <2> QED
    BY <1>0, <2>1, <2>2, EndsType, WorldFrame
<1>5. CASE SetPassword(p)
  <2>1. todo[p] # <<>> /\ NextApplier(p, TRUE) /\ UNCHANGED worldVars /\ UNCHANGED bounds
    BY <1>5 DEF SetPassword, Apply
  <2>2. FilesType'
    BY <1>5 DEF SetPassword, fileVars, FilesType
  <2> QED
    BY <1>0, <2>1, <2>2, EndsType, WorldFrame
<1>6. CASE ApplyHostname(p)
  <2>1. Goto(p, "ask") /\ UNCHANGED <<name, got, left>> /\ UNCHANGED worldVars /\ UNCHANGED bounds
    BY <1>6 DEF ApplyHostname
  <2>2. cfg[p].hostname \in Names
    BY <1>6, HeadNamed, Lawful DEF ApplyHostname, At
  <2>3. FilesType'
    BY <1>6, <2>2 DEF ApplyHostname, FilesType
  <2> QED
    BY <1>0, <2>1, <2>3, GotoOnly, WorldFrame DEF Labels
<1>7. CASE AskName(p)
  <2>1. /\ Goto(p, "etc") /\ UNCHANGED <<got, left>>
        /\ UNCHANGED worldVars /\ UNCHANGED bounds
        /\ name' = [name EXCEPT ![p] = kernelName]
    BY <1>7 DEF AskName
  <2>2. name' \in [Procs -> Names]
    BY <2>1 DEF LocalsType, FilesType
  <2>3. FilesType'
    BY <1>7 DEF AskName, fileVars, FilesType
  <2>4. PlanType' /\ LocalsType'
    BY <2>1, <2>2, GotoType DEF Labels, LocalsType
  <2> QED
    BY <1>0, <2>1, <2>3, <2>4, WorldFrame
<1>8. CASE WriteName(p)
  <2>1. Goto(p, "hosts") /\ UNCHANGED <<name, got, left>> /\ UNCHANGED worldVars /\ UNCHANGED bounds
    BY <1>8 DEF WriteName
  <2>2. name[p] \in Names
    BY DEF LocalsType
  <2>3. FilesType'
    BY <1>8, <2>2 DEF WriteName, FilesType
  <2> QED
    BY <1>0, <2>1, <2>3, GotoOnly, WorldFrame DEF Labels
<1>9. CASE ReadHosts(p)
  <2>1. todo[p] # <<>> /\ UNCHANGED fileVars /\ UNCHANGED worldVars /\ UNCHANGED bounds
    BY <1>9 DEF ReadHosts, At
  <2>2. FilesType'
    BY <2>1 DEF fileVars, FilesType
  <2>3. CASE hosts.there
    <3>1. got' = [got EXCEPT ![p].hosts = hosts] /\ Goto(p, "empty") /\ UNCHANGED <<name, left>>
      BY <1>9, <2>3 DEF ReadHosts
    <3>2. DOMAIN got' = Procs
      BY <3>1 DEF LocalsType
    <3>3. ASSUME NEW q \in Procs
          PROVE  /\ DOMAIN got'[q] = {"hosts", "keys", "env"}
                 /\ got'[q].hosts \in HostsType /\ got'[q].keys \subseteq KeysNamed
      BY <3>1 DEF LocalsType, FilesType
    <3>4. name' \in [Procs -> Names] /\ left' \in [Procs -> SUBSET KeysNamed]
      BY <3>1 DEF LocalsType
    <3>5. PlanType' /\ LocalsType'
      BY <3>1, <3>2, <3>3, <3>4, GotoType DEF Labels
    <3> QED
      BY <1>0, <2>1, <2>2, <3>5, WorldFrame
  <2>4. CASE ~hosts.there
    <3>1. NextApplier(p, FALSE)
      BY <1>9, <2>4 DEF ReadHosts
    <3> QED
      BY <1>0, <2>1, <2>2, <3>1, EndsType, WorldFrame
  <2> QED
    BY <2>3, <2>4
<1>10. CASE EmptyHosts(p)
  <2>1. Goto(p, "fill") /\ UNCHANGED <<name, got, left>> /\ UNCHANGED worldVars /\ UNCHANGED bounds
    BY <1>10 DEF EmptyHosts
  <2>2. hosts' \in HostsType
    <3>1. "" \in Names
      BY DEF Names
    <3> QED
      BY <1>10, <3>1 DEF EmptyHosts, NoHosts, HostsType
  <2>3. FilesType'
    BY <1>10, <2>2 DEF EmptyHosts, FilesType
  <2> QED
    BY <1>0, <2>1, <2>3, GotoOnly, WorldFrame DEF Labels
<1>11. CASE FillHosts(p)
  <2>1. todo[p] # <<>> /\ NextApplier(p, TRUE) /\ UNCHANGED worldVars /\ UNCHANGED bounds
    BY <1>11 DEF FillHosts, At
  <2>2. hosts' \in HostsType
    <3>1. /\ "" \in Names /\ name[p] \in Names /\ got[p].hosts \in HostsType
      BY DEF Names, LocalsType
    <3> QED
      BY <1>11, <3>1 DEF FillHosts, HostsType
  <2>3. FilesType'
    BY <1>11, <2>2 DEF FillHosts, FilesType
  <2> QED
    BY <1>0, <2>1, <2>3, EndsType, WorldFrame
<1>12. CASE ApplySSHKeys(p)
  <2>1. /\ todo[p] # <<>> /\ Head(todo[p]) = "keys"
        /\ UNCHANGED fileVars /\ UNCHANGED worldVars /\ UNCHANGED bounds
    BY <1>12 DEF ApplySSHKeys, At
  <2>2. FilesType'
    BY <2>1 DEF fileVars, FilesType
  <2>3. CASE cfg[p].keys # {}
    <3>1. /\ left' = [left EXCEPT ![p] = cfg[p].keys] /\ Goto(p, "key")
          /\ UNCHANGED <<name, got>>
      BY <1>12, <2>3 DEF ApplySSHKeys
    <3>2. cfg[p].keys \subseteq KeysNamed
      BY <2>1, HeadNamed, Lawful
    <3>3. left' \in [Procs -> SUBSET KeysNamed]
      BY <3>1, <3>2 DEF LocalsType
    <3>4. PlanType' /\ LocalsType'
      BY <3>1, <3>3, GotoType DEF Labels, LocalsType
    <3> QED
      BY <1>0, <2>1, <2>2, <3>4, WorldFrame
  <2>4. CASE cfg[p].keys = {}
    <3>1. NextApplier(p, TRUE)
      BY <1>12, <2>4 DEF ApplySSHKeys
    <3> QED
      BY <1>0, <2>1, <2>2, <3>1, EndsType, WorldFrame
  <2> QED
    BY <2>3, <2>4
<1>13. CASE SkipKey(p)
  <2>1. /\ todo[p] # <<>> /\ UNCHANGED fileVars /\ UNCHANGED worldVars /\ UNCHANGED bounds
        /\ \E k \in left[p] : NextKey(p, k, TRUE)
    BY <1>13 DEF SkipKey, At
  <2>2. FilesType'
    BY <2>1 DEF fileVars, FilesType
  <2> QED
    BY <1>0, <2>1, <2>2, EndsKeyType, WorldFrame
<1>14. CASE ReadKeys(p)
  <2>1. /\ got' = [got EXCEPT ![p].keys = authorized] /\ Goto(p, "write")
        /\ UNCHANGED <<name, left>> /\ UNCHANGED fileVars /\ UNCHANGED worldVars /\ UNCHANGED bounds
    BY <1>14 DEF ReadKeys
  <2>2. FilesType'
    BY <2>1 DEF fileVars, FilesType
  <2>3. DOMAIN got' = Procs
    BY <2>1 DEF LocalsType
  <2>4. ASSUME NEW q \in Procs
        PROVE  /\ DOMAIN got'[q] = {"hosts", "keys", "env"}
               /\ got'[q].hosts \in HostsType /\ got'[q].keys \subseteq KeysNamed
    BY <2>1 DEF LocalsType, FilesType
  <2>5. name' \in [Procs -> Names] /\ left' \in [Procs -> SUBSET KeysNamed]
    BY <2>1 DEF LocalsType
  <2>6. PlanType' /\ LocalsType'
    BY <2>1, <2>3, <2>4, <2>5, GotoType DEF Labels
  <2> QED
    BY <1>0, <2>1, <2>2, <2>6, WorldFrame
<1>15. CASE WriteKeys(p)
  <2>1. /\ todo[p] # <<>> /\ UNCHANGED worldVars /\ UNCHANGED bounds
        /\ \E k \in left[p] : authorized' = got[p].keys \cup {k} /\ NextKey(p, k, TRUE)
    BY <1>15 DEF WriteKeys, At
  <2>2. authorized' \subseteq KeysNamed
    BY <2>1 DEF LocalsType
  <2>3. FilesType'
    BY <1>15, <2>2 DEF WriteKeys, FilesType
  <2> QED
    BY <1>0, <2>1, <2>3, EndsKeyType, WorldFrame
<1>16. CASE ApplyEnvironment(p)
  <2>1. /\ got' = [got EXCEPT ![p].env = env] /\ Goto(p, "wipe")
        /\ UNCHANGED <<name, left>> /\ UNCHANGED fileVars /\ UNCHANGED worldVars /\ UNCHANGED bounds
    BY <1>16 DEF ApplyEnvironment
  <2>2. FilesType'
    BY <2>1 DEF fileVars, FilesType
  <2>3. DOMAIN got' = Procs
    BY <2>1 DEF LocalsType
  <2>4. ASSUME NEW q \in Procs
        PROVE  /\ DOMAIN got'[q] = {"hosts", "keys", "env"}
               /\ got'[q].hosts \in HostsType /\ got'[q].keys \subseteq KeysNamed
    BY <2>1 DEF LocalsType, FilesType
  <2>5. name' \in [Procs -> Names] /\ left' \in [Procs -> SUBSET KeysNamed]
    BY <2>1 DEF LocalsType
  <2>6. PlanType' /\ LocalsType'
    BY <2>1, <2>3, <2>4, <2>5, GotoType DEF Labels
  <2> QED
    BY <1>0, <2>1, <2>2, <2>6, WorldFrame
<1>17. CASE EmptyEnvironment(p)
  <2>1. Goto(p, "pour") /\ UNCHANGED <<name, got, left>> /\ UNCHANGED worldVars /\ UNCHANGED bounds
    BY <1>17 DEF EmptyEnvironment
  <2>2. FilesType'
    BY <1>17 DEF EmptyEnvironment, FilesType
  <2> QED
    BY <1>0, <2>1, <2>2, GotoOnly, WorldFrame DEF Labels
<1>18. CASE WriteEnvironment(p)
  <2>1. todo[p] # <<>> /\ NextApplier(p, TRUE) /\ UNCHANGED worldVars /\ UNCHANGED bounds
    BY <1>18 DEF WriteEnvironment, At
  <2>2. FilesType'
    BY <1>18 DEF WriteEnvironment, FilesType
  <2> QED
    BY <1>0, <2>1, <2>2, EndsType, WorldFrame
<1>19. CASE ApplyK3S(p)
  <2>1. todo[p] # <<>> /\ NextApplier(p, TRUE) /\ UNCHANGED worldVars /\ UNCHANGED bounds
    BY <1>19 DEF ApplyK3S, At
  <2>2. k3s' \in K3sType /\ k3sBin' \in {"/sbin", "/usr/local", "none"}
    <3>1. Sets(p, "k3s") => cfg[p].k3s \in Written("k3s") \cup {"default"}
      BY Lawful DEF Sets, PlanType
    <3>2. k3s.restarted \in BOOLEAN
      <4>1. CASE k3s = NoK3s
        BY <4>1 DEF NoK3s
      <4>2. CASE k3s # NoK3s
        BY <4>2 DEF FilesType, K3sType
      <4> QED
        BY <4>1, <4>2
    <3>3. CASE HasWork(p)
      <4>1. /\ k3s' = [there |-> TRUE,
                       args |-> IF Sets(p, "k3s") THEN cfg[p].k3s ELSE "default",
                       restarted |-> k3s.restarted \/ Restart(p)]
            /\ k3sBin' = IF k3sBin = "none" THEN "/usr/local" ELSE k3sBin
        BY <1>19, <3>3 DEF ApplyK3S
      <4>2. (k3s.restarted \/ Restart(p)) \in BOOLEAN
        OBVIOUS
      <4>3. (IF Sets(p, "k3s") THEN cfg[p].k3s ELSE "default") \in Written("k3s") \cup {"default"}
        BY <3>1
      <4>4. k3s' \in K3sType
        BY <4>1, <4>2, <4>3 DEF K3sType
      <4> QED
        BY <4>1, <4>4 DEF FilesType
    <3>4. CASE ~HasWork(p)
      BY <1>19, <3>4 DEF ApplyK3S, FilesType
    <3> QED
      BY <3>3, <3>4
  <2>3. FilesType'
    BY <1>19, <2>2 DEF ApplyK3S, FilesType
  <2> QED
    BY <1>0, <2>1, <2>3, EndsType, WorldFrame
<1>20. CASE ApplyInstall(p)
  <2>1. todo[p] # <<>> /\ NextApplier(p, TRUE) /\ UNCHANGED worldVars /\ UNCHANGED bounds
    BY <1>20 DEF ApplyInstall, At
  <2>2. FilesType'
    BY <1>20 DEF ApplyInstall, FilesType
  <2> QED
    BY <1>0, <2>1, <2>2, EndsType, WorldFrame
<1>21. CASE Fail(p)
  <2>1. /\ todo[p] # <<>> /\ Event /\ failed' = TRUE
        /\ UNCHANGED fileVars /\ UNCHANGED worldVars
        /\ NextApplier(p, FALSE) \/ \E k \in left[p] : NextKey(p, k, FALSE)
    BY <1>21 DEF Fail
  <2>2. FilesType'
    BY <2>1 DEF fileVars, FilesType
  <2>3. StageType' /\ SourcesType'
    BY <2>1, EventType, WorldFrame
  <2>4. PlanType' /\ LocalsType'
    BY <1>0, <2>1, EndsType, EndsKeyType
  <2> QED
    BY <2>2, <2>3, <2>4
<1> QED
  BY <1>1, <1>2, <1>3, <1>4, <1>5, <1>6, <1>7, <1>8, <1>9, <1>10, <1>11, <1>12, <1>13, <1>14, <1>15, <1>16, <1>17, <1>18, <1>19, <1>20, <1>21
     DEF Applier

\* The editor of a source, by hand or by `maculaos install`.
LEMMA BeginEditType ==
  ASSUME TypeInv, NEW who \in Callers \cup {"hand"}, NEW s \in DOMAIN Docs, NEW doc,
         doc = Malformed \/ Legal(doc), BeginEdit(who, s, doc)
  PROVE  TypeInv'
<1> USE DEF TypeInv
<1>1. /\ phase \in {"up", "served"} /\ editor' = who /\ editing' = s /\ draft' = doc
      /\ source' = [source EXCEPT ![s] = Nothing]
      /\ clean' = [p \in Procs |-> FALSE] /\ settled' = "none" /\ UNCHANGED alone
      /\ UNCHANGED <<mode, phase, failed>>
      /\ UNCHANGED fileVars /\ UNCHANGED procVars
  BY DEF BeginEdit, Disturbed
<1>2. events' \in 0 .. MaxEvents
  BY EventType DEF BeginEdit
<1>3. FilesType'
  BY <1>1 DEF fileVars, FilesType
<1>4. SourcesType'
  BY <1>1, NothingLegal DEF SourcesType
<1>5. StageType'
  BY <1>1, <1>2 DEF StageType
<1>6. PlanType' /\ LocalsType'
  BY <1>1 DEF procVars, PlanType, LocalsType
<1> QED
  BY <1>3, <1>4, <1>5, <1>6

\* A call that starts.
LEMMA CallType ==
  ASSUME TypeInv, NEW p \in Procs, NEW appliers \in Plans, Start(p, appliers),
         UNCHANGED <<source, draft, editing>>, StageType'
  PROVE  TypeInv'
<1>1. SourcesType'
  BY DEF TypeInv, SourcesType
<1> QED
  BY <1>1, StartType DEF TypeInv

LEMMA NamesType == "" \in Names /\ "generated" \in Names
  BY DEF Names

\* Nobody runs.
Idle ==
  /\ todo = [p \in Procs |-> <<>>] /\ plan = [p \in Procs |-> <<>>]
  /\ cfg = [p \in Procs |-> Nothing] /\ at = [p \in Procs |-> "start"]
  /\ name = [p \in Procs |-> ""] /\ got = [p \in Procs |-> NothingRead]
  /\ left = [p \in Procs |-> {}]
  /\ clean = [p \in Procs |-> FALSE] /\ settled = "none" /\ alone = TRUE

LEMMA IdleType == Idle => PlanType /\ LocalsType
<1> SUFFICES ASSUME Idle PROVE PlanType /\ LocalsType
  OBVIOUS
<1>1. ASSUME NEW p \in Procs
      PROVE  /\ Legal(cfg[p]) /\ plan[p] \in Plans \cup {<<>>}
             /\ Range(todo[p]) \subseteq Range(plan[p])
             /\ todo[p] = <<>>
  BY NothingLegal DEF Idle
<1>2. PlanType
  BY <1>1, EmptySeq DEF Idle, PlanType
<1>3. /\ DOMAIN NothingRead = {"hosts", "keys", "env"}
      /\ NothingRead.hosts \in HostsType /\ NothingRead.keys = {}
  BY NamesType DEF NothingRead, NoHosts, HostsType
<1>4. LocalsType
  BY <1>3, NamesType DEF Idle, LocalsType, Labels
<1> QED
  BY <1>2, <1>4

LEMMA TypeNext == TypeInv /\ [Next]_vars => TypeInv'
<1> SUFFICES ASSUME TypeInv, [Next]_vars PROVE TypeInv'
  OBVIOUS
<1> USE DEF TypeInv
<1>0. "boot" \in Procs /\ "ccapply" \in Procs /\ Callers \subseteq Procs
  BY DEF Procs
<1>1. ASSUME NEW p \in Procs, Applier(p) PROVE TypeInv'
  BY <1>1, ApplierType
<1>2. CASE ConfigInitrd
  <2>1. /\ UNCHANGED fileVars /\ UNCHANGED procVars /\ UNCHANGED histVars /\ UNCHANGED bounds
        /\ UNCHANGED <<mode, source, editing, draft, editor>> /\ phase' = "initrd"
    BY <1>2 DEF ConfigInitrd
  <2>2. FilesType' /\ SourcesType' /\ StageType'
    BY <2>1 DEF fileVars, bounds, FilesType, SourcesType, StageType
  <2>3. PlanType' /\ LocalsType'
    BY <2>1 DEF procVars, histVars, PlanType, LocalsType
  <2> QED
    BY <2>2, <2>3
<1>3. CASE ApplyInitrd
  <2>1. StageType'
    BY <1>3 DEF ApplyInitrd, StageType, bounds
  <2> QED
    BY <1>0, <1>3, <2>1, CallType DEF ApplyInitrd, Plans
<1>4. CASE SetupHostname
  <2>1. /\ UNCHANGED procVars /\ UNCHANGED histVars /\ UNCHANGED bounds
        /\ UNCHANGED <<mode, source, editing, draft, editor>> /\ phase' = "setup"
        /\ UNCHANGED <<kernelName, authorized, k3s, k3sBin, installing>>
        /\ etcName' \in {"generated", etcName}
        /\ hosts' = [there |-> TRUE, local |-> TRUE, name |-> etcName']
    BY <1>4 DEF SetupHostname, Phase
  <2>2. etcName' \in Names
    BY <2>1, NamesType DEF FilesType
  <2>3. FilesType'
    BY <2>1, <2>2 DEF FilesType, HostsType
  <2>4. SourcesType' /\ StageType'
    BY <2>1 DEF bounds, SourcesType, StageType
  <2>5. PlanType' /\ LocalsType'
    BY <2>1 DEF procVars, histVars, PlanType, LocalsType
  <2> QED
    BY <2>3, <2>4, <2>5
<1>5. CASE SetupConfig
  <2>1. StageType'
    BY <1>5 DEF SetupConfig, StageType, bounds
  <2> QED
    BY <1>0, <1>5, <2>1, CallType DEF SetupConfig, Plans
<1>6. CASE Runlevels
  <2>1. /\ UNCHANGED procVars /\ UNCHANGED <<clean, alone>> /\ UNCHANGED bounds
        /\ UNCHANGED <<mode, editing, draft, editor>> /\ phase' = "up"
        /\ UNCHANGED <<etcName, hosts, authorized, k3s, k3sBin, installing>>
        /\ kernelName' = etcName
        /\ settled' \in {settled, "none"}
    BY <1>6 DEF Runlevels, Phase
  <2>2. FilesType' /\ StageType'
    BY <2>1 DEF FilesType, StageType, bounds
  <2>3. SourcesType'
    <3>1. CASE UNCHANGED source
      BY <2>1, <3>1 DEF SourcesType
    <3>2. CASE ~UNCHANGED source
      <4>1. PICK cloud \in Docs["cloud"] \cup {Nothing}, user \in Docs["userdata"] \cup {Nothing} :
              source' = [source EXCEPT !["cloud"] = cloud, !["userdata"] = user]
        BY <1>6, <3>2 DEF Runlevels
      <4>2. "cloud" \in DOMAIN Docs /\ "userdata" \in DOMAIN Docs
        BY DocsAssumption
      <4>3. (cloud = Malformed \/ Legal(cloud)) /\ (user = Malformed \/ Legal(user))
        BY <4>2, FoundLegal, NothingLegal
      <4> QED
        BY <2>1, <4>1, <4>3 DEF SourcesType
    <3> QED
      BY <3>1, <3>2
  <2>4. PlanType' /\ LocalsType'
    BY <2>1 DEF procVars, PlanType, LocalsType
  <2> QED
    BY <2>2, <2>3, <2>4
<1>7. CASE Ccapply
  <2>1. StageType'
    BY <1>7 DEF Ccapply, StageType, bounds
  <2> QED
    BY <1>0, <1>7, <2>1, CallType DEF Ccapply, Plans
<1>8. ASSUME NEW p \in Callers, Call(p) PROVE TypeInv'
  <2>1. PICK appliers \in {RunApply, InstallApply} : Start(p, appliers)
    BY <1>8 DEF Call
  <2>2. StageType'
    BY <1>8, EventType DEF Call, StageType, worldVars
  <2> QED
    BY <1>0, <1>8, <2>1, <2>2, CallType DEF Call, Plans, worldVars
<1>9. CASE Edit
  <2>0. PICK s \in {"local", "config.d"} \cap DOMAIN Docs : \E d \in Docs[s] : BeginEdit("hand", s, d)
    BY <1>9 DEF Edit
  <2>1. PICK d \in Docs[s] : BeginEdit("hand", s, d)
    BY <2>0
  <2>2. d = Malformed \/ Legal(d)
    BY FoundLegal
  <2> QED
    BY <2>1, <2>2, BeginEditType
<1>10. CASE EndEdit
  <2>1. /\ source' = [source EXCEPT ![editing] = draft] /\ draft' = Nothing /\ editing' = ""
        /\ editor' \in {"", editor} /\ clean' = [p \in Procs |-> FALSE] /\ settled' = "none"
        /\ UNCHANGED alone /\ UNCHANGED <<mode, phase>> /\ UNCHANGED bounds
        /\ UNCHANGED fileVars /\ UNCHANGED procVars
    BY <1>10 DEF EndEdit, Disturbed
  <2>2. FilesType' /\ StageType'
    BY <2>1 DEF fileVars, bounds, FilesType, StageType
  <2>3. SourcesType'
    BY <2>1, NothingLegal DEF SourcesType
  <2>4. PlanType' /\ LocalsType'
    BY <2>1 DEF procVars, PlanType, LocalsType
  <2> QED
    BY <2>2, <2>3, <2>4
<1>11. ASSUME NEW p \in Callers, Configure(p) PROVE TypeInv'
  <2>1. PICK s \in {"system", "local"} \cap DOMAIN Docs,
             asked \in {Nothing} \cup [{"k3s"} -> {"default"}] :
          BeginEdit(p, s, Over(asked, ReadConfig))
    BY <1>11 DEF Configure
  <2>2. Legal(ReadConfig)
    BY <1>11, ReadLegal DEF Configure
  <2>3. Legal(Over(asked, ReadConfig))
    BY <2>2, OverLegal
  <2> QED
    BY <2>1, <2>3, BeginEditType
<1>12. ASSUME NEW p \in Callers, RunCCApply(p) PROVE TypeInv'
  <2>1. StageType'
    BY <1>12 DEF RunCCApply, StageType, bounds
  <2> QED
    BY <1>0, <1>12, <2>1, CallType DEF RunCCApply, Plans
<1>13. CASE Reboot
  <2>1. /\ kernelName' = "" /\ etcName' = "" /\ hosts' = NoHosts
        /\ authorized' \in {authorized, {}} /\ k3sBin' \in {k3sBin, "none"}
        /\ k3s' = NoK3s /\ installing' = FALSE
    BY <1>13 DEF Reboot
  <2>2. FilesType'
    BY <2>1, NamesType DEF FilesType, HostsType, K3sType, NoHosts
  <2>3. /\ source' = [s \in DOMAIN Docs |-> IF s \in {"cloud", "userdata"} THEN Nothing ELSE source[s]]
        /\ draft' = Nothing /\ editing' = ""
    BY <1>13 DEF Reboot
  <2>4. SourcesType'
    BY <2>3, NothingLegal DEF SourcesType
  <2>5. events' \in 0 .. MaxEvents
    BY <1>13, EventType DEF Reboot
  <2>6. StageType'
    BY <1>13, <2>5 DEF Reboot, StageType
  <2>7. Idle'
    BY <1>13 DEF Reboot, Idle
  <2>8. PlanType' /\ LocalsType'
    BY <2>7, IdleType, PTL
  <2> QED
    BY <2>2, <2>4, <2>6, <2>8
<1>14. CASE UNCHANGED vars
  <2>1. /\ UNCHANGED fileVars /\ UNCHANGED procVars /\ UNCHANGED histVars /\ UNCHANGED bounds
        /\ UNCHANGED worldVars
    BY <1>14 DEF vars
  <2>2. FilesType' /\ SourcesType' /\ StageType'
    BY ZenonT(60), <2>1 DEF fileVars, bounds, worldVars, FilesType, SourcesType, StageType
  <2>3. PlanType' /\ LocalsType'
    BY SMTT(60), <2>1 DEF procVars, histVars, PlanType, LocalsType
  <2> QED
    BY <2>2, <2>3
<1> QED
  BY <1>1, <1>2, <1>3, <1>4, <1>5, <1>6, <1>7, <1>8, <1>9, <1>10, <1>11, <1>12, <1>13, <1>14
     DEF Next

LEMMA TypeInit == Init => TypeInv
<1> SUFFICES ASSUME Init PROVE TypeInv
  OBVIOUS
<1>1. FilesType
  BY NamesType DEF Init, FilesType, HostsType, K3sType, NoHosts
<1>2. SourcesType
  <2>1. ASSUME NEW s \in DOMAIN Docs PROVE source[s] = Malformed \/ Legal(source[s])
    BY FoundLegal, NothingLegal DEF Init
  <2> QED
    BY <2>1, NothingLegal DEF Init, SourcesType
<1>3. StageType
  <2>1. /\ mode \in {"local", "live", "install"} /\ phase = "off" /\ editor = ""
        /\ failed = FALSE /\ events = 0
    BY DEF Init
  <2>2. events \in 0 .. MaxEvents
    <3>1. events = 0
      BY DEF Init
    <3>2. MaxEvents \in Nat
      BY ConfigBound
    <3> QED
      BY <3>1, <3>2
  <2>3. failed \in BOOLEAN
    BY <2>1
  <2>4. mode \in {"local", "live", "install"} /\ phase = "off" /\ editor = ""
    BY <2>1
  <2> QED
    BY <2>2, <2>3, <2>4 DEF StageType
<1>4. PlanType /\ LocalsType
  BY IdleType DEF Init, Idle
<1> QED
  BY <1>1, <1>2, <1>3, <1>4 DEF TypeInv

\* Every call reads documents of the six readers, makes of them a configuration of
\* known fields, and runs appliers of its plan on it (config/read.go:48-54,
\* cc/apply.go:10-66).
THEOREM TypeCorrect == Spec => []TypeOK
<1>1. Init => TypeInv
  BY TypeInit
<1>2. TypeInv /\ [Next]_vars => TypeInv'
  BY TypeNext
<1>3. TypeInv => TypeOK
  BY TypeEnough
<1> QED
  BY <1>1, <1>2, <1>3, PTL DEF Spec

-----------------------------------------------------------------------------
(* What a whole apply leaves behind it, applier by applier.                 *)

\* What the applier f of a whole `maculaos config` (run), or of the boot, has to
\* leave when it ran on the configuration doc.
Applied(f, doc, run) ==
  /\ f = "hostname" /\ f \in DOMAIN doc =>
       kernelName = doc[f] /\ etcName = doc[f] /\ hosts.name \in {"", doc[f]}
  /\ f = "keys" /\ f \in DOMAIN doc =>
       doc[f] \ (IF run THEN {} ELSE Remote) \subseteq authorized
  /\ f = "env" /\ f \in DOMAIN doc =>
       \A v \in DOMAIN doc[f] : v \in DOMAIN env /\ env[v] = doc[f][v]
  /\ f \in {"wifi", "sysctls"} /\ f \in DOMAIN doc => done[f] = doc[f]
  /\ f = "dns" => done[f] = IF f \in DOMAIN doc THEN doc[f] ELSE "8.8.8.8"
  /\ f \in {"modules", "runcmd"} /\ f \in DOMAIN doc => doc[f] \subseteq done[f]
  /\ f = "k3s" /\ run /\ mode # "install" =>
       k3s = [there |-> TRUE, args |-> IF f \in DOMAIN doc THEN doc[f] ELSE "default",
              restarted |-> TRUE]
  /\ f = "install" /\ mode = "install" => installing

\* How far the first applier of todo is.
Midway(p) ==
  /\ at[p] \in {"ask", "etc", "hosts", "empty", "fill"} => kernelName = cfg[p].hostname
  /\ at[p] \in {"etc", "hosts", "empty", "fill"} => name[p] = cfg[p].hostname
  /\ at[p] \in {"hosts", "empty", "fill"} => etcName = cfg[p].hostname
  /\ at[p] \in {"key", "write"} =>
       /\ left[p] # {} /\ left[p] \subseteq cfg[p].keys
       /\ cfg[p].keys \ (left[p] \cup IF WithNet(p) THEN {} ELSE Remote) \subseteq authorized
  /\ at[p] = "write" => got[p].keys = authorized

\* An apply that nothing has disturbed since it read the sources: no other call, no
\* edit, no failure.
Undisturbed(p) == clean[p] /\ todo[p] # <<>> /\ plan[p] \in {BootApply, RunApply}

Progress(p) ==
  /\ \A f \in Range(plan[p]) : f \in Range(todo[p]) \/ Applied(f, cfg[p], WithNet(p))
  /\ Midway(p)

Solitude ==
  /\ \A p, q \in Procs : clean[p] /\ todo[p] # <<>> /\ todo[q] # <<>> => q = p
  /\ settled # "none" => \A p \in Procs : todo[p] = <<>>
  /\ phase \notin {"up", "served"} =>
       editor = "" /\ \A p \in Procs : todo[p] # <<>> => p = "boot"
  /\ phase \in {"off", "initrd", "mode", "setup"} => settled = "none"
  /\ installing => mode = "install"

Faithful ==
  \A p \in Procs : Undisturbed(p) =>
    phase \in {"config", "up", "served"} /\ cfg[p] = ReadConfig /\ Progress(p)

\* An apply of the plan is over, and left what its configuration, that of the
\* sources, asks for.
Landed ==
  /\ DOMAIN source = DOMAIN Docs /\ phase # "initrd"
  /\ settled \in {"none", "boot", "run"} /\ (installing => mode = "install")
  /\ \E doc \in {ReadConfig}, run \in BOOLEAN :
       /\ run <=> settled = "run"
       /\ \A f \in Range(IF run THEN RunApply ELSE BootApply) : Applied(f, doc, run)

LEMMA PlanParts ==
  /\ {"modules", "sysctls", "hostname", "dns", "wifi", "keys", "env"} \subseteq Range(BootApply)
  /\ {"modules", "sysctls", "hostname", "dns", "wifi", "keys", "env", "runcmd", "install",
      "k3s"} \subseteq Range(RunApply)
  /\ BootApply # RunApply /\ BootApply # InitApply /\ RunApply # InitApply
  /\ InstallApply # BootApply /\ InstallApply # RunApply
<1>1. DOMAIN RunApply = 1 .. 12 /\ DOMAIN BootApply = 1 .. 12
  BY DEF RunApply, BootApply
<1>2. {"modules", "sysctls", "hostname", "dns", "wifi", "keys", "env"} \subseteq Range(BootApply)
  BY <1>1 DEF BootApply, Range
<1>3. {"modules", "sysctls", "hostname", "dns", "wifi", "keys", "env", "runcmd", "install",
      "k3s"} \subseteq Range(RunApply)
  BY <1>1 DEF RunApply, Range
<1>4. BootApply[1] # RunApply[1]
  BY DEF BootApply, RunApply
<1>5. Len(BootApply) = 12 /\ Len(RunApply) = 12 /\ Len(InitApply) = 6 /\ Len(InstallApply) = 1
  BY DEF BootApply, RunApply, InitApply, InstallApply
<1> QED
  BY <1>2, <1>3, <1>4, <1>5

\* Then the system is what the sources say.
LEMMA LandedEnough == Landed => Converged
<1> SUFFICES ASSUME Landed, settled # "none" PROVE Converged
  BY DEF Converged
<1>1. PICK doc \in {ReadConfig}, run \in BOOLEAN :
        /\ run <=> settled = "run"
        /\ \A f \in Range(IF run THEN RunApply ELSE BootApply) : Applied(f, doc, run)
  BY DEF Landed
<1>2. \A f : (Named(f) <=> f \in DOMAIN doc) /\ (Named(f) => Says(f) = doc[f])
  BY <1>1, ReadSays DEF Landed
<1>3. \A f \in {"modules", "sysctls", "hostname", "dns", "wifi", "keys", "env"} : Applied(f, doc, run)
  BY <1>1, PlanParts
<1>4. run => \A f \in {"runcmd", "install", "k3s"} : Applied(f, doc, run)
  BY <1>1, PlanParts
<1>5. Named("hostname") => /\ kernelName = Says("hostname") /\ etcName = kernelName
                            /\ hosts.name \in {"", kernelName}
  <2>1. "hostname" \in DOMAIN doc =>
          kernelName = doc["hostname"] /\ etcName = doc["hostname"] /\ hosts.name \in {"", doc["hostname"]}
    BY <1>3 DEF Applied
  <2> QED
    BY <1>2, <2>1
<1>6. Named("keys") => Says("keys") \ (IF settled = "boot" THEN Remote ELSE {}) \subseteq authorized
  <2>1. "keys" \in DOMAIN doc => doc["keys"] \ (IF run THEN {} ELSE Remote) \subseteq authorized
    BY <1>3 DEF Applied
  <2>2. (IF settled = "boot" THEN Remote ELSE {}) = (IF run THEN {} ELSE Remote)
    BY <1>1 DEF Landed
  <2> QED
    BY <1>2, <2>1, <2>2
<1>7. Named("env") => \A v \in DOMAIN Says("env") : v \in DOMAIN env /\ env[v] = Says("env")[v]
  <2>1. "env" \in DOMAIN doc =>
          \A v \in DOMAIN doc["env"] : v \in DOMAIN env /\ env[v] = doc["env"][v]
    BY <1>3 DEF Applied
  <2> QED
    BY <1>2, <2>1
<1>8. /\ \A f \in {"wifi", "dns", "sysctls"} : Named(f) => done[f] = Says(f)
      /\ ~Named("dns") => done["dns"] = "8.8.8.8"
  <2>1. \A f \in {"wifi", "sysctls"} : f \in DOMAIN doc => done[f] = doc[f]
    BY <1>3 DEF Applied
  <2>2. done["dns"] = IF "dns" \in DOMAIN doc THEN doc["dns"] ELSE "8.8.8.8"
    BY <1>3 DEF Applied
  <2> QED
    BY <1>2, <2>1, <2>2
<1>9. \A f \in {"modules"} \cup IF settled = "run" THEN {"runcmd"} ELSE {} :
        Named(f) => Says(f) \subseteq done[f]
  <2>1. "modules" \in DOMAIN doc => doc["modules"] \subseteq done["modules"]
    BY <1>3 DEF Applied
  <2>2. run /\ "runcmd" \in DOMAIN doc => doc["runcmd"] \subseteq done["runcmd"]
    BY <1>4 DEF Applied
  <2> QED
    BY <1>1, <1>2, <2>1, <2>2
<1>10. settled = "run" /\ mode # "install" =>
         k3s = [there |-> TRUE, args |-> IF Named("k3s") THEN Says("k3s") ELSE "default",
                restarted |-> TRUE]
  <2>1. run /\ mode # "install" =>
          k3s = [there |-> TRUE, args |-> IF "k3s" \in DOMAIN doc THEN doc["k3s"] ELSE "default",
                 restarted |-> TRUE]
    BY <1>4 DEF Applied
  <2>2. (IF "k3s" \in DOMAIN doc THEN doc["k3s"] ELSE "default")
          = (IF Named("k3s") THEN Says("k3s") ELSE "default")
    BY <1>2
  <2> QED
    BY <1>1, <2>1, <2>2
<1>11. settled = "run" => (installing <=> mode = "install")
  <2>1. run => (mode = "install" => installing)
    BY <1>4 DEF Applied
  <2> QED
    BY <1>1, <2>1 DEF Landed
<1> QED
  BY <1>5, <1>6, <1>7, <1>8, <1>9, <1>10, <1>11 DEF Converged

\* What is read depends on the sources, and on whether the disk is mounted.
LEMMA SameRead ==
  ASSUME UNCHANGED source, phase' = "initrd" <=> phase = "initrd"
  PROVE  ReadConfig' = ReadConfig
<1>1. Readable' = Readable
  BY DEF Readable
<1> QED
  BY <1>1 DEF ReadConfig

LEMMA SameSays ==
  ASSUME UNCHANGED source
  PROVE  \A f : (Named(f)' <=> Named(f)) /\ Says(f)' = Says(f)
  BY DEF Named, Says, Naming

\* A step that leaves the files and the sources alone.
LEMMA StillConverged ==
  ASSUME UNCHANGED fileVars, UNCHANGED <<source, mode, settled>>, Converged
  PROVE  Converged'
  BY SameSays DEF Converged, fileVars

ConvInv ==
  TypeInv /\ Holds /\ DOMAIN done = Plain /\ Solitude /\ Faithful /\ Converged

\* A step of the applier leaves what the others left.
Keeps(p) ==
  \A f \in Range(plan[p]) \ {Head(todo[p])}, doc \in {cfg[p]}, run \in {WithNet(p)} :
    Applied(f, doc, run) => Applied(f, doc, run)'

\* The applier leaves what it is for.
Gains(p) ==
  \A f \in {Head(todo[p])}, doc \in {cfg[p]}, run \in {WithNet(p)} : Applied(f, doc, run)'

\* The other processes are where they were.
Apart(p) == \A q \in Procs \ {p} : todo'[q] = todo[q] /\ clean'[q] = clean[q]

\* An apply that is under way is the only one that nothing disturbed.
LEMMA SolitudeKept ==
  ASSUME TypeInv, Solitude, Faithful, NEW p \in Procs, todo[p] # <<>>, Apart(p),
         UNCHANGED worldVars, installing' => installing \/ mode = "install",
         clean'[p] /\ todo'[p] # <<>> => clean[p],
         settled' # settled => Undisturbed(p) /\ todo'[p] = <<>>
  PROVE  /\ Solitude' /\ settled = "none"
         /\ \A q \in Procs \ {p} : ~Undisturbed(q)'
<1>1. UNCHANGED <<mode, phase, editor>>
  BY DEF worldVars
<1>2. settled = "none"
  BY DEF Solitude
<1>3. \A q \in Procs : /\ todo'[q] # <<>> => todo[q] # <<>>
                       /\ clean'[q] /\ todo'[q] # <<>> => clean[q]
  BY DEF Apart
<1>4. \A x, q \in Procs : clean'[x] /\ todo'[x] # <<>> /\ todo'[q] # <<>> => q = x
  BY <1>3 DEF Solitude
<1>5. ASSUME settled' # "none"
      PROVE  /\ \A q \in Procs : todo'[q] = <<>>
             /\ phase \notin {"off", "initrd", "mode", "setup"}
  <2>1. Undisturbed(p) /\ todo'[p] = <<>>
    BY <1>2, <1>5
  <2>2. \A q \in Procs \ {p} : todo[q] = <<>>
    BY <2>1 DEF Undisturbed, Solitude
  <2>3. phase \in {"config", "up", "served"}
    BY <2>1 DEF Faithful
  <2> QED
    BY <2>1, <2>2, <2>3 DEF Apart
<1>6. phase' \notin {"up", "served"} =>
        editor' = "" /\ \A q \in Procs : todo'[q] # <<>> => q = "boot"
  BY <1>1, <1>3 DEF Solitude
<1>7. installing' => mode' = "install"
  BY <1>1 DEF Solitude
<1>8. Solitude'
  BY <1>1, <1>4, <1>5, <1>6, <1>7 DEF Solitude
<1>9. ASSUME NEW q \in Procs \ {p} PROVE ~Undisturbed(q)'
  <2>1. ~(clean[q] /\ todo[q] # <<>>)
    BY DEF Solitude
  <2> QED
    BY <2>1 DEF Apart, Undisturbed
<1> QED
  BY <1>2, <1>8, <1>9

\* A step after which the applier goes on.
LEMMA GoesOn ==
  ASSUME ConvInv, NEW p \in Procs, todo[p] # <<>>,
         UNCHANGED <<todo, plan, cfg, settled>>, Apart(p), UNCHANGED worldVars,
         UNCHANGED installing, clean'[p] => clean[p],
         Undisturbed(p) /\ clean'[p] => Keeps(p) /\ Midway(p)'
  PROVE  Solitude' /\ Faithful' /\ Converged'
<1> USE DEF ConvInv
<1>1. /\ Solitude' /\ settled = "none"
      /\ \A q \in Procs \ {p} : ~Undisturbed(q)'
  BY SolitudeKept
<1>2. Converged'
  BY <1>1 DEF Converged
<1>3. ASSUME Undisturbed(p)'
      PROVE  /\ phase' \in {"config", "up", "served"} /\ cfg'[p] = ReadConfig'
             /\ Progress(p)'
  <2>1. Undisturbed(p) /\ Keeps(p) /\ Midway(p)'
    BY <1>3 DEF Undisturbed
  <2>2. phase \in {"config", "up", "served"} /\ cfg[p] = ReadConfig /\ Progress(p)
    BY <2>1 DEF Faithful
  <2>3. ReadConfig' = ReadConfig /\ phase' = phase
    BY SameRead DEF worldVars
  <2>4. PICK doc \in {cfg[p]}, run \in {WithNet(p)} : TRUE
    OBVIOUS
  <2>5. doc = cfg'[p] /\ run = WithNet(p)'
    BY <2>4 DEF WithNet
  <2>6. todo[p] \in Seq(Appliers)
    BY DEF TypeInv, PlanType
  <2>7. Head(todo[p]) \in Range(todo[p])
    BY <2>6, OneLess
  <2>8. ASSUME NEW f \in Range(plan[p]), f \notin Range(todo[p])
        PROVE  Applied(f, doc, run)'
    <3>1. Applied(f, doc, run)
      BY <2>2, <2>4, <2>8 DEF Progress
    <3> QED
      BY <2>1, <2>4, <2>7, <2>8, <3>1 DEF Keeps
  <2>9. \A f \in Range(plan'[p]) : f \in Range(todo'[p]) \/ Applied(f, doc, run)'
    BY <2>8
  <2>10. Progress(p)'
    BY <2>1, <2>5, <2>9 DEF Progress
  <2> QED
    BY <2>2, <2>3, <2>10
<1>4. Faithful'
  BY <1>1, <1>3 DEF Faithful
<1> QED
  BY <1>1, <1>2, <1>4

\* The step with which it ends.
LEMMA Finish ==
  ASSUME ConvInv, NEW p \in Procs, todo[p] # <<>>, NEW fine \in BOOLEAN,
         NextApplier(p, fine), UNCHANGED worldVars,
         installing' => installing \/ mode = "install",
         Undisturbed(p) /\ fine => Keeps(p) /\ Gains(p)
  PROVE  Solitude' /\ Faithful' /\ Converged'
<1> USE DEF ConvInv
<1> DEFINE rest == FromBusy(Tail(todo[p]), cfg[p])
<1>1. todo[p] \in Seq(Appliers)
  BY DEF TypeInv, PlanType
<1>2. /\ Tail(todo[p]) \in Seq(Appliers)
      /\ Range(todo[p]) = Range(Tail(todo[p])) \cup {Head(todo[p])}
  BY <1>1, OneLess
<1>3. \A f \in Range(Tail(todo[p])) : f \in DOMAIN cfg[p] \cup Always => f \in Range(rest)
  BY <1>2, Busy
<1> HIDE DEF rest
<1>4. /\ todo' = [todo EXCEPT ![p] = rest]
      /\ at' = [at EXCEPT ![p] = "start"]
      /\ plan' = IF rest = <<>> THEN [plan EXCEPT ![p] = <<>>] ELSE plan
      /\ cfg' = IF rest = <<>> THEN [cfg EXCEPT ![p] = Nothing] ELSE cfg
      /\ clean' = [clean EXCEPT ![p] = (clean[p] /\ fine) /\ ~(rest = <<>>)]
      /\ settled' = IF ~(rest = <<>> /\ clean[p] /\ fine) THEN settled
                    ELSE IF plan[p] = BootApply THEN "boot"
                    ELSE IF plan[p] = RunApply THEN "run" ELSE settled
  BY DEF NextApplier, rest
<1>5. /\ DOMAIN todo = Procs /\ DOMAIN clean = Procs /\ DOMAIN at = Procs
      /\ DOMAIN plan = Procs /\ DOMAIN cfg = Procs /\ clean[p] \in BOOLEAN
  BY DEF TypeInv, PlanType, LocalsType
<1>6. /\ todo'[p] = rest /\ at'[p] = "start" /\ Apart(p)
      /\ rest # <<>> => plan'[p] = plan[p] /\ cfg'[p] = cfg[p]
      /\ clean'[p] <=> clean[p] /\ fine /\ rest # <<>>
  BY <1>4, <1>5 DEF Apart
<1>7. settled' # settled => Undisturbed(p) /\ fine /\ rest = <<>>
  BY <1>4 DEF Undisturbed
<1>8. /\ Solitude' /\ settled = "none"
      /\ \A q \in Procs \ {p} : ~Undisturbed(q)'
  BY <1>6, <1>7, SolitudeKept
<1>9. CASE ~(Undisturbed(p) /\ fine)
  <2>1. Converged'
    BY <1>7, <1>8, <1>9 DEF Converged
  <2>2. ~Undisturbed(p)'
    BY <1>6, <1>9 DEF Undisturbed
  <2>3. Faithful'
    BY <1>8, <2>2 DEF Faithful
  <2> QED
    BY <1>8, <2>1, <2>3
<1>10. CASE Undisturbed(p) /\ fine
  <2>1. phase \in {"config", "up", "served"} /\ cfg[p] = ReadConfig /\ Progress(p)
    BY <1>10 DEF Faithful
  <2>2. ReadConfig' = ReadConfig /\ phase' = phase /\ source' = source
    BY SameRead DEF worldVars
  <2>3. PICK doc \in {cfg[p]}, run \in {WithNet(p)} : TRUE
    OBVIOUS
  <2>4. ASSUME NEW f \in Range(plan[p]), f \notin Range(rest)
        PROVE  Applied(f, doc, run)'
    <3>1. CASE f = Head(todo[p])
      BY <1>10, <2>3, <3>1 DEF Gains
    <3>2. CASE f # Head(todo[p]) /\ f \in Range(Tail(todo[p]))
      <4>1. f \notin DOMAIN doc /\ f \notin Always
        BY <1>3, <2>3, <2>4, <3>2
      <4> QED
        BY <4>1 DEF Applied, Always
    <3>3. CASE f # Head(todo[p]) /\ f \notin Range(Tail(todo[p]))
      <4>1. Applied(f, doc, run)
        BY <1>2, <2>1, <2>3, <3>3 DEF Progress
      <4> QED
        BY <1>10, <2>3, <3>3, <4>1 DEF Keeps
    <3> QED
      BY <3>1, <3>2, <3>3
  <2>5. CASE rest # <<>>
    <3>1. Converged'
      BY <1>7, <1>8, <2>5 DEF Converged
    <3>2. doc = cfg'[p] /\ run = WithNet(p)' /\ plan'[p] = plan[p]
      BY <1>6, <2>3, <2>5 DEF WithNet
    <3>3. Midway(p)'
      BY <1>6 DEF Midway
    <3>4. \A f \in Range(plan'[p]) : f \in Range(todo'[p]) \/ Applied(f, doc, run)'
      BY <1>6, <2>4, <3>2
    <3>5. Progress(p)'
      BY <3>2, <3>3, <3>4 DEF Progress
    <3>6. cfg'[p] = ReadConfig' /\ phase' \in {"config", "up", "served"}
      BY <2>1, <2>2, <2>3, <3>2
    <3>7. Faithful'
      BY <1>8, <3>5, <3>6 DEF Faithful
    <3> QED
      BY <1>8, <3>1, <3>7
  <2>6. CASE rest = <<>>
    <3>1. ~Undisturbed(p)'
      BY <1>6, <2>6 DEF Undisturbed
    <3>2. Faithful'
      BY <1>8, <3>1 DEF Faithful
    <3>3. run \in BOOLEAN /\ (run <=> settled' = "run") /\ settled' \in {"none", "boot", "run"}
          /\ plan[p] = IF run THEN RunApply ELSE BootApply
      BY <1>4, <1>10, <2>3, <2>6, PlanParts DEF Undisturbed, WithNet
    <3>4. Range(<<>>) = {}
      BY DEF Range
    <3>5. \A f \in Range(IF run THEN RunApply ELSE BootApply) : Applied(f, doc, run)'
      BY <2>4, <2>6, <3>3, <3>4
    <3>6. DOMAIN source' = DOMAIN Docs /\ phase' # "initrd" /\ (installing' => mode' = "install")
      BY <1>8, <2>1, <2>2 DEF TypeInv, SourcesType, Solitude
    <3>7. doc \in {ReadConfig'}
      BY <2>1, <2>2, <2>3
    <3>8. Landed'
      BY <3>3, <3>5, <3>6, <3>7 DEF Landed
    <3>9. Converged'
      BY <3>8, LandedEnough, PTL
    <3> QED
      BY <1>8, <3>2, <3>9
  <2> QED
    BY <2>5, <2>6
<1> QED
  BY <1>9, <1>10

\* What an applier has left is there while its files are as they were.
LEMMA AppliedStays ==
  ASSUME NEW f, NEW doc, NEW run, Applied(f, doc, run), UNCHANGED mode,
         f = "hostname" => UNCHANGED <<kernelName, etcName, hosts>>,
         f = "keys" => UNCHANGED authorized,
         f = "env" => UNCHANGED env,
         f \in {"wifi", "sysctls", "dns", "modules", "runcmd"} => done'[f] = done[f],
         f = "k3s" => UNCHANGED k3s,
         f = "install" => UNCHANGED installing
  PROVE  Applied(f, doc, run)'
<1>1. CASE f = "hostname"
  BY <1>1 DEF Applied
<1>2. CASE f = "keys"
  BY <1>2 DEF Applied
<1>3. CASE f = "env"
  BY <1>3 DEF Applied
<1>4. CASE f \in {"wifi", "sysctls"}
  BY <1>4 DEF Applied
<1>5. CASE f = "dns"
  BY <1>5 DEF Applied
<1>6. CASE f \in {"modules", "runcmd"}
  BY <1>6 DEF Applied
<1>7. CASE f = "k3s"
  BY <1>7 DEF Applied
<1>8. CASE f = "install"
  BY <1>8 DEF Applied
<1>9. CASE f \notin {"hostname", "keys", "env", "wifi", "sysctls", "dns", "modules", "runcmd",
                    "k3s", "install"}
  BY <1>9 DEF Applied
<1> QED
  BY <1>1, <1>2, <1>3, <1>4, <1>5, <1>6, <1>7, <1>8, <1>9

\* What each applier leaves alone.
LEMMA KeepsFiles ==
  ASSUME NEW p, UNCHANGED fileVars, UNCHANGED worldVars
  PROVE  Keeps(p)
  BY AppliedStays DEF Keeps, fileVars, worldVars

LEMMA KeepsHostname ==
  ASSUME NEW p, Head(todo[p]) = "hostname",
         UNCHANGED <<mode, authorized, env, done, k3s, installing>>
  PROVE  Keeps(p)
  BY AppliedStays DEF Keeps

LEMMA KeepsKeys ==
  ASSUME NEW p, Head(todo[p]) = "keys",
         UNCHANGED <<mode, kernelName, etcName, hosts, env, done, k3s, installing>>
  PROVE  Keeps(p)
  BY AppliedStays DEF Keeps

LEMMA KeepsEnvironment ==
  ASSUME NEW p, Head(todo[p]) = "env",
         UNCHANGED <<mode, kernelName, etcName, hosts, authorized, done, k3s, installing>>
  PROVE  Keeps(p)
  BY AppliedStays DEF Keeps

LEMMA KeepsK3S ==
  ASSUME NEW p, Head(todo[p]) = "k3s",
         UNCHANGED <<mode, kernelName, etcName, hosts, authorized, env, done, installing>>
  PROVE  Keeps(p)
  BY AppliedStays DEF Keeps

LEMMA KeepsInstall ==
  ASSUME NEW p, Head(todo[p]) = "install",
         UNCHANGED <<mode, kernelName, etcName, hosts, authorized, env, done, k3s>>
  PROVE  Keeps(p)
  BY AppliedStays DEF Keeps

LEMMA KeepsPut ==
  ASSUME NEW p, NEW v, DOMAIN done = Plain, Head(todo[p]) \in Plain, Put(Head(todo[p]), v),
         UNCHANGED mode
  PROVE  Keeps(p) /\ done'[Head(todo[p])] = v
<1>1. /\ done' = [done EXCEPT ![Head(todo[p])] = v]
      /\ UNCHANGED <<kernelName, etcName, hosts, authorized, env, k3s, installing>>
  BY DEF Put
<1>2. \A f : f # Head(todo[p]) /\ f \in Plain => done'[f] = done[f]
  BY <1>1
<1>3. {"wifi", "sysctls", "dns", "modules", "runcmd"} \subseteq Plain
  BY DEF Plain, Added
<1>4. Keeps(p)
  BY <1>1, <1>2, <1>3, AppliedStays DEF Keeps
<1> QED
  BY <1>1, <1>4

LEMMA GotoOn ==
  ASSUME ConvInv, NEW p \in Procs, NEW l, todo[p] # <<>>, Goto(p, l),
         UNCHANGED worldVars, UNCHANGED installing,
         Undisturbed(p) => Keeps(p) /\ Midway(p)'
  PROVE  Solitude' /\ Faithful' /\ Converged'
<1>1. UNCHANGED <<todo, plan, cfg, settled, clean>>
  BY DEF Goto, histVars
<1>2. Apart(p)
  BY <1>1 DEF Apart
<1> QED
  BY <1>1, <1>2, GoesOn

\* What is still ahead of an undisturbed apply, in the step that it takes.
LEMMA Partway ==
  ASSUME ConvInv, NEW p \in Procs, Undisturbed(p)
  PROVE  Midway(p)
  BY DEF ConvInv, Faithful, Progress

\* A step of one key: it ends, or goes on with the others.
LEMMA KeyOn ==
  ASSUME ConvInv, NEW p \in Procs, NEW k \in left[p], NEW fine \in BOOLEAN, NextKey(p, k, fine),
         todo[p] # <<>>, UNCHANGED worldVars, UNCHANGED installing,
         fine => Head(todo[p]) = "keys" /\ at[p] \in {"key", "write"},
         Undisturbed(p) /\ fine =>
           /\ Keeps(p)
           /\ cfg[p].keys \ ((left[p] \ {k}) \cup IF WithNet(p) THEN {} ELSE Remote)
                \subseteq authorized'
  PROVE  Solitude' /\ Faithful' /\ Converged'
<1>1. CASE left[p] = {k}
  <2>1. NextApplier(p, fine)
    BY <1>1 DEF NextKey
  <2>2. Undisturbed(p) /\ fine => Keeps(p) /\ Gains(p)
    <3> SUFFICES ASSUME Undisturbed(p), fine PROVE Keeps(p) /\ Gains(p)
      OBVIOUS
    <3>1. cfg[p].keys \ (IF WithNet(p) THEN {} ELSE Remote) \subseteq authorized'
      BY <1>1
    <3>2. Gains(p)
      BY ZenonT(60), <3>1 DEF Gains, Applied
    <3> QED
      BY <3>2
  <2> QED
    BY <2>1, <2>2, Finish
<1>2. CASE left[p] # {k}
  <2>1. /\ left' = [left EXCEPT ![p] = left[p] \ {k}]
        /\ at' = [at EXCEPT ![p] = "key"]
        /\ clean' = [clean EXCEPT ![p] = clean[p] /\ fine]
        /\ UNCHANGED <<todo, plan, cfg, settled>>
    BY <1>2 DEF NextKey
  <2>2. DOMAIN clean = Procs /\ clean[p] \in BOOLEAN /\ DOMAIN at = Procs /\ DOMAIN left = Procs
    BY DEF ConvInv, TypeInv, PlanType, LocalsType
  <2>3. Apart(p) /\ (clean'[p] <=> clean[p] /\ fine) /\ at'[p] = "key" /\ left'[p] = left[p] \ {k}
    BY <2>1, <2>2 DEF Apart
  <2>4. ASSUME Undisturbed(p), clean'[p] PROVE Midway(p)'
    <3>1. fine /\ left[p] \subseteq cfg[p].keys
      BY <2>3, <2>4, Partway DEF Midway
    <3>2. WithNet(p)' = WithNet(p) /\ cfg' = cfg
      BY <2>1 DEF WithNet
    <3>3. left'[p] # {} /\ left'[p] \subseteq cfg'[p].keys
      BY <1>2, <2>3, <3>1, <3>2
    <3>4. cfg'[p].keys \ (left'[p] \cup IF WithNet(p)' THEN {} ELSE Remote) \subseteq authorized'
      BY <2>3, <2>4, <3>1, <3>2
    <3> QED
      BY <2>3, <3>3, <3>4 DEF Midway
  <2> QED
    BY <2>1, <2>3, <2>4, GoesOn
<1> QED
  BY <1>1, <1>2

LEMMA ApplierConv ==
  ASSUME ConvInv, NEW p \in Procs, Applier(p)
  PROVE  Solitude' /\ Faithful' /\ Converged'
<1>0. /\ DOMAIN done = Plain /\ TRUE \in BOOLEAN /\ FALSE \in BOOLEAN
      /\ DOMAIN at = Procs /\ DOMAIN name = Procs /\ DOMAIN left = Procs /\ DOMAIN got = Procs
      /\ UNCHANGED worldVars => UNCHANGED mode
  BY DEF ConvInv, TypeInv, LocalsType, worldVars
<1>1. CASE ApplySettings(p)
  <2>1. /\ todo[p] # <<>> /\ Head(todo[p]) \in {"sources", "sysctls", "dns", "wifi"}
        /\ NextApplier(p, TRUE) /\ UNCHANGED worldVars
        /\ Put(Head(todo[p]), IF Sets(p, Head(todo[p])) THEN cfg[p][Head(todo[p])] ELSE "8.8.8.8")
    BY <1>1 DEF ApplySettings, Apply
  <2>2. Head(todo[p]) \in Plain /\ UNCHANGED installing
    BY <2>1 DEF Plain, Put
  <2>3. /\ Keeps(p)
        /\ done'[Head(todo[p])] = IF Sets(p, Head(todo[p])) THEN cfg[p][Head(todo[p])] ELSE "8.8.8.8"
    <3>1. PICK v \in {IF Sets(p, Head(todo[p])) THEN cfg[p][Head(todo[p])] ELSE "8.8.8.8"} : TRUE
      OBVIOUS
    <3>2. Put(Head(todo[p]), v)
      BY <2>1
    <3>3. Keeps(p) /\ done'[Head(todo[p])] = v
      BY <1>0, <2>2, <3>2, <2>1, KeepsPut
    <3> QED
      BY <3>3
  <2>4. ASSUME NEW f \in {Head(todo[p])}, NEW doc \in {cfg[p]}, NEW run \in {WithNet(p)}
        PROVE  Applied(f, doc, run)'
    <3>1. /\ f \in {"sources", "sysctls", "dns", "wifi"}
          /\ done'[f] = IF f \in DOMAIN doc THEN doc[f] ELSE "8.8.8.8"
      BY <2>1, <2>3 DEF Sets
    <3>2. CASE f = "dns"
      BY <3>1, <3>2 DEF Applied
    <3>3. CASE f = "sources"
      BY <3>3 DEF Applied
    <3>4. CASE f \in {"sysctls", "wifi"}
      BY <3>1, <3>4 DEF Applied
    <3> QED
      BY <3>1, <3>2, <3>3, <3>4
  <2>5. Gains(p)
    BY <2>4 DEF Gains
  <2> QED
    BY <1>0, <2>1, <2>2, <2>3, <2>5, Finish
<1>2. CASE LoadModules(p)
  <2>1. /\ todo[p] # <<>> /\ Head(todo[p]) = "modules" /\ NextApplier(p, TRUE) /\ UNCHANGED worldVars
        /\ Put("modules", done["modules"] \cup cfg[p]["modules"])
    BY <1>2 DEF LoadModules, Apply
  <2>2. Head(todo[p]) \in Plain /\ UNCHANGED installing
    BY <2>1 DEF Plain, Added, Put
  <2>3. Keeps(p) /\ done'["modules"] = done["modules"] \cup cfg[p]["modules"]
    BY <1>0, <2>1, <2>2, KeepsPut
  <2>4. Gains(p)
    BY ZenonT(60), <2>1, <2>3 DEF Gains, Applied
  <2> QED
    BY <1>0, <2>1, <2>2, <2>3, <2>4, Finish
<1>3. CASE WriteFiles(p)
  <2>1. /\ todo[p] # <<>> /\ Head(todo[p]) = "files" /\ NextApplier(p, TRUE) /\ UNCHANGED worldVars
        /\ Put("files", cfg[p]["files"])
    BY <1>3 DEF WriteFiles, Apply
  <2>2. Head(todo[p]) \in Plain /\ UNCHANGED installing
    BY <2>1 DEF Plain, Put
  <2>3. Keeps(p)
    BY <1>0, <2>1, <2>2, KeepsPut
  <2>4. Gains(p)
    BY <2>1 DEF Gains, Applied
  <2> QED
    BY <1>0, <2>1, <2>2, <2>3, <2>4, Finish
<1>4. CASE ExecuteCommand(p)
  <2>1. /\ todo[p] # <<>> /\ Head(todo[p]) \in {"runcmd", "bootcmd", "initcmd"}
        /\ NextApplier(p, TRUE) /\ UNCHANGED worldVars
        /\ Put(Head(todo[p]), done[Head(todo[p])] \cup cfg[p][Head(todo[p])])
    BY <1>4 DEF ExecuteCommand, Apply
  <2>2. Head(todo[p]) \in Plain /\ UNCHANGED installing
    BY <2>1 DEF Plain, Added, Put
  <2>3. Keeps(p) /\ done'[Head(todo[p])] = done[Head(todo[p])] \cup cfg[p][Head(todo[p])]
    BY <1>0, <2>1, <2>2, KeepsPut
  <2>4. Gains(p)
    BY ZenonT(60), <2>1, <2>3 DEF Gains, Applied
  <2> QED
    BY <1>0, <2>1, <2>2, <2>3, <2>4, Finish
<1>5. CASE SetPassword(p)
  <2>1. /\ todo[p] # <<>> /\ Head(todo[p]) = "password" /\ NextApplier(p, TRUE)
        /\ UNCHANGED worldVars /\ UNCHANGED fileVars
    BY <1>5 DEF SetPassword, Apply
  <2>2. Keeps(p) /\ UNCHANGED installing
    BY <2>1, KeepsFiles DEF fileVars
  <2>3. Gains(p)
    BY <2>1 DEF Gains, Applied
  <2> QED
    BY <1>0, <2>1, <2>2, <2>3, Finish
<1>6. CASE ApplyHostname(p)
  <2>1. /\ todo[p] # <<>> /\ Head(todo[p]) = "hostname" /\ Goto(p, "ask") /\ UNCHANGED worldVars
        /\ UNCHANGED <<authorized, env, done, k3s, installing>> /\ kernelName' = cfg[p].hostname
    BY <1>6 DEF ApplyHostname, At
  <2>2. Keeps(p)
    BY <1>0, <2>1, KeepsHostname
  <2>3. at'[p] = "ask" /\ cfg' = cfg
    BY <1>0, <2>1 DEF Goto
  <2>4. Midway(p)'
    BY <2>1, <2>3 DEF Midway
  <2> QED
    BY <2>1, <2>2, <2>4, GotoOn
<1>7. CASE AskName(p)
  <2>1. /\ todo[p] # <<>> /\ at[p] = "ask" /\ Goto(p, "etc") /\ UNCHANGED worldVars
        /\ UNCHANGED fileVars /\ name' = [name EXCEPT ![p] = kernelName]
    BY <1>7 DEF AskName, At
  <2>2. Keeps(p) /\ UNCHANGED <<kernelName, installing>>
    BY <2>1, KeepsFiles DEF fileVars
  <2>3. at'[p] = "etc" /\ cfg' = cfg /\ name'[p] = kernelName
    BY <1>0, <2>1 DEF Goto
  <2>4. Undisturbed(p) => Midway(p)'
    BY <2>1, <2>2, <2>3, Partway DEF Midway
  <2> QED
    BY <2>1, <2>2, <2>4, GotoOn
<1>8. CASE WriteName(p)
  <2>1. /\ todo[p] # <<>> /\ Head(todo[p]) = "hostname" /\ at[p] = "etc" /\ Goto(p, "hosts")
        /\ UNCHANGED worldVars /\ UNCHANGED <<kernelName, authorized, env, done, k3s, installing, name>>
        /\ etcName' = name[p]
    BY <1>8 DEF WriteName, At
  <2>2. Keeps(p)
    BY <1>0, <2>1, KeepsHostname
  <2>3. at'[p] = "hosts" /\ cfg' = cfg
    BY <1>0, <2>1 DEF Goto
  <2>4. Undisturbed(p) => Midway(p)'
    BY <2>1, <2>3, Partway DEF Midway
  <2> QED
    BY <2>1, <2>2, <2>4, GotoOn
<1>9. CASE ReadHosts(p)
  <2>1. /\ todo[p] # <<>> /\ at[p] = "hosts" /\ UNCHANGED worldVars /\ UNCHANGED fileVars
    BY <1>9 DEF ReadHosts, At
  <2>2. Keeps(p) /\ UNCHANGED <<kernelName, etcName, installing>>
    BY <2>1, KeepsFiles DEF fileVars
  <2>3. CASE hosts.there
    <3>1. Goto(p, "empty") /\ UNCHANGED name
      BY <1>9, <2>3 DEF ReadHosts
    <3>2. at'[p] = "empty" /\ cfg' = cfg
      BY <1>0, <3>1 DEF Goto
    <3>3. Undisturbed(p) => Midway(p)'
      BY <2>1, <2>2, <3>1, <3>2, Partway DEF Midway
    <3> QED
      BY <2>1, <2>2, <3>1, <3>3, GotoOn
  <2>4. CASE ~hosts.there
    <3>1. NextApplier(p, FALSE)
      BY <1>9, <2>4 DEF ReadHosts
    <3> QED
      BY <1>0, <2>1, <2>2, <3>1, Finish
  <2> QED
    BY <2>3, <2>4
<1>10. CASE EmptyHosts(p)
  <2>1. /\ todo[p] # <<>> /\ Head(todo[p]) = "hostname" /\ at[p] = "empty" /\ Goto(p, "fill")
        /\ UNCHANGED worldVars
        /\ UNCHANGED <<kernelName, etcName, authorized, env, done, k3s, installing, name>>
    BY <1>10 DEF EmptyHosts, At
  <2>2. Keeps(p)
    BY <1>0, <2>1, KeepsHostname
  <2>3. at'[p] = "fill" /\ cfg' = cfg
    BY <1>0, <2>1 DEF Goto
  <2>4. Undisturbed(p) => Midway(p)'
    BY <2>1, <2>3, Partway DEF Midway
  <2> QED
    BY <2>1, <2>2, <2>4, GotoOn
<1>11. CASE FillHosts(p)
  <2>1. /\ todo[p] # <<>> /\ Head(todo[p]) = "hostname" /\ at[p] = "fill" /\ NextApplier(p, TRUE)
        /\ UNCHANGED worldVars
        /\ UNCHANGED <<kernelName, etcName, authorized, env, done, k3s, installing>>
        /\ hosts' = [got[p].hosts EXCEPT !.name = IF @ = "" THEN "" ELSE name[p]]
    BY <1>11 DEF FillHosts, At
  <2>2. Keeps(p)
    BY <1>0, <2>1, KeepsHostname
  <2>3. got[p].hosts \in HostsType
    BY DEF ConvInv, TypeInv, LocalsType
  <2>4. hosts'.name \in {"", name[p]}
    BY <2>1, <2>3 DEF HostsType
  <2>5. Undisturbed(p) => Gains(p)
    BY ZenonT(60), <2>1, <2>4, Partway DEF Midway, Gains, Applied
  <2> QED
    BY <1>0, <2>1, <2>2, <2>5, Finish
<1>12. CASE ApplySSHKeys(p)
  <2>1. /\ todo[p] # <<>> /\ Head(todo[p]) = "keys" /\ UNCHANGED worldVars /\ UNCHANGED fileVars
    BY <1>12 DEF ApplySSHKeys, At
  <2>2. Keeps(p) /\ UNCHANGED <<kernelName, etcName, installing>>
    BY <2>1, KeepsFiles DEF fileVars
  <2>3. CASE cfg[p].keys # {}
    <3>1. left' = [left EXCEPT ![p] = cfg[p].keys] /\ Goto(p, "key")
      BY <1>12, <2>3 DEF ApplySSHKeys
    <3>2. at'[p] = "key" /\ cfg' = cfg /\ left'[p] = cfg[p].keys
      BY <1>0, <3>1 DEF Goto
    <3>3. Midway(p)'
      BY <2>3, <3>2 DEF Midway
    <3> QED
      BY <2>1, <2>2, <3>1, <3>3, GotoOn
  <2>4. CASE cfg[p].keys = {}
    <3>1. NextApplier(p, TRUE)
      BY <1>12, <2>4 DEF ApplySSHKeys
    <3>2. Gains(p)
      BY ZenonT(60), <2>1, <2>4 DEF Gains, Applied
    <3> QED
      BY <1>0, <2>1, <2>2, <3>1, <3>2, Finish
  <2> QED
    BY <2>3, <2>4
<1>13. CASE SkipKey(p)
  <2>1. /\ todo[p] # <<>> /\ Head(todo[p]) = "keys" /\ at[p] = "key"
        /\ UNCHANGED worldVars /\ UNCHANGED fileVars
    BY <1>13 DEF SkipKey, At
  <2>2. Keeps(p) /\ UNCHANGED <<authorized, installing>>
    BY <2>1, KeepsFiles DEF fileVars
  <2>3. PICK k \in left[p] : ~Reads(p, k) /\ NextKey(p, k, TRUE)
    BY <1>13 DEF SkipKey
  <2>4. k \in Remote /\ ~WithNet(p)
    BY <2>3 DEF Reads
  <2>5. Undisturbed(p) =>
          cfg[p].keys \ ((left[p] \ {k}) \cup IF WithNet(p) THEN {} ELSE Remote) \subseteq authorized'
    BY <2>1, <2>2, <2>4, Partway DEF Midway
  <2> QED
    BY <1>0, <2>1, <2>2, <2>3, <2>5, KeyOn
<1>14. CASE ReadKeys(p)
  <2>1. /\ todo[p] # <<>> /\ at[p] = "key" /\ Goto(p, "write") /\ UNCHANGED left
        /\ UNCHANGED worldVars /\ UNCHANGED fileVars
        /\ got' = [got EXCEPT ![p].keys = authorized]
    BY <1>14 DEF ReadKeys, At
  <2>2. Keeps(p) /\ UNCHANGED <<authorized, installing>>
    BY <2>1, KeepsFiles DEF fileVars
  <2>3. DOMAIN got[p] = {"hosts", "keys", "env"}
    BY DEF ConvInv, TypeInv, LocalsType
  <2>4. at'[p] = "write" /\ cfg' = cfg /\ WithNet(p)' = WithNet(p) /\ got'[p].keys = authorized
    BY <1>0, <2>1, <2>3 DEF Goto, WithNet
  <2>5. Undisturbed(p) => Midway(p)'
    BY <2>1, <2>2, <2>4, Partway DEF Midway
  <2> QED
    BY <2>1, <2>2, <2>5, GotoOn
<1>15. CASE WriteKeys(p)
  <2>1. /\ todo[p] # <<>> /\ Head(todo[p]) = "keys" /\ at[p] = "write" /\ UNCHANGED worldVars
        /\ UNCHANGED <<kernelName, etcName, hosts, env, done, k3s, installing>>
    BY <1>15 DEF WriteKeys, At
  <2>2. Keeps(p)
    BY <1>0, <2>1, KeepsKeys
  <2>3. PICK k \in left[p] : authorized' = got[p].keys \cup {k} /\ NextKey(p, k, TRUE)
    BY <1>15 DEF WriteKeys
  <2>4. Undisturbed(p) =>
          cfg[p].keys \ ((left[p] \ {k}) \cup IF WithNet(p) THEN {} ELSE Remote) \subseteq authorized'
    BY <2>1, <2>3, Partway DEF Midway
  <2> QED
    BY <1>0, <2>1, <2>2, <2>3, <2>4, KeyOn
<1>16. CASE ApplyEnvironment(p)
  <2>1. /\ todo[p] # <<>> /\ Goto(p, "wipe") /\ UNCHANGED worldVars /\ UNCHANGED fileVars
    BY <1>16 DEF ApplyEnvironment, At
  <2>2. Keeps(p) /\ UNCHANGED installing
    BY <2>1, KeepsFiles DEF fileVars
  <2>3. at'[p] = "wipe"
    BY <1>0, <2>1 DEF Goto
  <2>4. Midway(p)'
    BY <2>3 DEF Midway
  <2> QED
    BY <2>1, <2>2, <2>4, GotoOn
<1>17. CASE EmptyEnvironment(p)
  <2>1. /\ todo[p] # <<>> /\ Head(todo[p]) = "env" /\ Goto(p, "pour") /\ UNCHANGED worldVars
        /\ UNCHANGED <<kernelName, etcName, hosts, authorized, done, k3s, installing>>
    BY <1>17 DEF EmptyEnvironment, At
  <2>2. Keeps(p)
    BY <1>0, <2>1, KeepsEnvironment
  <2>3. at'[p] = "pour"
    BY <1>0, <2>1 DEF Goto
  <2>4. Midway(p)'
    BY <2>3 DEF Midway
  <2> QED
    BY <2>1, <2>2, <2>4, GotoOn
<1>18. CASE WriteEnvironment(p)
  <2>1. /\ todo[p] # <<>> /\ Head(todo[p]) = "env" /\ NextApplier(p, TRUE) /\ UNCHANGED worldVars
        /\ UNCHANGED <<kernelName, etcName, hosts, authorized, done, k3s, installing>>
        /\ env' = Over(got[p].env, cfg[p].env)
    BY <1>18 DEF WriteEnvironment, At
  <2>2. Keeps(p)
    BY <1>0, <2>1, KeepsEnvironment
  <2>3. \A v \in DOMAIN cfg[p].env : v \in DOMAIN env' /\ env'[v] = cfg[p].env[v]
    BY <2>1 DEF Over
  <2>4. Gains(p)
    BY ZenonT(60), <2>1, <2>3 DEF Gains, Applied
  <2> QED
    BY <1>0, <2>1, <2>2, <2>4, Finish
<1>19. CASE ApplyK3S(p)
  <2>1. /\ todo[p] # <<>> /\ Head(todo[p]) = "k3s" /\ NextApplier(p, TRUE) /\ UNCHANGED worldVars
        /\ UNCHANGED <<kernelName, etcName, hosts, authorized, env, done, installing>>
    BY <1>19 DEF ApplyK3S, At
  <2>2. Keeps(p)
    BY <1>0, <2>1, KeepsK3S
  <2>3. ASSUME WithNet(p), mode # "install"
        PROVE  k3s' = [there |-> TRUE, args |-> IF "k3s" \in DOMAIN cfg[p] THEN cfg[p].k3s ELSE "default",
                       restarted |-> TRUE]
    <3>1. Restart(p) /\ InstallsK3S(p)
      BY <2>3, PlanParts DEF WithNet, Restart, InstallsK3S
    <3>2. HasWork(p)
      BY <2>3, <3>1 DEF HasWork
    <3>3. (k3s.restarted \/ Restart(p)) = TRUE
      BY <3>1
    <3> QED
      BY <1>19, <3>2, <3>3 DEF ApplyK3S, Sets
  <2>4. Gains(p)
    BY ZenonT(60), <1>0, <2>1, <2>3 DEF Gains, Applied
  <2> QED
    BY <1>0, <2>1, <2>2, <2>4, Finish
<1>20. CASE ApplyInstall(p)
  <2>1. /\ todo[p] # <<>> /\ Head(todo[p]) = "install" /\ NextApplier(p, TRUE) /\ UNCHANGED worldVars
        /\ UNCHANGED <<kernelName, etcName, hosts, authorized, env, done, k3s>>
        /\ installing' = (installing \/ mode = "install")
    BY <1>20 DEF ApplyInstall, At
  <2>2. Keeps(p)
    BY <1>0, <2>1, KeepsInstall
  <2>3. mode' = "install" => installing'
    BY <1>0, <2>1
  <2>4. Gains(p)
    BY <2>1, <2>3 DEF Gains, Applied
  <2> QED
    BY <1>0, <2>1, <2>2, <2>4, Finish
<1>21. CASE Fail(p)
  <2>1. /\ todo[p] # <<>> /\ UNCHANGED worldVars /\ UNCHANGED fileVars
        /\ NextApplier(p, FALSE) \/ \E k \in left[p] : NextKey(p, k, FALSE)
    BY <1>21 DEF Fail
  <2>2. UNCHANGED installing
    BY <2>1 DEF fileVars
  <2>3. CASE NextApplier(p, FALSE)
    BY <1>0, <2>1, <2>2, <2>3, Finish
  <2>4. CASE \E k \in left[p] : NextKey(p, k, FALSE)
    BY <1>0, <2>1, <2>2, <2>4, KeyOn
  <2> QED
    BY <2>1, <2>3, <2>4
<1> QED
  BY <1>1, <1>2, <1>3, <1>4, <1>5, <1>6, <1>7, <1>8, <1>9, <1>10, <1>11, <1>12, <1>13, <1>14,
     <1>15, <1>16, <1>17, <1>18, <1>19, <1>20, <1>21 DEF Applier

LEMMA ProgressStays ==
  ASSUME UNCHANGED fileVars, UNCHANGED procVars, UNCHANGED mode, NEW q \in Procs, Progress(q)
  PROVE  Progress(q)'
<1>1. UNCHANGED <<kernelName, etcName, hosts, authorized, env, done, k3s, installing>>
  BY DEF fileVars
<1>2. UNCHANGED <<todo, plan, cfg, at, name, got, left>>
  BY DEF procVars
<1>3. PICK doc \in {cfg[q]}, run \in {WithNet(q)} : TRUE
  OBVIOUS
<1>4. doc = cfg'[q] /\ run = WithNet(q)'
  BY <1>2 DEF WithNet
<1>5. \A f \in Range(plan[q]) : f \in Range(todo[q]) \/ Applied(f, doc, run)
  BY DEF Progress
<1>6. ASSUME NEW f \in Range(plan'[q]) PROVE f \in Range(todo'[q]) \/ Applied(f, doc, run)'
  BY <1>1, <1>2, <1>5, AppliedStays
<1>7. Midway(q)'
  BY <1>1, <1>2 DEF Progress, Midway, WithNet
<1> QED
  BY <1>4, <1>6, <1>7 DEF Progress

\* A step of nobody.
LEMMA QuietConv ==
  ASSUME ConvInv, UNCHANGED fileVars, UNCHANGED procVars, UNCHANGED <<mode, source, clean, settled>>,
         phase \in {"config", "up", "served"} => phase' \in {"config", "up", "served"}
  PROVE  Faithful' /\ Converged'
<1> USE DEF ConvInv
<1>1. Converged'
  BY StillConverged
<1>2. ASSUME NEW q \in Procs, Undisturbed(q)'
      PROVE  phase' \in {"config", "up", "served"} /\ cfg'[q] = ReadConfig' /\ Progress(q)'
  <2>1. Undisturbed(q) /\ cfg' = cfg
    BY <1>2 DEF Undisturbed, procVars
  <2>2. phase \in {"config", "up", "served"} /\ cfg[q] = ReadConfig /\ Progress(q)
    BY <2>1 DEF Faithful
  <2>3. phase' \in {"config", "up", "served"}
    BY <2>2
  <2>4. ReadConfig' = ReadConfig
    BY <2>2, <2>3, SameRead
  <2>5. Progress(q)'
    BY <2>2, ProgressStays
  <2> QED
    BY <2>1, <2>2, <2>3, <2>4, <2>5
<1> QED
  BY <1>1, <1>2 DEF Faithful

\* A call that starts has everything ahead of it.
LEMMA StartConv ==
  ASSUME ConvInv, NEW p \in Procs, NEW appliers \in Plans, Start(p, appliers),
         UNCHANGED <<mode, source, editing>>,
         appliers \in {BootApply, RunApply} => phase # "initrd" /\ phase' \in {"config", "up", "served"},
         phase \in {"config", "up", "served"} => phase' \in {"config", "up", "served"},
         phase' \notin {"up", "served"} => phase \notin {"up", "served"} /\ p = "boot" /\ editor' = "",
         phase' \in {"off", "initrd", "mode", "setup"} => settled = "none"
  PROVE  Solitude' /\ Faithful' /\ Converged'
<1> USE DEF ConvInv
<1>1. /\ UNCHANGED fileVars /\ UNCHANGED <<at, name, got, left>> /\ UNCHANGED installing
      /\ todo[p] = <<>>
  BY DEF Start, fileVars
<1>2. CASE ~CanRead
  <2>1. UNCHANGED procVars /\ UNCHANGED <<todo, clean, settled>>
    BY <1>1, <1>2 DEF Start, procVars
  <2>2. Faithful' /\ Converged'
    BY <1>1, <2>1, QuietConv
  <2>3. Solitude'
    BY <1>1, <2>1 DEF Solitude
  <2> QED
    BY <2>2, <2>3
<1>3. CASE CanRead
  <2> DEFINE doc == ReadConfig
             rest == FromBusy(appliers, doc)
  <2>1. appliers \in Seq(Appliers)
    BY PlanRange
  <2>2. \A f \in Range(appliers) : f \in DOMAIN doc \cup Always => f \in Range(rest)
    BY <2>1, Busy
  <2> HIDE DEF rest
  <2>3. /\ todo' = [todo EXCEPT ![p] = rest]
        /\ plan' = [plan EXCEPT ![p] = appliers]
        /\ cfg' = [cfg EXCEPT ![p] = doc]
        /\ clean' = [q \in Procs |-> q = p /\ Running = {} /\ editing = ""]
        /\ settled' = "none"
    BY <1>3 DEF Start, rest
  <2>4. DOMAIN todo = Procs /\ DOMAIN plan = Procs /\ DOMAIN cfg = Procs
    BY DEF TypeInv, PlanType
  <2>5. /\ todo'[p] = rest /\ plan'[p] = appliers /\ cfg'[p] = doc
        /\ \A q \in Procs \ {p} : todo'[q] = todo[q]
        /\ \A q \in Procs : clean'[q] => q = p /\ \A x \in Procs : todo[x] = <<>>
    BY <2>3, <2>4 DEF Running
  <2> HIDE DEF doc
  <2>6. Solitude'
    <3>1. \A x, q \in Procs : clean'[x] /\ todo'[x] # <<>> /\ todo'[q] # <<>> => q = x
      BY <2>5
    <3>2. phase' \notin {"up", "served"} =>
            editor' = "" /\ \A q \in Procs : todo'[q] # <<>> => q = "boot"
      BY <2>5 DEF Solitude
    <3>3. installing' => mode' = "install"
      BY <1>1 DEF Solitude
    <3> QED
      BY <2>3, <3>1, <3>2, <3>3 DEF Solitude
  <2>7. Converged'
    BY <2>3 DEF Converged
  <2>8. ASSUME Undisturbed(p)'
        PROVE  phase' \in {"config", "up", "served"} /\ cfg'[p] = ReadConfig' /\ Progress(p)'
    <3>1. appliers \in {BootApply, RunApply}
      BY <2>5, <2>8 DEF Undisturbed
    <3>2. ReadConfig' = doc
      BY <3>1, SameRead DEF doc
    <3>3. PICK conf \in {doc}, run \in {WithNet(p)'} : TRUE
      OBVIOUS
    <3>4. at'[p] = "start"
      BY <1>1 DEF Holds
    <3>5. Midway(p)'
      BY <3>4 DEF Midway
    <3>6. ASSUME NEW f \in Range(appliers), f \notin Range(rest)
          PROVE  Applied(f, conf, run)'
      <4>1. f \notin DOMAIN conf /\ f \notin Always
        BY <2>2, <3>6
      <4> QED
        BY <4>1 DEF Applied, Always
    <3>7. \A f \in Range(plan'[p]) : f \in Range(todo'[p]) \/ Applied(f, conf, run)'
      BY <2>5, <3>6
    <3>8. Progress(p)'
      BY <2>5, <3>5, <3>7 DEF Progress
    <3> QED
      BY <2>5, <3>1, <3>2, <3>8
  <2>9. Faithful'
    BY <2>5, <2>8 DEF Faithful, Undisturbed
  <2> QED
    BY <2>6, <2>7, <2>9
<1> QED
  BY <1>2, <1>3

\* What disturbs whoever runs.
LEMMA DisturbedConv ==
  ASSUME ConvInv, clean' = [p \in Procs |-> FALSE], settled' = "none",
         installing' => mode' = "install",
         phase' \notin {"up", "served"} =>
           editor' = "" /\ \A p \in Procs : todo'[p] # <<>> => p = "boot"
  PROVE  Solitude' /\ Faithful' /\ Converged'
<1>1. \A p \in Procs : ~clean'[p]
  OBVIOUS
<1>2. Solitude'
  BY <1>1 DEF Solitude
<1>3. Faithful'
  BY <1>1 DEF Faithful, Undisturbed
<1>4. Converged'
  BY DEF Converged
<1> QED
  BY <1>2, <1>3, <1>4

LEMMA BeginEditConv ==
  ASSUME ConvInv, NEW who, NEW s, NEW doc, BeginEdit(who, s, doc)
  PROVE  Solitude' /\ Faithful' /\ Converged'
<1>1. /\ phase \in {"up", "served"} /\ UNCHANGED <<mode, phase>> /\ UNCHANGED installing
      /\ clean' = [p \in Procs |-> FALSE] /\ settled' = "none"
  BY DEF BeginEdit, Disturbed, fileVars
<1> QED
  BY <1>1, DisturbedConv DEF ConvInv, Solitude

LEMMA ConvNext == ConvInv /\ [Next]_vars => Solitude' /\ Faithful' /\ Converged'
<1> SUFFICES ASSUME ConvInv, [Next]_vars PROVE Solitude' /\ Faithful' /\ Converged'
  OBVIOUS
<1> USE DEF ConvInv
<1>0. "boot" \in Procs /\ "ccapply" \in Procs /\ Callers \subseteq Procs
  BY DEF Procs
<1>1. ASSUME NEW p \in Procs, Applier(p) PROVE Solitude' /\ Faithful' /\ Converged'
  BY <1>1, ApplierConv
<1>2. CASE ConfigInitrd
  <2>1. /\ UNCHANGED fileVars /\ UNCHANGED procVars /\ UNCHANGED <<mode, source, editor>>
        /\ UNCHANGED <<clean, settled>> /\ phase = "off" /\ phase' = "initrd"
        /\ UNCHANGED <<todo, installing>>
    BY <1>2 DEF ConfigInitrd, histVars, procVars, fileVars
  <2>2. Faithful' /\ Converged'
    BY <2>1, QuietConv
  <2>3. Solitude'
    BY <2>1 DEF Solitude
  <2> QED
    BY <2>2, <2>3
<1>3. CASE ApplyInitrd
  <2>1. /\ Start("boot", InitApply) /\ phase = "initrd" /\ phase' = "mode"
        /\ UNCHANGED <<mode, source, editing, editor>> /\ InitApply \in Plans
    BY <1>3 DEF ApplyInitrd, Plans
  <2>2. editor' = "" /\ settled = "none"
    BY <2>1 DEF Solitude
  <2> QED
    BY <1>0, <2>1, <2>2, PlanParts, StartConv
<1>4. CASE SetupHostname
  <2>1. /\ UNCHANGED <<mode, source, editor, installing, todo, clean, settled, plan>>
        /\ phase = "mode" /\ phase' = "setup"
    BY <1>4 DEF SetupHostname, Phase, procVars, histVars
  <2>2. settled = "none"
    BY <2>1 DEF Solitude
  <2>3. \A q \in Procs : ~Undisturbed(q)
    BY <2>1 DEF Faithful
  <2>4. Faithful'
    BY <2>1, <2>3 DEF Faithful, Undisturbed
  <2>5. Converged'
    BY <2>1, <2>2 DEF Converged
  <2>6. Solitude'
    BY <2>1 DEF Solitude
  <2> QED
    BY <2>4, <2>5, <2>6
<1>5. CASE SetupConfig
  <2>1. /\ Start("boot", BootApply) /\ phase = "setup" /\ phase' = "config"
        /\ UNCHANGED <<mode, source, editing, editor>> /\ BootApply \in Plans
    BY <1>5 DEF SetupConfig, Plans
  <2>2. editor' = ""
    BY <2>1 DEF Solitude
  <2> QED
    BY <1>0, <2>1, <2>2, StartConv
<1>6. CASE Runlevels
  <2>1. /\ UNCHANGED <<etcName, hosts, authorized, env, done, k3s, installing, mode, todo, plan, clean>>
        /\ phase = "config" /\ phase' = "up" /\ todo["boot"] = <<>> /\ kernelName' = etcName
        /\ settled' # "none" => UNCHANGED <<source, settled>>
    BY <1>6 DEF Runlevels, Phase, BootIdle, procVars
  <2>2. \A q \in Procs : todo[q] = <<>>
    BY <2>1 DEF Solitude
  <2>3. Faithful'
    BY <2>1, <2>2 DEF Faithful, Undisturbed
  <2>4. Converged'
    BY <2>1, SameSays DEF Converged
  <2>5. Solitude'
    BY <2>1, <2>2 DEF Solitude
  <2> QED
    BY <2>3, <2>4, <2>5
<1>7. CASE Ccapply
  <2>1. /\ Start("ccapply", RunApply) /\ phase = "up" /\ phase' = "served"
        /\ UNCHANGED <<mode, source, editing, editor>> /\ RunApply \in Plans
    BY <1>7 DEF Ccapply, Plans
  <2> QED
    BY <1>0, <2>1, StartConv
<1>8. ASSUME NEW p \in Callers, Call(p) PROVE Solitude' /\ Faithful' /\ Converged'
  <2>1. PICK appliers \in {RunApply, InstallApply} : Start(p, appliers)
    BY <1>8 DEF Call
  <2>2. /\ phase \in {"up", "served"} /\ phase' = phase /\ appliers \in Plans
        /\ UNCHANGED <<mode, source, editing, editor>>
    BY <1>8 DEF Call, worldVars, Plans
  <2> QED
    BY <1>0, <2>1, <2>2, StartConv
<1>9. CASE Edit
  BY <1>9, BeginEditConv DEF Edit
<1>10. CASE EndEdit
  <2>1. /\ UNCHANGED <<mode, phase, installing, todo>> /\ editor' \in {"", editor}
        /\ clean' = [p \in Procs |-> FALSE] /\ settled' = "none"
    BY <1>10 DEF EndEdit, Disturbed, procVars, fileVars
  <2> QED
    BY <2>1, DisturbedConv DEF Solitude
<1>11. ASSUME NEW p \in Callers, Configure(p) PROVE Solitude' /\ Faithful' /\ Converged'
  <2>1. PICK s \in {"system", "local"} \cap DOMAIN Docs,
             asked \in {Nothing} \cup [{"k3s"} -> {"default"}] :
          BeginEdit(p, s, Over(asked, ReadConfig))
    BY <1>11 DEF Configure
  <2>2. PICK doc \in {Over(asked, ReadConfig)} : TRUE
    OBVIOUS
  <2>3. BeginEdit(p, s, doc)
    BY <2>1
  <2> QED
    BY <2>3, BeginEditConv
<1>12. ASSUME NEW p \in Callers, RunCCApply(p) PROVE Solitude' /\ Faithful' /\ Converged'
  <2>1. /\ Start(p, InstallApply) /\ editor = p /\ phase' = phase
        /\ UNCHANGED <<mode, source, editing>> /\ InstallApply \in Plans
    BY <1>12 DEF RunCCApply, Plans
  <2>2. phase \in {"up", "served"}
    BY <2>1, CallersAssumption DEF Solitude
  <2> QED
    BY <1>0, <2>1, <2>2, PlanParts, StartConv
<1>13. CASE Reboot
  <2>1. /\ clean' = [p \in Procs |-> FALSE] /\ settled' = "none" /\ installing' = FALSE
        /\ editor' = "" /\ todo' = [p \in Procs |-> <<>>]
    BY <1>13 DEF Reboot
  <2> QED
    BY <2>1, DisturbedConv
<1>14. CASE UNCHANGED vars
  <2>1. /\ UNCHANGED fileVars /\ UNCHANGED procVars /\ UNCHANGED <<mode, phase, source, editor>>
        /\ UNCHANGED <<clean, settled>> /\ UNCHANGED <<todo, installing>>
    BY <1>14 DEF vars, worldVars, histVars, procVars, fileVars
  <2>2. Faithful' /\ Converged'
    BY <2>1, QuietConv
  <2>3. Solitude'
    BY <2>1 DEF Solitude
  <2> QED
    BY <2>2, <2>3
<1> QED
  BY <1>1, <1>2, <1>3, <1>4, <1>5, <1>6, <1>7, <1>8, <1>9, <1>10, <1>11, <1>12, <1>13, <1>14
     DEF Next

\* The plain fields are these, whatever they are applied with.
LEMMA DoneNext == DOMAIN done = Plain /\ [Next]_vars => DOMAIN done' = Plain
<1> SUFFICES ASSUME DOMAIN done = Plain, [Next]_vars PROVE DOMAIN done' = Plain
  OBVIOUS
<1> USE DEF Put, fileVars
<1>1. ASSUME NEW p \in Procs, Applier(p) PROVE DOMAIN done' = Plain
  <2>1. CASE ApplySettings(p) \/ LoadModules(p) \/ WriteFiles(p) \/ ExecuteCommand(p)
    <3>1. \E f, v : Put(f, v)
      BY <2>1 DEF ApplySettings, LoadModules, WriteFiles, ExecuteCommand
    <3> QED
      BY <3>1
  <2>2. CASE UNCHANGED done
    BY <2>2
  <2> QED
    BY <1>1, <2>1, <2>2
       DEF Applier, SetPassword, ApplyHostname, AskName, WriteName, ReadHosts, EmptyHosts,
           FillHosts, ApplySSHKeys, SkipKey, ReadKeys, WriteKeys, ApplyEnvironment,
           EmptyEnvironment, WriteEnvironment, ApplyK3S, ApplyInstall, Fail
<1>2. CASE ConfigInitrd \/ SetupHostname \/ Runlevels \/ Edit \/ EndEdit \/ UNCHANGED vars
  BY <1>2 DEF ConfigInitrd, SetupHostname, Runlevels, Edit, EndEdit, BeginEdit, vars
<1>3. CASE ApplyInitrd \/ SetupConfig \/ Ccapply
  BY <1>3 DEF ApplyInitrd, SetupConfig, Ccapply, Start
<1>4. ASSUME NEW p \in Callers, Call(p) \/ Configure(p) \/ RunCCApply(p)
      PROVE  DOMAIN done' = Plain
  BY <1>4 DEF Call, Configure, RunCCApply, Start, BeginEdit
<1>5. CASE Reboot
  BY <1>5 DEF Reboot
<1> QED
  BY <1>1, <1>2, <1>3, <1>4, <1>5 DEF Next

\* When a boot stage or a whole `maculaos config` comes to its end undisturbed, the
\* system is what the sources say, whatever happened before (cc/apply.go:10-66,
\* config/read.go:48-54).
THEOREM ApplyConverges == Spec => []Converged
<1>1. Init => ConvInv /\ Shape
  <2> SUFFICES ASSUME Init PROVE ConvInv /\ Shape
    OBVIOUS
  <2>1. TypeInv
    BY TypeInit
  <2>2. /\ todo = [p \in Procs |-> <<>>] /\ at = [p \in Procs |-> "start"]
        /\ got = [p \in Procs |-> NothingRead] /\ hosts = NoHosts
        /\ done = NothingDone /\ settled = "none" /\ editor = ""
        /\ clean = [p \in Procs |-> FALSE]
    BY DEF Init
  <2>3. installing = FALSE
    BY DEF Init
  <2>4. Shape /\ Holds
    BY <2>2 DEF Shape, Holds, HostFields, NothingRead, NoHosts
  <2>5. DOMAIN done = Plain
    BY <2>2 DEF NothingDone
  <2>6. Solitude /\ Converged
    BY <2>2, <2>3 DEF Solitude, Converged
  <2>7. Faithful
    BY <2>2 DEF Faithful, Undisturbed
  <2> QED
    BY <2>1, <2>4, <2>5, <2>6, <2>7 DEF ConvInv
<1>2. ConvInv /\ Shape /\ [Next]_vars => ConvInv' /\ Shape'
  BY TypeNext, ShapeNext, HoldsNext, DoneNext, ConvNext DEF ConvInv
<1>3. ConvInv => Converged
  BY DEF ConvInv
<1> QED
  BY <1>1, <1>2, <1>3, PTL DEF Spec

=============================================================================
