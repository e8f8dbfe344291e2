-------------------------- MODULE MaintenanceProofs --------------------------
(***************************************************************************)
(* Proofs about Maintenance, for any files, values, names and commands and *)
(* any number of saves and failing calls.                                  *)
(***************************************************************************)
EXTENDS Maintenance, FiniteSetTheorems, WellFoundedInduction, TLAPS

\* No reset's mark stands over a file of its list or over a save in progress.
MarkInv ==
  fresh => /\ \A f \in Erased : file[f] = "absent"
           /\ saving = {}

\* What a reset has removed so far is gone, as long as each removal went well and
\* nobody wrote beside it.
ErasingOf(p) ==
  job[p].cmd = "reset" =>
    (p \notin stirred /\ job[p].clean =>
       \A f \in Erased \ job[p].rest : file[f] = "absent")

\* Creations that follow each other: there is one at most, the name it was
\* given sorts after every other, when it is done the name is `saved`, and
\* retention is not about to remove that.
OneCreator == \A p, q \in Creators : p = q
SavedWhole == saved # NoName => tars[saved].is = "whole"
NewNameOf(p) ==
  job[p].cmd = "create" =>
    (job[p].name # NoName =>
       /\ job[p].name # saved
       /\ \A m \in Listed(tars) \ {job[p].name} : Before(m, job[p].name))
LastNameOf(p) ==
  job[p].cmd = "retain" =>
    (saved # NoName => \A m \in Listed(tars) \ {saved} : Before(m, saved))
SparesOf(p) == job[p].cmd = "expire" => saved \notin job[p].doomed
SavedInv ==
  regular => /\ OneCreator /\ SavedWhole
             /\ \A p \in Commands : NewNameOf(p) /\ LastNameOf(p) /\ SparesOf(p)

\* A whole tarball holds what the files were when it was begun.
Faithful(tar) ==
  tar.is = "whole" =>
    \A f \in Files : tar.of[f] = "absent" \/ tar.holds[f] = tar.of[f]
TarsInv == \A n \in Names : Faithful(tars[n]) /\ Faithful(usb[n])

\* A tarball not written by two has one creator, and holds, as long as nobody
\* wrote a file, every file that was walked as it was.
AloneOf(p) ==
  \A q \in Commands \ {p} :
    job[q].cmd = "create" => job[q].name # job[p].name
FilledOf(p) ==
  p \notin stirred /\ job[p].head # "cut" =>
    /\ \A f \in Files : job[p].of[f] # "absent" => file[f] = job[p].of[f]
    /\ job[p].head \in Files => job[p].size = Length(file[job[p].head])
    /\ \A f \in Files \ (job[p].rest \cup {job[p].head}) :
         job[p].of[f] # "absent" => tars[job[p].name].holds[f] = job[p].of[f]
MakingOf(p) ==
  job[p].cmd = "create" =>
    (job[p].name # NoName =>
       (tars[job[p].name].is # "garbled" =>
          AloneOf(p) /\ tars[job[p].name].of = Absent /\ FilledOf(p)))

\* What a restore has extracted so far is on the disk, but where it was longer.
RestoringOf(p) ==
  job[p].cmd = "restore" =>
    /\ Faithful(job[p].tar)
    /\ p \notin stirred =>
         \A f \in Files \ job[p].rest :
           job[p].tar.holds[f] # "absent" =>
             (file[f] = job[p].tar.holds[f] <=> f \notin job[p].tailed)
    /\ job[p].tailed \cap job[p].rest = {}

CopiesInv ==
  TarsInv /\ \A p \in Commands : MakingOf(p) /\ RestoringOf(p)

-----------------------------------------------------------------------------
(* Types *)

Making ==
  [cmd : {"create"}, name : Names \cup {NoName}, head : Files \cup {"none", "cut"},
   size : Nat, of : [Files -> Content], rest : SUBSET Files]
Expiring == [cmd : {"expire"}, doomed : SUBSET Names]
Jobs == {NoJob} \cup CreateJob \cup RestoreJob \cup ResetJob

\* A job is of the kind its command says.
LEMMA JobType ==
  ASSUME TypeOK, NEW p \in Commands
  PROVE  /\ job[p].cmd \in {"none", "create", "retain", "expire", "restore", "reset"}
         /\ job[p].cmd = "none" => job[p] = NoJob
         /\ job[p].cmd = "create" => job[p] \in Making
         /\ job[p].cmd = "expire" => job[p] \in Expiring
         /\ job[p].cmd = "restore" => job[p] \in RestoreJob
         /\ job[p].cmd = "reset" => job[p] \in ResetJob
<1>1. job[p] \in {NoJob} \cup CreateJob \cup RestoreJob \cup ResetJob
  BY DEF TypeOK
<1>2. CASE job[p] = NoJob
  BY <1>2 DEF NoJob
<1>3. CASE job[p] \in CreateJob
  BY <1>3 DEF CreateJob, Making, Expiring
<1>4. CASE job[p] \in RestoreJob
  BY <1>4 DEF RestoreJob
<1>5. CASE job[p] \in ResetJob
  BY <1>5 DEF ResetJob
<1> QED
  BY <1>1, <1>2, <1>3, <1>4, <1>5

LEMMA AbsentType == Absent \in [Files -> Content] /\ NoTar \in Tarball
<1>1. Absent \in [Files -> Content]
  BY DEF Absent, Content
<1> QED
  BY <1>1 DEF NoTar, Tarball

LEMMA NoNameType == NoName \notin Names
  BY BoundsAssumption DEF NoName, Names

\* A file's length is a number.
LEMMA LengthType == ASSUME NEW c PROVE Length(c) \in Nat
<1>1. CASE c \in Values
  BY <1>1, SizeAssumption DEF Length
<1>2. CASE c = "mixed"
  <2> DEFINE Longest(n) == \A v \in Values : Size[v] <= n
  <2>1. \E n \in {Size[v] : v \in Values} : Longest(n)
    BY LongestAssumption
  <2>2. (CHOOSE n \in {Size[v] : v \in Values} : Longest(n)) \in {Size[v] : v \in Values}
    BY <2>1
  <2>3. Length(c) = CHOOSE n \in {Size[v] : v \in Values} : Longest(n)
    BY <1>2, SizeAssumption DEF Length
  <2> QED
    BY <2>2, <2>3, SizeAssumption
<1>3. CASE c \notin Values /\ c # "mixed"
  BY <1>3 DEF Length
<1> QED
  BY <1>1, <1>2, <1>3

\* A failing call is counted.
LEMMA FaultType ==
  ASSUME TypeOK, Fault \/ UNCHANGED faults PROVE faults' \in 0 .. MaxFaults
  BY BoundsAssumption DEF TypeOK, Fault

LEMMA TypeInit == Init => TypeOK
<1> SUFFICES ASSUME Init PROVE TypeOK
  OBVIOUS
<1>1. file \in [Files -> Content] /\ saving \subseteq Files
  BY SizeAssumption DEF Init, DirInit, Content
<1>2. job \in [Commands -> {NoJob} \cup CreateJob \cup RestoreJob \cup ResetJob]
  BY DEF Init, DirInit
<1>3. tars \in [Names -> Tarball] /\ usb \in [Names -> Tarball]
  BY AbsentType DEF Init, BackupInit
<1>4. /\ begun \in 0 .. MaxCommands /\ saves \in 0 .. MaxSaves
      /\ faults \in 0 .. MaxFaults
  BY BoundsAssumption DEF Init, DirInit
<1>5. retention \in 0 .. MaxRetention
  BY RetentionAssumption DEF Init, BackupInit
<1> QED
  BY <1>1, <1>2, <1>3, <1>4, <1>5 DEF Init, DirInit, BackupInit, ResetInit, TypeOK

\* Starting a command: its job is of the type.
LEMMA StartType ==
  ASSUME TypeOK, NEW p \in Commands, NEW j \in Jobs, Start(p, j)
  PROVE  /\ job' \in [Commands -> Jobs] /\ job' = [job EXCEPT ![p] = j]
         /\ stirred' \subseteq Commands /\ begun' \in 0 .. MaxCommands
         /\ UNCHANGED <<file, saving, host, unnamed, saves, faults>>
  BY BoundsAssumption DEF TypeOK, Start, Jobs

LEMMA GoesType ==
  ASSUME TypeOK, NEW p \in Commands, NEW j \in Jobs, Goes(p, j)
  PROVE  job' \in [Commands -> Jobs]
  BY DEF TypeOK, Goes, Jobs

\* A file is changed.
LEMMA PutType ==
  ASSUME TypeOK, NEW f \in Files, NEW c \in Content, NEW by, Put(f, c, by)
  PROVE  file' \in [Files -> Content] /\ stirred' \subseteq Commands
  BY DEF TypeOK, Put, Working

LEMMA MakingIsJob ==
  ASSUME NEW j PROVE /\ j \in Making => j \in Jobs
                     /\ j \in RestoreJob => j \in Jobs
                     /\ j \in ResetJob => j \in Jobs
                     /\ j \in Expiring => j \in Jobs
                     /\ NoJob \in Jobs /\ [cmd |-> "retain"] \in Jobs
  BY DEF Jobs, Making, Expiring, CreateJob

\* A creation that lost its name is one.
LEMMA NamelessType ==
  ASSUME TypeOK, NEW gone PROVE Nameless(gone) \in [Commands -> Jobs]
<1>1. ASSUME NEW q \in Commands
      PROVE  (IF job[q].cmd = "create" /\ job[q].name \in gone
              THEN [job[q] EXCEPT !.name = NoName] ELSE job[q]) \in Jobs
  <2>1. CASE job[q].cmd = "create"
    <3>1. job[q] \in Making
      BY <2>1, JobType
    <3>2. [job[q] EXCEPT !.name = NoName] \in Making
      BY <3>1 DEF Making
    <3> QED
      BY <3>1, <3>2, MakingIsJob
  <2>2. CASE job[q].cmd # "create"
    BY <2>2 DEF TypeOK, Jobs
  <2> QED
    BY <2>1, <2>2
<1> QED
  BY <1>1 DEF Nameless

\* The commands of `maculaos backup` keep the types.
LEMMA CreateType ==
  ASSUME TypeOK, UNCHANGED resetVars, NEW p \in Commands, Create(p) PROVE TypeOK'
<1>1. PICK second \in 1 .. MaxTime :
        LET n == <<host, second>>
            others == {q \in Creators : job[q].cmd = "create" /\ job[q].name = n} IN
        /\ Start(p, [cmd |-> "create", name |-> n, head |-> "none", size |-> 0,
                     of |-> file, rest |-> Walked])
        /\ tars' = [tars EXCEPT ![n] =
                      [is |-> IF others = {} THEN "partial" ELSE "garbled",
                       holds |-> Absent, of |-> Absent]]
        /\ regular' = (regular /\ Creators = {} /\ \A m \in Listed(tars) : Before(m, n))
        /\ saved' = IF regular' THEN saved ELSE NoName
        /\ Replaced(n)
        /\ UNCHANGED <<usb, retention>>
  BY DEF Create
<1> DEFINE n == <<host, second>>
<1> DEFINE j == [cmd |-> "create", name |-> n, head |-> "none", size |-> 0,
                 of |-> file, rest |-> Walked]
<1> DEFINE others == {q \in Creators : job[q].cmd = "create" /\ job[q].name = n}
<1>2. n \in Names
  BY DEF TypeOK, Names
<1>3. j \in Jobs
  <2>1. j \in Making
    BY <1>2 DEF TypeOK, Making, Walked
  <2> QED
    BY <2>1, MakingIsJob
<1>4. Start(p, j)
  BY <1>1
<1>5. /\ job' \in [Commands -> Jobs] /\ stirred' \subseteq Commands
      /\ begun' \in 0 .. MaxCommands
      /\ UNCHANGED <<file, saving, host, unnamed, saves, faults>>
  BY <1>3, <1>4, StartType
<1>6. tars' \in [Names -> Tarball]
  <2>1. [is |-> IF others = {} THEN "partial" ELSE "garbled",
         holds |-> Absent, of |-> Absent] \in Tarball
    BY AbsentType DEF Tarball
  <2>2. tars' = [tars EXCEPT ![n] = [is |-> IF others = {} THEN "partial" ELSE "garbled",
                                     holds |-> Absent, of |-> Absent]]
    BY <1>1
  <2> QED
    BY <1>2, <2>1, <2>2 DEF TypeOK
<1>7. /\ saved' \in Names \cup {NoName} /\ restored' \in Names \cup {NoName}
      /\ tailed' \subseteq Files /\ UNCHANGED <<usb, retention>>
  BY <1>1 DEF TypeOK, Replaced, Unrestored
<1>8. regular' \in BOOLEAN
  BY <1>1
<1> QED
  BY <1>5, <1>6, <1>7, <1>8 DEF TypeOK, Jobs, resetVars

\* What Header makes of the job: the next file is the one at work, or skipped.
Heads(p, f) ==
  [job[p] EXCEPT !.rest = @ \ {f}, !.head = f, !.size = Length(file[f])]
Skips(p, f) == [job[p] EXCEPT !.rest = @ \ {f}, !.of[f] = "absent"]

LEMMA HeaderSteps ==
  ASSUME TypeOK, NEW p \in Commands, Header(p)
  PROVE  \E f \in job[p].rest :
           /\ f \in Files /\ job[p] \in Making /\ job[p].head = "none"
           /\ \/ file[f] # "absent" /\ Goes(p, Heads(p, f)) /\ UNCHANGED faults
              \/ Goes(p, Skips(p, f)) /\ (UNCHANGED faults \/ Fault)
           /\ /\ Heads(p, f) \in Making
              /\ Heads(p, f).name = job[p].name /\ Heads(p, f).of = job[p].of
              /\ Heads(p, f).rest = job[p].rest \ {f} /\ Heads(p, f).head = f
              /\ Heads(p, f).size = Length(file[f])
           /\ /\ Skips(p, f) \in Making
              /\ Skips(p, f).name = job[p].name /\ Skips(p, f).of[f] = "absent"
              /\ \A g \in Files \ {f} : Skips(p, f).of[g] = job[p].of[g]
              /\ Skips(p, f).rest = job[p].rest \ {f} /\ Skips(p, f).head = "none"
           /\ UNCHANGED <<file, saving, host, unnamed, stirred, begun, saves,
                          tars, usb, retention, saved, regular, restored, tailed>>
<1>1. job[p] \in Making /\ job[p].head = "none"
  BY JobType DEF Header, Creating
<1>2. PICK f \in job[p].rest :
        \/ file[f] # "absent" /\ Goes(p, Heads(p, f)) /\ UNCHANGED faults
        \/ Goes(p, Skips(p, f)) /\ (UNCHANGED faults \/ Fault)
  BY DEF Header, Heads, Skips
<1>3. f \in Files
  BY <1>1 DEF Making
<1>4. Length(file[f]) \in Nat
  BY LengthType
<1>5. /\ Heads(p, f) \in Making
      /\ Heads(p, f).name = job[p].name /\ Heads(p, f).of = job[p].of
      /\ Heads(p, f).rest = job[p].rest \ {f} /\ Heads(p, f).head = f
      /\ Heads(p, f).size = Length(file[f])
  BY <1>1, <1>3, <1>4 DEF Making, Heads
<1>6. [job[p].of EXCEPT ![f] = "absent"] \in [Files -> Content]
  BY <1>1, <1>3 DEF Making, Content
<1>7. /\ Skips(p, f) \in Making
      /\ Skips(p, f).name = job[p].name
      /\ Skips(p, f).of = [job[p].of EXCEPT ![f] = "absent"]
      /\ Skips(p, f).rest = job[p].rest \ {f} /\ Skips(p, f).head = "none"
  BY <1>1, <1>3, <1>6 DEF Making, Skips
<1>8. /\ Skips(p, f).of[f] = "absent"
      /\ \A g \in Files \ {f} : Skips(p, f).of[g] = job[p].of[g]
  BY <1>1, <1>3, <1>7 DEF Making
<1>9. UNCHANGED <<file, saving, host, unnamed, stirred, begun, saves,
                  tars, usb, retention, saved, regular, restored, tailed>>
  BY DEF Header, backupVars, tarVars, tarHistory
<1> QED
  BY <1>1, <1>2, <1>3, <1>5, <1>7, <1>8, <1>9

\* What is read of a file, and what that is in the tarball.
Taken(c) == IF c = "absent" THEN "empty" ELSE c

LEMMA CopySteps ==
  ASSUME TypeOK, NEW p \in Commands, Copy(p)
  PROVE  /\ job[p] \in Making /\ job[p].head \in Files
         /\ \E read \in {file[job[p].head], "absent"} :
              /\ read \in Content /\ Taken(read) \in Content
              /\ Length(read) <= job[p].size
              /\ \/ /\ Length(read) = job[p].size
                    /\ Goes(p, [job[p] EXCEPT !.head = "none"])
                    /\ tars' = IF job[p].name = NoName THEN tars
                               ELSE [tars EXCEPT ![job[p].name].holds[job[p].head] =
                                       Taken(read)]
                 \/ Goes(p, [job[p] EXCEPT !.head = "cut"]) /\ UNCHANGED tars
         /\ UNCHANGED faults \/ Fault
         /\ UNCHANGED <<file, saving, host, unnamed, stirred, begun, saves, usb,
                        retention, saved, regular, restored, tailed>>
<1>1. job[p] \in Making /\ job[p].head \in Files
  BY JobType DEF Copy, Creating
<1>2. \A read \in {file[job[p].head], "absent"} :
        read \in Content /\ Taken(read) \in Content
  BY <1>1 DEF TypeOK, Content, Taken
<1>3. \E read \in {file[job[p].head], "absent"} :
        /\ UNCHANGED faults \/ Fault
        /\ Length(read) <= job[p].size
        /\ \/ /\ Length(read) = job[p].size
              /\ Goes(p, [job[p] EXCEPT !.head = "none"])
              /\ tars' = IF job[p].name = NoName THEN tars
                         ELSE [tars EXCEPT ![job[p].name].holds[job[p].head] =
                                 Taken(read)]
           \/ Goes(p, [job[p] EXCEPT !.head = "cut"]) /\ UNCHANGED tars
  BY DEF Copy, Taken
<1>4. UNCHANGED <<file, saving, host, unnamed, stirred, begun, saves, usb,
                  retention, saved, regular, restored, tailed>>
  BY DEF Copy, tarHistory
<1> QED
  BY <1>1, <1>2, <1>3, <1>4

LEMMA CreateEndsType ==
  ASSUME TypeOK, UNCHANGED resetVars, NEW p \in Commands,
         Header(p) \/ Copy(p) \/ CreateFails(p)
  PROVE  TypeOK'
<1>1. job[p] \in Making
  BY JobType DEF Header, Copy, CreateFails, Creating
<1>2. CASE Header(p)
  <2>1. job' \in [Commands -> Jobs] /\ faults' \in 0 .. MaxFaults
    BY <1>2, HeaderSteps, MakingIsJob, GoesType, FaultType
  <2> QED
    BY <1>2, <2>1, HeaderSteps DEF TypeOK, Jobs, resetVars
<1>3. CASE Copy(p)
  <2> DEFINE f == job[p].head
  <2> DEFINE n == job[p].name
  <2>1. PICK read \in {file[f], "absent"} :
          /\ Taken(read) \in Content
          /\ \/ /\ Goes(p, [job[p] EXCEPT !.head = "none"])
                /\ tars' = IF n = NoName THEN tars
                           ELSE [tars EXCEPT ![n].holds[f] = Taken(read)]
             \/ Goes(p, [job[p] EXCEPT !.head = "cut"]) /\ UNCHANGED tars
    BY <1>3, CopySteps
  <2>2. f \in Files /\ n \in Names \cup {NoName}
    BY <1>1, <1>3, CopySteps DEF Making
  <2>3. job' \in [Commands -> Jobs]
    <3>1. /\ [job[p] EXCEPT !.head = "none"] \in Making
          /\ [job[p] EXCEPT !.head = "cut"] \in Making
      BY <1>1 DEF Making
    <3> QED
      BY <2>1, <3>1, MakingIsJob, GoesType
  <2>4. tars' \in [Names -> Tarball]
    <3>1. CASE n # NoName /\ tars' = [tars EXCEPT ![n].holds[f] = Taken(read)]
      <4>1. n \in Names /\ tars[n] \in Tarball
        BY <2>2, <3>1 DEF TypeOK
      <4>2. [tars[n].holds EXCEPT ![f] = Taken(read)] \in [Files -> Content]
        BY <2>1, <2>2, <4>1 DEF Tarball
      <4>3. [tars[n] EXCEPT !.holds[f] = Taken(read)] \in Tarball
        BY <4>1, <4>2 DEF Tarball
      <4> QED
        BY <3>1, <4>1, <4>3 DEF TypeOK
    <3> QED
      BY <2>1, <3>1 DEF TypeOK
  <2>5. faults' \in 0 .. MaxFaults
    BY <1>3, CopySteps, FaultType
  <2> HIDE DEF f, n
  <2> QED
    BY <1>3, <2>3, <2>4, <2>5, CopySteps DEF TypeOK, Jobs, resetVars
<1>4. CASE CreateFails(p)
  <2>1. job' \in [Commands -> Jobs]
    BY <1>4, MakingIsJob, GoesType DEF CreateFails, Ended
  <2>2. faults' \in 0 .. MaxFaults
    BY <1>4, FaultType DEF CreateFails
  <2>3. stirred' \subseteq Commands
    BY <1>4 DEF CreateFails, Ended, TypeOK
  <2> QED
    BY <1>4, <2>1, <2>2, <2>3
    DEF CreateFails, TypeOK, Jobs, backupVars, tarVars, tarHistory, resetVars
<1> QED
  BY <1>2, <1>3, <1>4

\* The tarball that Finish leaves: what became of it, and its end.
Ends(p) ==
  IF tars[job[p].name].is = "garbled" THEN "garbled"
  ELSE IF job[p].head = "cut" THEN "short" ELSE "whole"
Finished(p, is) ==
  [tars[job[p].name] EXCEPT
     !.is = is, !.of = IF p \in stirred THEN @ ELSE job[p].of]

LEMMA FinishSteps ==
  ASSUME TypeOK, NEW p \in Commands, Finish(p)
  PROVE  /\ job[p] \in Making /\ job[p].name \in Names
         /\ job[p].head \notin Files /\ job[p].rest = {}
         /\ \E is \in {"garbled", "short", "whole", "partial"} :
              /\ Finished(p, is) \in Tarball /\ Finished(p, is).is = is
              /\ is = Ends(p) \/ (is = "partial" /\ Ends(p) # "garbled")
              /\ tars' = [tars EXCEPT ![job[p].name] = Finished(p, is)]
              /\ \/ UNCHANGED usb
                 \/ usb' = [usb EXCEPT ![job[p].name] = Finished(p, is)]
                 \/ usb' = [usb EXCEPT ![job[p].name] =
                                [Finished(p, is) EXCEPT !.is = "partial"]]
              /\ regular' = (regular /\ is = "whole")
         /\ UNCHANGED faults \/ Fault
         /\ saved' = IF regular' THEN job[p].name ELSE NoName
         /\ Replaced(job[p].name)
         /\ Goes(p, [cmd |-> "retain"])
         /\ UNCHANGED <<file, saving, host, unnamed, stirred, begun, saves, retention>>
<1>1. job[p] \in Making /\ job[p].name \in Names
  <2>1. job[p] \in Making /\ job[p].name # NoName
    BY JobType DEF Finish, Creating
  <2> QED
    BY <2>1 DEF Making
<1>2. tars[job[p].name] \in Tarball
  BY <1>1 DEF TypeOK
<1>3. \A is \in {"garbled", "short", "whole", "partial"} :
        Finished(p, is) \in Tarball /\ Finished(p, is).is = is
  BY <1>1, <1>2 DEF Finished, Tarball, Making
<1>4. Ends(p) \in {"garbled", "short", "whole"}
  BY DEF Ends
<1>5. /\ job[p].head \notin Files /\ job[p].rest = {}
      /\ \/ /\ tars' = [tars EXCEPT ![job[p].name] = Finished(p, Ends(p))]
            /\ \/ UNCHANGED <<usb, faults>>
               \/ CopyToUSB(job[p].name, Finished(p, Ends(p)))
            /\ regular' = (regular /\ Ends(p) = "whole")
         \/ /\ Ends(p) # "garbled" /\ Fault
            /\ tars' = [tars EXCEPT ![job[p].name] = Finished(p, "partial")]
            /\ usb' \in {usb, [usb EXCEPT ![job[p].name] = Finished(p, "partial")]}
            /\ regular' = FALSE
      /\ saved' = IF regular' THEN job[p].name ELSE NoName
      /\ Replaced(job[p].name)
      /\ Goes(p, [cmd |-> "retain"])
      /\ UNCHANGED <<file, saving, host, unnamed, stirred, begun, saves, retention>>
  BY DEF Finish, Finished, Ends
<1>6. UNCHANGED faults \/ Fault
  BY <1>5 DEF CopyToUSB
<1>7. \E is \in {"garbled", "short", "whole", "partial"} :
        /\ is = Ends(p) \/ (is = "partial" /\ Ends(p) # "garbled")
        /\ tars' = [tars EXCEPT ![job[p].name] = Finished(p, is)]
        /\ \/ UNCHANGED usb
           \/ usb' = [usb EXCEPT ![job[p].name] = Finished(p, is)]
           \/ usb' = [usb EXCEPT ![job[p].name] =
                          [Finished(p, is) EXCEPT !.is = "partial"]]
        /\ regular' = (regular /\ is = "whole")
  <2>1. CASE Ends(p) # "garbled" /\ regular' = FALSE
             /\ tars' = [tars EXCEPT ![job[p].name] = Finished(p, "partial")]
             /\ usb' \in {usb, [usb EXCEPT ![job[p].name] = Finished(p, "partial")]}
    BY <2>1
  <2>2. CASE /\ tars' = [tars EXCEPT ![job[p].name] = Finished(p, Ends(p))]
             /\ UNCHANGED usb \/ CopyToUSB(job[p].name, Finished(p, Ends(p)))
             /\ regular' = (regular /\ Ends(p) = "whole")
    <3>1. \/ UNCHANGED usb
          \/ usb' = [usb EXCEPT ![job[p].name] = Finished(p, Ends(p))]
          \/ usb' = [usb EXCEPT ![job[p].name] =
                         [Finished(p, Ends(p)) EXCEPT !.is = "partial"]]
      BY <2>2 DEF CopyToUSB
    <3>2. PICK e \in {"garbled", "short", "whole", "partial"} : e = Ends(p)
      BY <1>4
    <3>3. /\ e = Ends(p) \/ (e = "partial" /\ Ends(p) # "garbled")
          /\ tars' = [tars EXCEPT ![job[p].name] = Finished(p, e)]
          /\ \/ UNCHANGED usb
             \/ usb' = [usb EXCEPT ![job[p].name] = Finished(p, e)]
             \/ usb' = [usb EXCEPT ![job[p].name] =
                            [Finished(p, e) EXCEPT !.is = "partial"]]
          /\ regular' = (regular /\ e = "whole")
      BY <2>2, <3>1, <3>2
    <3> QED
      BY <3>2, <3>3
  <2> QED
    BY <1>5, <2>1, <2>2
<1> QED
  BY <1>1, <1>3, <1>5, <1>6, <1>7

LEMMA FinishType ==
  ASSUME TypeOK, UNCHANGED resetVars, NEW p \in Commands, Finish(p) PROVE TypeOK'
<1> DEFINE n == job[p].name
<1>1. job' \in [Commands -> Jobs]
  BY FinishSteps, MakingIsJob, GoesType
<1>2. PICK is \in {"garbled", "short", "whole", "partial"} :
        /\ Finished(p, is) \in Tarball
        /\ tars' = [tars EXCEPT ![n] = Finished(p, is)]
        /\ \/ UNCHANGED usb
           \/ usb' = [usb EXCEPT ![n] = Finished(p, is)]
           \/ usb' = [usb EXCEPT ![n] = [Finished(p, is) EXCEPT !.is = "partial"]]
        /\ regular' = (regular /\ is = "whole")
  BY FinishSteps
<1>3. tars' \in [Names -> Tarball] /\ usb' \in [Names -> Tarball]
  <2>1. [Finished(p, is) EXCEPT !.is = "partial"] \in Tarball
    BY <1>2 DEF Tarball
  <2> QED
    BY <1>2, <2>1 DEF TypeOK
<1>4. faults' \in 0 .. MaxFaults
  BY FinishSteps, FaultType
<1>5. n \in Names /\ Replaced(n) /\ saved' = IF regular' THEN n ELSE NoName
  BY FinishSteps
<1>6. /\ saved' \in Names \cup {NoName} /\ restored' \in Names \cup {NoName}
      /\ tailed' \subseteq Files
  BY <1>5 DEF TypeOK, Replaced, Unrestored
<1>7. regular' \in BOOLEAN
  BY <1>2
<1>8. UNCHANGED <<file, saving, host, unnamed, stirred, begun, saves, retention>>
  BY FinishSteps
<1> QED
  BY <1>1, <1>3, <1>4, <1>6, <1>7, <1>8 DEF TypeOK, Jobs, resetVars

\* What retention does: it makes its list, or ends; then what is first on the list
\* goes, or is dropped from it.
LEMMA RetainSteps ==
  ASSUME TypeOK, NEW p \in Commands, Retain(p)
  PROVE  /\ job[p].cmd = "retain"
         /\ \/ /\ Excess # {} /\ UNCHANGED stirred
               /\ Goes(p, [cmd |-> "expire", doomed |-> Excess])
            \/ Ended(p)
         /\ [cmd |-> "expire", doomed |-> Excess] \in Expiring
         /\ stirred' \subseteq stirred /\ stirred \ {p} \subseteq stirred'
         /\ UNCHANGED faults \/ Fault
         /\ UNCHANGED <<file, saving, host, unnamed, begun, saves, tars, usb,
                        retention, saved, regular, restored, tailed>>
<1>1. Excess \in SUBSET Names
  BY DEF Excess, Listed
<1>2. [cmd |-> "expire", doomed |-> Excess] \in Expiring
  BY <1>1 DEF Expiring
<1> QED
  BY <1>2 DEF Retain, Dooms, Ended, backupVars, tarVars, tarHistory

NextJob(left) == IF left = {} THEN NoJob ELSE [cmd |-> "expire", doomed |-> left]

LEMMA ExpireSteps ==
  ASSUME TypeOK, NEW p \in Commands, Expire(p)
  PROVE  \E n \in Names, gone \in SUBSET Names :
           /\ job[p] \in Expiring /\ n \in job[p].doomed /\ gone \subseteq {n}
           /\ tars' = [m \in Names |-> IF m \in gone THEN NoTar ELSE tars[m]]
           /\ job' = [Nameless(gone) EXCEPT ![p] = NextJob(job[p].doomed \ {n})]
           /\ NextJob(job[p].doomed \ {n}) \in Expiring \cup {NoJob}
           /\ IF restored \in gone THEN Unrestored ELSE UNCHANGED <<restored, tailed>>
           /\ stirred' \subseteq stirred /\ stirred \ {p} \subseteq stirred'
           /\ UNCHANGED faults \/ Fault
           /\ UNCHANGED <<file, saving, host, unnamed, begun, saves, usb, retention,
                          saved, regular>>
<1>1. job[p] \in Expiring
  BY JobType DEF Expire
<1>2. PICK n \in job[p].doomed :
        /\ \/ /\ tars' = [tars EXCEPT ![n] = NoTar] /\ Replaced(n)
              /\ job' = [Nameless({n}) EXCEPT ![p] = NextJob(job[p].doomed \ {n})]
              /\ UNCHANGED faults
           \/ /\ Fault
              /\ Goes(p, NextJob(job[p].doomed \ {n}))
              /\ UNCHANGED <<tars, restored, tailed>>
        /\ stirred' = IF job[p].doomed \ {n} = {} THEN stirred \ {p} ELSE stirred
  BY DEF Expire, NextJob
<1>3. n \in Names
  BY <1>1 DEF Expiring
<1>4. NextJob(job[p].doomed \ {n}) \in Expiring \cup {NoJob}
  BY <1>1 DEF Expiring, NextJob
<1>5. UNCHANGED <<file, saving, host, unnamed, begun, saves, usb, retention,
                  saved, regular>>
  BY DEF Expire
<1>6. CASE /\ tars' = [tars EXCEPT ![n] = NoTar] /\ Replaced(n)
           /\ job' = [Nameless({n}) EXCEPT ![p] = NextJob(job[p].doomed \ {n})]
           /\ UNCHANGED faults
  <2>1. tars' = [m \in Names |-> IF m \in {n} THEN NoTar ELSE tars[m]]
    BY <1>6 DEF TypeOK
  <2>2. IF restored \in {n} THEN Unrestored ELSE UNCHANGED <<restored, tailed>>
    BY <1>6 DEF Replaced
  <2> QED
    BY <1>1, <1>2, <1>3, <1>4, <1>5, <1>6, <2>1, <2>2
<1>7. CASE /\ Fault /\ Goes(p, NextJob(job[p].doomed \ {n}))
           /\ UNCHANGED <<tars, restored, tailed>>
  <2>1. tars' = [m \in Names |-> IF m \in {} THEN NoTar ELSE tars[m]]
    BY <1>7 DEF TypeOK
  <2>2. Nameless({}) = job
    BY DEF Nameless, TypeOK
  <2>3. job' = [Nameless({}) EXCEPT ![p] = NextJob(job[p].doomed \ {n})]
    BY <1>7, <2>2 DEF Goes
  <2> DEFINE none == {}
  <2>4. /\ none \in SUBSET Names /\ none \subseteq {n}
        /\ IF restored \in none THEN Unrestored ELSE UNCHANGED <<restored, tailed>>
    BY <1>7
  <2>5. stirred' \subseteq stirred /\ stirred \ {p} \subseteq stirred'
    BY <1>2
  <2>6. /\ tars' = [m \in Names |-> IF m \in none THEN NoTar ELSE tars[m]]
        /\ job' = [Nameless(none) EXCEPT ![p] = NextJob(job[p].doomed \ {n})]
    BY <2>1, <2>3
  <2> HIDE DEF none
  <2> QED
    BY <1>1, <1>2, <1>3, <1>4, <1>5, <1>7, <2>4, <2>5, <2>6
<1> QED
  BY <1>2, <1>6, <1>7

LEMMA RetainType ==
  ASSUME TypeOK, UNCHANGED resetVars, NEW p \in Commands, Retain(p) PROVE TypeOK'
<1>1. job' \in [Commands -> Jobs]
  BY RetainSteps, MakingIsJob, GoesType DEF Ended
<1>2. faults' \in 0 .. MaxFaults
  BY RetainSteps, FaultType
<1> QED
  BY <1>1, <1>2, RetainSteps DEF TypeOK, Jobs, resetVars

LEMMA ExpireType ==
  ASSUME TypeOK, UNCHANGED resetVars, NEW p \in Commands, Expire(p) PROVE TypeOK'
<1>1. PICK n \in Names, gone \in SUBSET Names :
        /\ tars' = [m \in Names |-> IF m \in gone THEN NoTar ELSE tars[m]]
        /\ job' = [Nameless(gone) EXCEPT ![p] = NextJob(job[p].doomed \ {n})]
        /\ NextJob(job[p].doomed \ {n}) \in Expiring \cup {NoJob}
        /\ IF restored \in gone THEN Unrestored ELSE UNCHANGED <<restored, tailed>>
        /\ stirred' \subseteq stirred
        /\ UNCHANGED faults \/ Fault
        /\ UNCHANGED <<file, saving, host, unnamed, begun, saves, usb, retention,
                       saved, regular>>
  BY ExpireSteps
<1>2. job' \in [Commands -> Jobs]
  <2>1. NextJob(job[p].doomed \ {n}) \in Jobs
    BY <1>1, MakingIsJob
  <2> QED
    BY <1>1, <2>1, NamelessType
<1>3. tars' \in [Names -> Tarball]
  BY <1>1, AbsentType DEF TypeOK
<1>4. faults' \in 0 .. MaxFaults
  BY <1>1, FaultType
<1>5. /\ restored' \in Names \cup {NoName} /\ tailed' \subseteq Files
      /\ stirred' \subseteq Commands
  BY <1>1 DEF TypeOK, Unrestored
<1> QED
  BY <1>1, <1>2, <1>3, <1>4, <1>5 DEF TypeOK, Jobs, resetVars

\* What Restore starts with: a tarball of one directory or the other.
RestoreOf(dir, n) ==
  [cmd |-> "restore", name |-> n, tar |-> dir[n],
   rest |-> {f \in Files : dir[n].holds[f] # "absent"}, tailed |-> {}]

LEMMA RestoreStarts ==
  ASSUME TypeOK, NEW p \in Commands, Restore(p)
  PROVE  \E dir \in {tars, usb}, n \in Names :
           /\ dir[n] \in Tarball /\ RestoreOf(dir, n) \in RestoreJob
           /\ Start(p, RestoreOf(dir, n))
<1>1. PICK dir \in {tars, usb} : \E n \in Listed(dir) : Start(p, RestoreOf(dir, n))
  BY DEF Restore, RestoreOf
<1>2. PICK n \in Listed(dir) : Start(p, RestoreOf(dir, n))
  BY <1>1
<1>3. n \in Names /\ dir[n] \in Tarball
  BY <1>2 DEF Listed, TypeOK
<1>4. RestoreOf(dir, n) \in RestoreJob
  BY <1>3 DEF RestoreOf, RestoreJob
<1> QED
  BY <1>2, <1>3, <1>4

\* What the file of an extraction is changed to, and the job.
Writes(p, f) ==
  [job[p] EXCEPT !.rest = @ \ {f},
                 !.tailed = IF Length(file[f]) > Length(job[p].tar.holds[f])
                            THEN @ \cup {f} ELSE @]

LEMMA ExtractSteps ==
  ASSUME TypeOK, NEW p \in Commands, Extract(p)
  PROVE  \E f \in job[p].rest :
           /\ job[p] \in RestoreJob /\ f \in Files
           /\ Over(file[f], job[p].tar.holds[f]) \in Content
           /\ Put(f, Over(file[f], job[p].tar.holds[f]), {p})
           /\ Goes(p, Writes(p, f)) /\ Writes(p, f) \in RestoreJob
           /\ Writes(p, f).tar = job[p].tar /\ Writes(p, f).name = job[p].name
           /\ Writes(p, f).rest = job[p].rest \ {f}
           /\ Writes(p, f).tailed =
                IF Length(file[f]) > Length(job[p].tar.holds[f])
                THEN job[p].tailed \cup {f} ELSE job[p].tailed
           /\ restored' = NoName /\ tailed' = {}
           /\ UNCHANGED <<saving, host, unnamed, bounds, tarVars, saved, regular>>
<1>1. job[p] \in RestoreJob
  BY JobType DEF Extract, Restoring
<1>2. PICK f \in job[p].rest :
        /\ Put(f, Over(file[f], job[p].tar.holds[f]), {p})
        /\ Goes(p, Writes(p, f))
  BY DEF Extract, Writes
<1>3. f \in Files
  BY <1>1 DEF RestoreJob
<1>4. file[f] \in Content /\ job[p].tar.holds[f] \in Content
  BY <1>1, <1>3 DEF TypeOK, RestoreJob, Tarball
<1>5. Over(file[f], job[p].tar.holds[f]) \in Content
  BY <1>4 DEF Over, Content
<1>6. /\ Writes(p, f) \in RestoreJob
      /\ Writes(p, f).tar = job[p].tar /\ Writes(p, f).name = job[p].name
      /\ Writes(p, f).rest = job[p].rest \ {f}
      /\ Writes(p, f).tailed =
           IF Length(file[f]) > Length(job[p].tar.holds[f])
           THEN job[p].tailed \cup {f} ELSE job[p].tailed
  BY <1>1, <1>3 DEF Writes, RestoreJob
<1> QED
  BY <1>1, <1>2, <1>3, <1>5, <1>6 DEF Extract, Unrestored

LEMMA RestoreType ==
  ASSUME TypeOK, UNCHANGED resetVars, NEW p \in Commands,
         Restore(p) \/ RestoreFails(p) \/ Restored(p)
  PROVE  TypeOK'
<1>1. CASE Restore(p)
  <2>1. PICK dir \in {tars, usb}, n \in Names :
          RestoreOf(dir, n) \in RestoreJob /\ Start(p, RestoreOf(dir, n))
    BY <1>1, RestoreStarts
  <2>2. /\ job' \in [Commands -> Jobs] /\ stirred' \subseteq Commands
        /\ begun' \in 0 .. MaxCommands
        /\ UNCHANGED <<file, saving, host, unnamed, saves, faults>>
    BY <2>1, MakingIsJob, StartType
  <2> QED
    BY <1>1, <2>2 DEF Restore, TypeOK, Jobs, backupVars, tarVars, tarHistory, resetVars
<1>2. CASE RestoreFails(p) \/ Restored(p)
  <2>1. job' \in [Commands -> Jobs] /\ stirred' \subseteq Commands
    <3>1. Ended(p)
      BY <1>2 DEF RestoreFails, Restored
    <3> QED
      BY <3>1, MakingIsJob, GoesType DEF Ended, TypeOK
  <2>2. faults' \in 0 .. MaxFaults
    BY <1>2, FaultType DEF RestoreFails, Restored, bounds
  <2>3. restored' \in Names \cup {NoName} /\ tailed' \subseteq Files
    <3>1. CASE RestoreFails(p)
      BY <3>1 DEF RestoreFails, TypeOK, backupVars, tarHistory
    <3>2. CASE Restored(p)
      <4>1. job[p] \in RestoreJob
        BY <3>2, JobType DEF Restored, Restoring
      <4>2. job[p].name \in Names /\ job[p].tailed \subseteq Files
        BY <4>1 DEF RestoreJob
      <4> QED
        BY <3>2, <4>2 DEF Restored, Unrestored
    <3> QED
      BY <1>2, <3>1, <3>2
  <2>4. UNCHANGED <<file, saving, host, unnamed, begun, saves, tars, usb,
                    retention, saved, regular, marker, fresh>>
    BY <1>2 DEF RestoreFails, Restored, bounds, backupVars, tarVars, tarHistory,
                resetVars
  <2> QED
    BY <2>1, <2>2, <2>3, <2>4 DEF TypeOK, Jobs
<1> QED
  BY <1>1, <1>2

LEMMA ExtractType ==
  ASSUME TypeOK, NEW p \in Commands, ExtractStep(p) PROVE TypeOK'
<1>1. PICK f \in job[p].rest :
        /\ f \in Files /\ Over(file[f], job[p].tar.holds[f]) \in Content
        /\ Put(f, Over(file[f], job[p].tar.holds[f]), {p})
        /\ Goes(p, Writes(p, f)) /\ Writes(p, f) \in RestoreJob
        /\ restored' = NoName /\ tailed' = {}
        /\ UNCHANGED <<saving, host, unnamed, bounds, tarVars, saved, regular>>
  BY ExtractSteps DEF ExtractStep
<1>2. job' \in [Commands -> Jobs]
  BY <1>1, MakingIsJob, GoesType
<1>3. file' \in [Files -> Content] /\ stirred' \subseteq Commands
  BY <1>1, PutType
<1>4. fresh' \in BOOLEAN /\ marker' = marker
  BY DEF ExtractStep
<1> QED
  BY <1>1, <1>2, <1>3, <1>4 DEF TypeOK, Jobs, bounds, tarVars

\* What a removal does: the file is gone, or it stays and the reset is not clean.
LEMMA EraseSteps ==
  ASSUME TypeOK, NEW p \in Commands, EraseStep(p)
  PROVE  \E f \in job[p].rest :
           /\ job[p] \in ResetJob /\ f \in Erased /\ f \in Files
           /\ \/ /\ file[f] = "absent" /\ UNCHANGED <<file, stirred, faults>>
                 /\ Goes(p, [job[p] EXCEPT !.rest = @ \ {f}])
              \/ /\ Put(f, "absent", {p}) /\ UNCHANGED faults
                 /\ Goes(p, [job[p] EXCEPT !.rest = @ \ {f}])
              \/ /\ Fault /\ UNCHANGED <<file, stirred>>
                 /\ Goes(p, [job[p] EXCEPT !.rest = @ \ {f}, !.clean = FALSE])
           /\ restored' = NoName /\ tailed' = {}
           /\ UNCHANGED <<saving, host, unnamed, begun, saves, marker, fresh,
                          tars, usb, retention, saved, regular>>
<1>1. job[p] \in ResetJob
  BY JobType DEF EraseStep, Erase
<1>2. PICK f \in job[p].rest :
        \/ /\ IF file[f] = "absent" THEN UNCHANGED <<file, stirred>>
              ELSE Put(f, "absent", {p})
           /\ Goes(p, [job[p] EXCEPT !.rest = @ \ {f}])
           /\ UNCHANGED faults
        \/ /\ file[f] # "absent" /\ Fault
           /\ Goes(p, [job[p] EXCEPT !.rest = @ \ {f}, !.clean = FALSE])
           /\ UNCHANGED <<file, stirred>>
  BY DEF EraseStep, Erase
<1>3. f \in Erased /\ f \in Files
  BY <1>1, <1>2, ResetAssumption DEF ResetJob
<1>4. /\ restored' = NoName /\ tailed' = {}
      /\ UNCHANGED <<saving, host, unnamed, begun, saves, marker, fresh,
                     tars, usb, retention, saved, regular>>
  BY DEF EraseStep, Erase, tarVars, Unrestored
<1> QED
  BY <1>1, <1>2, <1>3, <1>4

LEMMA EraseType ==
  ASSUME TypeOK, NEW p \in Commands, EraseStep(p) PROVE TypeOK'
<1>1. PICK f \in job[p].rest :
        /\ job[p] \in ResetJob /\ f \in Erased /\ f \in Files
        /\ \/ /\ file[f] = "absent" /\ UNCHANGED <<file, stirred, faults>>
              /\ Goes(p, [job[p] EXCEPT !.rest = @ \ {f}])
           \/ /\ Put(f, "absent", {p}) /\ UNCHANGED faults
              /\ Goes(p, [job[p] EXCEPT !.rest = @ \ {f}])
           \/ /\ Fault /\ UNCHANGED <<file, stirred>>
              /\ Goes(p, [job[p] EXCEPT !.rest = @ \ {f}, !.clean = FALSE])
        /\ restored' = NoName /\ tailed' = {}
        /\ UNCHANGED <<saving, host, unnamed, begun, saves, marker, fresh,
                       tars, usb, retention, saved, regular>>
  BY EraseSteps
<1>2. job' \in [Commands -> Jobs]
  <2>1. /\ [job[p] EXCEPT !.rest = @ \ {f}] \in ResetJob
        /\ [job[p] EXCEPT !.rest = @ \ {f}, !.clean = FALSE] \in ResetJob
    BY <1>1 DEF ResetJob
  <2> QED
    BY <1>1, <2>1, MakingIsJob, GoesType
<1>3. file' \in [Files -> Content] /\ stirred' \subseteq Commands
  <2>1. "absent" \in Content
    BY DEF Content
  <2>2. UNCHANGED <<file, stirred>> \/ Put(f, "absent", {p})
    BY <1>1
  <2> QED
    BY <1>1, <2>1, <2>2, PutType DEF TypeOK
<1>4. faults' \in 0 .. MaxFaults
  BY <1>1, FaultType
<1> QED
  BY <1>1, <1>2, <1>3, <1>4 DEF TypeOK, Jobs

LEMMA ResetType ==
  ASSUME TypeOK, NEW p \in Commands, ResetStep(p) PROVE TypeOK'
<1>1. CASE Reset(p)
  <2> DEFINE j == [cmd |-> "reset", rest |-> Erased, clean |-> TRUE]
  <2>1. j \in Jobs
    BY MakingIsJob DEF ResetJob
  <2>2. /\ job' \in [Commands -> Jobs] /\ stirred' \subseteq Commands
        /\ begun' \in 0 .. MaxCommands
        /\ UNCHANGED <<file, saving, host, unnamed, saves, faults>>
    BY <1>1, <2>1, StartType DEF Reset
  <2> QED
    BY <1>1, <2>2
    DEF ResetStep, Reset, TypeOK, Jobs, backupVars, tarVars, tarHistory, resetVars
<1>2. CASE Mark(p)
  <2>1. job' \in [Commands -> Jobs] /\ stirred' \subseteq Commands
    BY <1>2, MakingIsJob, GoesType DEF Mark, TypeOK
  <2>2. job[p] \in ResetJob
    BY <1>2, JobType DEF Mark
  <2>3. fresh' \in BOOLEAN
    BY <1>2, <2>2 DEF Mark, ResetJob
  <2>4. marker' \in BOOLEAN /\ unnamed' \in BOOLEAN
    BY <1>2 DEF Mark, TypeOK
  <2>5. faults' \in 0 .. MaxFaults
    <3>1. UNCHANGED faults \/ Fault
      BY <1>2 DEF Mark
    <3> QED
      BY <3>1, FaultType
  <2> QED
    BY <1>2, <2>1, <2>3, <2>4, <2>5
    DEF ResetStep, Mark, TypeOK, Jobs, backupVars, tarVars, tarHistory
<1> QED
  BY <1>1, <1>2 DEF ResetStep

LEMMA DeleteSteps ==
  ASSUME Delete
  PROVE  \E n \in Names :
           /\ tars' = [tars EXCEPT ![n] = NoTar]
           /\ saved' = IF saved = n THEN NoName ELSE saved
           /\ Replaced(n) /\ job' = Nameless({n})
           /\ begun < MaxCommands /\ begun' = begun + 1
           /\ UNCHANGED <<file, saving, host, unnamed, stirred, saves, faults, usb, retention, regular>>
  BY DEF Delete, Listed

LEMMA DeleteType ==
  ASSUME TypeOK, UNCHANGED resetVars, Delete \/ Schedule PROVE TypeOK'
<1>1. CASE Delete
  <2>1. PICK n \in Names :
          /\ tars' = [tars EXCEPT ![n] = NoTar]
          /\ saved' = IF saved = n THEN NoName ELSE saved
          /\ Replaced(n) /\ job' = Nameless({n})
          /\ begun < MaxCommands /\ begun' = begun + 1
          /\ UNCHANGED <<file, saving, host, unnamed, stirred, saves, faults, usb, retention, regular>>
    BY <1>1, DeleteSteps
  <2>2. job' \in [Commands -> Jobs]
    BY <2>1, NamelessType
  <2>3. tars' \in [Names -> Tarball]
    BY <2>1, AbsentType DEF TypeOK
  <2>4. begun' \in 0 .. MaxCommands
    BY <2>1, BoundsAssumption DEF TypeOK
  <2>5. restored' \in Names \cup {NoName} /\ tailed' \subseteq Files
    BY <2>1 DEF TypeOK, Replaced, Unrestored
  <2> QED
    BY <2>1, <2>2, <2>3, <2>4, <2>5 DEF TypeOK, Jobs, resetVars
<1>2. CASE Schedule
  <2>1. retention' \in 0 .. MaxRetention
    BY <1>2, RetentionAssumption DEF Schedule
  <2> QED
    BY <1>2, <2>1 DEF Schedule, TypeOK, dirVars, bounds, tarHistory, resetVars
<1> QED
  BY <1>1, <1>2

\* What a program that saves does.
LEMMA SaveSteps ==
  ASSUME TypeOK, Save
  PROVE  \E f \in Files, c \in Content :
           /\ Put(f, c, {})
           /\ saving' \subseteq Files
           /\ saves' \in 0 .. MaxSaves
           /\ restored' = NoName /\ tailed' = {} /\ fresh' = FALSE
           /\ UNCHANGED <<host, unnamed, job, begun, faults,
                          tars, usb, retention, saved, regular, marker>>
<1>1. PICK f \in Files : BeginSave(f) \/ EndSave(f)
  BY DEF Save
<1>2. /\ restored' = NoName /\ tailed' = {} /\ fresh' = FALSE
      /\ UNCHANGED <<tars, usb, retention, saved, regular, marker>>
  BY DEF Save, tarVars, Unrestored
<1>3. CASE BeginSave(f)
  <2>1. "empty" \in Content
    BY DEF Content
  <2>2. saves' \in 0 .. MaxSaves
    BY <1>3, BoundsAssumption DEF BeginSave, TypeOK
  <2>3. saving' \subseteq Files
    BY <1>3 DEF BeginSave, TypeOK
  <2> QED
    BY <1>2, <1>3, <2>1, <2>2, <2>3 DEF BeginSave
<1>4. CASE EndSave(f)
  <2>1. PICK v \in Values : Put(f, v, {})
    BY <1>4 DEF EndSave
  <2>3. v \in Content
    BY DEF Content
  <2>2. saving' \subseteq Files
    BY <1>4 DEF EndSave, TypeOK
  <2> QED
    BY <1>2, <1>4, <2>1, <2>2, <2>3 DEF EndSave, TypeOK, bounds
<1> QED
  BY <1>1, <1>3, <1>4

LEMMA SaveType == ASSUME TypeOK, Save PROVE TypeOK'
<1>1. PICK f \in Files, c \in Content :
        /\ Put(f, c, {})
        /\ saving' \subseteq Files
        /\ saves' \in 0 .. MaxSaves
        /\ restored' = NoName /\ tailed' = {} /\ fresh' = FALSE
        /\ UNCHANGED <<host, unnamed, job, begun, faults,
                       tars, usb, retention, saved, regular, marker>>
  BY SaveSteps
<1>2. file' \in [Files -> Content] /\ stirred' \subseteq Commands
  BY <1>1, PutType
<1> QED
  BY <1>1, <1>2 DEF TypeOK

LEMMA RebootType ==
  ASSUME TypeOK, Reboot, UNCHANGED <<backupVars, resetVars>> PROVE TypeOK'
<1>1. UNCHANGED <<file, begun, saves, faults>>
  BY DEF Reboot, bounds
<1>2. host' \in 1 .. MaxHost /\ unnamed' \in BOOLEAN /\ stirred' \subseteq Commands
  BY DEF Reboot, TypeOK
<1>3. job' \in [Commands -> Jobs]
  BY DEF Reboot, Jobs
<1>4. saving' \subseteq Files
  BY DEF Reboot
<1> QED
  BY <1>1, <1>2, <1>3, <1>4
  DEF Reboot, TypeOK, Jobs, backupVars, tarVars, tarHistory, resetVars

LEMMA TypeNext == ASSUME TypeOK, [Next]_vars PROVE TypeOK'
<1>1. ASSUME NEW p \in Commands, BackupStep(p) PROVE TypeOK'
  BY <1>1, CreateType, CreateEndsType, FinishType, RetainType, ExpireType,
         RestoreType
  DEF BackupStep
<1>2. CASE UNCHANGED vars
  BY <1>2 DEF vars, dirVars, bounds, backupVars, tarVars, tarHistory, resetVars, TypeOK
<1> QED
  BY <1>1, <1>2, ExtractType, ResetType, EraseType, DeleteType, SaveType, RebootType
  DEF Next

\* Every variable keeps its type: a job has the fields of its command, a
\* tarball the files of the directory (backup.go, reset.go).
THEOREM TypeCorrect == Spec => []TypeOK
<1>1. TypeOK /\ [Next]_vars => TypeOK'
  BY TypeNext
<1> QED
  BY <1>1, TypeInit, PTL DEF Spec

-----------------------------------------------------------------------------
(* Commands beside each other *)

\* What a step of somebody else can do to command q: take its tarball's name, or
\* change a file, which then is noted.
Aside(q) ==
  /\ \/ job'[q] = job[q]
     \/ job[q].cmd = "create" /\ job'[q] = [job[q] EXCEPT !.name = NoName]
  /\ q \in stirred => q \in stirred'
  /\ file' = file \/ job[q].cmd = "none" \/ q \in stirred'

LEMMA GoesAside ==
  ASSUME TypeOK, NEW p \in Commands, NEW j, Start(p, j) \/ Goes(p, j),
         NEW q \in Commands \ {p}
  PROVE  job'[q] = job[q]
  BY DEF TypeOK, Start, Goes

LEMMA PutAside ==
  ASSUME TypeOK, NEW f, NEW c, NEW by, Put(f, c, by), NEW q \in Commands \ by
  PROVE  /\ q \in stirred => q \in stirred'
         /\ job[q].cmd = "none" \/ q \in stirred'
<1>1. job[q].cmd = "none" \/ q \in Working
  BY DEF Working, NoJob
<1> QED
  BY <1>1 DEF Put

LEMMA NamelessAside ==
  ASSUME TypeOK, NEW gone, NEW q \in Commands
  PROVE  \/ Nameless(gone)[q] = job[q]
         \/ job[q].cmd = "create" /\ Nameless(gone)[q] = [job[q] EXCEPT !.name = NoName]
  BY DEF Nameless

LEMMA Bystander ==
  ASSUME TypeOK, NEW p \in Commands, NEW q \in Commands \ {p},
         \/ Create(p) \/ BackupStep(p) \/ ExtractStep(p) \/ ResetStep(p)
         \/ EraseStep(p)
  PROVE  Aside(q)
<1>1. CASE Create(p)
  <2>1. PICK second \in 1 .. MaxTime :
          Start(p, [cmd |-> "create", name |-> <<host, second>>, head |-> "none",
                    size |-> 0, of |-> file, rest |-> Walked])
    BY <1>1 DEF Create
  <2>2. job'[q] = job[q]
    BY <2>1, GoesAside
  <2>3. file' = file /\ stirred' = stirred \ {p}
    BY <2>1 DEF Start
  <2> QED
    BY <2>2, <2>3 DEF Aside
<1>2. CASE Header(p) \/ Copy(p)
  <2>1. (\E j : Goes(p, j)) /\ UNCHANGED <<file, stirred>>
    BY <1>2, HeaderSteps, CopySteps
  <2>2. job'[q] = job[q]
    BY <2>1, GoesAside
  <2> QED
    BY <2>1, <2>2 DEF Aside
<1>3. CASE CreateFails(p) \/ RestoreFails(p) \/ Restored(p)
  <2>1. Ended(p) /\ file' = file
    BY <1>3 DEF CreateFails, RestoreFails, Restored
  <2>2. job'[q] = job[q]
    BY <2>1, GoesAside DEF Ended
  <2> QED
    BY <2>1, <2>2 DEF Ended, Aside
<1>4. CASE Finish(p)
  <2>1. job'[q] = job[q]
    BY <1>4, GoesAside DEF Finish
  <2> QED
    BY <1>4, <2>1 DEF Finish, Aside
<1>5. CASE Retain(p)
  <2>1. \/ Goes(p, [cmd |-> "expire", doomed |-> Excess])
        \/ Goes(p, NoJob)
    BY <1>5, RetainSteps DEF Ended
  <2>2. stirred \ {p} \subseteq stirred' /\ file' = file
    BY <1>5, RetainSteps
  <2>3. job'[q] = job[q]
    BY <2>1, GoesAside
  <2> QED
    BY <2>2, <2>3 DEF Aside
<1>6. CASE Expire(p)
  <2>1. PICK n \in Names, gone \in SUBSET Names :
          /\ job' = [Nameless(gone) EXCEPT ![p] = NextJob(job[p].doomed \ {n})]
          /\ stirred \ {p} \subseteq stirred' /\ file' = file
    BY <1>6, ExpireSteps
  <2>2. job'[q] = Nameless(gone)[q]
    BY <2>1, NamelessType
  <2> QED
    BY <2>1, <2>2, NamelessAside DEF Aside
<1>7. CASE Restore(p)
  <2>1. PICK j : Start(p, j)
    BY <1>7, RestoreStarts
  <2>2. job'[q] = job[q]
    BY <2>1, GoesAside
  <2> QED
    BY <2>1, <2>2 DEF Start, Aside
<1>8. CASE ExtractStep(p)
  <2>1. PICK f \in job[p].rest :
          /\ Put(f, Over(file[f], job[p].tar.holds[f]), {p})
          /\ Goes(p, Writes(p, f))
    BY <1>8, ExtractSteps DEF ExtractStep
  <2>2. job'[q] = job[q]
    BY <2>1, GoesAside
  <2>3. q \in Commands \ {p}
    OBVIOUS
  <2>4. (q \in stirred => q \in stirred') /\ (job[q].cmd = "none" \/ q \in stirred')
    BY <2>1, <2>3, PutAside
  <2> QED
    BY <2>2, <2>4 DEF Aside
<1>9. CASE ResetStep(p)
  <2> DEFINE j == [cmd |-> "reset", rest |-> Erased, clean |-> TRUE]
  <2>1. \/ Start(p, j)
        \/ Goes(p, NoJob) /\ UNCHANGED <<stirred, file>>
    <3>1. CASE Reset(p)
      BY <3>1 DEF Reset
    <3>2. CASE Mark(p)
      BY <3>2 DEF Mark
    <3> QED
      BY <1>9, <3>1, <3>2 DEF ResetStep
  <2>2. stirred \ {p} \subseteq stirred' /\ file' = file
    BY <2>1 DEF Start
  <2> HIDE DEF j
  <2>3. job'[q] = job[q]
    BY <2>1, GoesAside
  <2> QED
    BY <2>2, <2>3 DEF Aside
<1>10. CASE EraseStep(p)
  <2>1. PICK f \in job[p].rest :
          /\ (\E j : Goes(p, j))
          /\ UNCHANGED <<file, stirred>> \/ Put(f, "absent", {p})
    BY <1>10, EraseSteps
  <2>2. job'[q] = job[q]
    BY <2>1, GoesAside
  <2>3. CASE Put(f, "absent", {p})
    <3>1. (q \in stirred => q \in stirred') /\ (job[q].cmd = "none" \/ q \in stirred')
      BY <2>3, PutAside
    <3> QED
      BY <2>2, <3>1 DEF Aside
  <2> QED
    BY <2>1, <2>2, <2>3 DEF Aside
<1> QED
  BY <1>1, <1>2, <1>3, <1>4, <1>5, <1>6, <1>7, <1>8, <1>9, <1>10 DEF BackupStep

LEMMA Outsider ==
  ASSUME TypeOK, Save \/ Delete \/ Schedule \/ UNCHANGED vars, NEW q \in Commands
  PROVE  Aside(q)
<1>1. CASE Save
  <2>1. PICK f \in Files, c \in Content : Put(f, c, {}) /\ UNCHANGED job
    BY <1>1, SaveSteps
  <2>2. (q \in stirred => q \in stirred') /\ (job[q].cmd = "none" \/ q \in stirred')
    BY <2>1, PutAside
  <2> QED
    BY <2>1, <2>2 DEF Aside
<1>2. CASE Delete
  <2>1. PICK n \in Names : job' = Nameless({n}) /\ UNCHANGED <<file, stirred>>
    BY <1>2, DeleteSteps
  <2> QED
    BY <2>1, NamelessAside DEF Aside
<1>3. CASE Schedule \/ UNCHANGED vars
  BY <1>3 DEF Schedule, vars, dirVars, Aside
<1> QED
  BY <1>1, <1>2, <1>3

\* A command's next step is of the same kind, or ends it.
LEMMA SelfCmd ==
  ASSUME TypeOK, NEW p \in Commands, BackupStep(p) \/ ExtractStep(p)
  PROVE  /\ Create(p) \/ Header(p) \/ Copy(p) => job'[p].cmd = "create"
         /\ Finish(p) => job'[p].cmd = "retain"
         /\ Restore(p) \/ Extract(p) => job'[p].cmd = "restore"
         /\ Retain(p) \/ Expire(p) => job'[p].cmd \in {"expire", "none"}
         /\ CreateFails(p) \/ RestoreFails(p) \/ Restored(p) => job'[p].cmd = "none"
         /\ job'[p].cmd # "reset"
<1>1. ASSUME NEW j, Start(p, j) \/ Goes(p, j) PROVE job'[p] = j
  BY <1>1 DEF Start, Goes, TypeOK
<1>2. Create(p) => job'[p].cmd = "create"
  <2> SUFFICES ASSUME Create(p) PROVE job'[p].cmd = "create"
    OBVIOUS
  <2>1. PICK second \in 1 .. MaxTime :
          Start(p, [cmd |-> "create", name |-> <<host, second>>, head |-> "none",
                    size |-> 0, of |-> file, rest |-> Walked])
    BY DEF Create
  <2> QED
    BY <1>1, <2>1
<1>3. Header(p) \/ Copy(p) => job'[p].cmd = "create"
  <2> SUFFICES ASSUME Header(p) \/ Copy(p) PROVE job'[p].cmd = "create"
    OBVIOUS
  <2>1. job[p] \in Making /\ job[p].cmd = "create"
    BY JobType DEF Header, Copy, Creating
  <2>2. CASE Header(p)
    <3>1. PICK f \in job[p].rest :
            /\ Goes(p, Heads(p, f)) \/ Goes(p, Skips(p, f))
            /\ Heads(p, f) \in Making /\ Skips(p, f) \in Making
      BY <2>2, HeaderSteps
    <3>2. job'[p] \in Making
      BY <1>1, <3>1
    <3> QED
      BY <3>2 DEF Making
  <2>3. CASE Copy(p)
    <3>1. [job[p] EXCEPT !.head = "none"].cmd = "create"
          /\ [job[p] EXCEPT !.head = "cut"].cmd = "create"
      BY <2>1 DEF Making
    <3> QED
      BY <1>1, <2>3, <3>1, CopySteps
  <2> QED
    BY <2>2, <2>3
<1>4. Finish(p) => job'[p].cmd = "retain"
  BY <1>1 DEF Finish
<1>5. Restore(p) => job'[p].cmd = "restore"
  <2> SUFFICES ASSUME Restore(p) PROVE job'[p].cmd = "restore"
    OBVIOUS
  <2>1. PICK dir \in {tars, usb}, n \in Names : Start(p, RestoreOf(dir, n))
    BY RestoreStarts
  <2>2. job'[p] = RestoreOf(dir, n)
    BY <1>1, <2>1
  <2> QED
    BY <2>2 DEF RestoreOf
<1>6. Extract(p) => job'[p].cmd = "restore"
  <2> SUFFICES ASSUME Extract(p) PROVE job'[p].cmd = "restore"
    OBVIOUS
  <2>1. PICK f \in job[p].rest : Goes(p, Writes(p, f)) /\ Writes(p, f) \in RestoreJob
    BY ExtractSteps
  <2>2. job'[p] \in RestoreJob
    BY <1>1, <2>1
  <2> QED
    BY <2>2 DEF RestoreJob
<1>7. CreateFails(p) \/ RestoreFails(p) \/ Restored(p) => job'[p].cmd = "none"
  BY <1>1 DEF CreateFails, RestoreFails, Restored, Ended, NoJob
<1>8. Retain(p) \/ Expire(p) => job'[p].cmd \in {"expire", "none"}
  <2>1. ASSUME Retain(p) PROVE job'[p].cmd \in {"expire", "none"}
    <3>1. \/ Goes(p, [cmd |-> "expire", doomed |-> Excess])
          \/ Goes(p, NoJob)
      BY <2>1, RetainSteps DEF Ended
    <3> QED
      BY <1>1, <3>1 DEF NoJob
  <2>2. ASSUME Expire(p) PROVE job'[p].cmd \in {"expire", "none"}
    <3>1. PICK n \in Names, gone \in SUBSET Names :
            job' = [Nameless(gone) EXCEPT ![p] = NextJob(job[p].doomed \ {n})]
      BY <2>2, ExpireSteps
    <3>2. job'[p] = NextJob(job[p].doomed \ {n})
      BY <3>1, NamelessType
    <3> QED
      BY <3>2 DEF NextJob, NoJob
  <2> QED
    BY <2>1, <2>2
<1> QED
  BY <1>2, <1>3, <1>4, <1>5, <1>6, <1>7, <1>8 DEF BackupStep, ExtractStep

-----------------------------------------------------------------------------
(* The factory reset *)

LEMMA ErasingAside ==
  ASSUME TypeOK, NEW q \in Commands, ErasingOf(q), Aside(q) PROVE ErasingOf(q)'
<1> SUFFICES ASSUME job'[q].cmd = "reset", q \notin stirred', job'[q].clean,
                    NEW f \in Erased \ job'[q].rest
             PROVE  file'[f] = "absent"
  BY DEF ErasingOf
<1>1. job'[q] = job[q]
  <2>1. CASE job[q].cmd = "create" /\ job'[q] = [job[q] EXCEPT !.name = NoName]
    <3>1. job[q] \in Making
      BY <2>1, JobType
    <3>2. job'[q].cmd = "create"
      BY <2>1, <3>1 DEF Making
    <3> QED
      BY <3>2
  <2> QED
    BY <2>1 DEF Aside
<1>2. file' = file
  BY <1>1 DEF Aside
<1> QED
  BY <1>1, <1>2 DEF ErasingOf, Aside

\* The command itself: only a reset has something to keep.
LEMMA ErasingSelf ==
  ASSUME TypeOK, NEW p \in Commands, ErasingOf(p),
         BackupStep(p) \/ ExtractStep(p) \/ ResetStep(p) \/ EraseStep(p)
  PROVE  ErasingOf(p)'
<1>1. CASE EraseStep(p)
  <2>1. PICK f \in job[p].rest :
          /\ job[p] \in ResetJob /\ f \in Erased /\ f \in Files
          /\ \/ /\ file[f] = "absent" /\ UNCHANGED <<file, stirred>>
                /\ Goes(p, [job[p] EXCEPT !.rest = @ \ {f}])
             \/ /\ Put(f, "absent", {p})
                /\ Goes(p, [job[p] EXCEPT !.rest = @ \ {f}])
             \/ Goes(p, [job[p] EXCEPT !.rest = @ \ {f}, !.clean = FALSE])
    BY <1>1, EraseSteps
  <2> SUFFICES ASSUME p \notin stirred', job'[p].clean, NEW g \in Erased \ job'[p].rest
               PROVE  file'[g] = "absent"
    BY DEF ErasingOf
  <2>2. \/ job'[p] = [job[p] EXCEPT !.rest = @ \ {f}]
        \/ job'[p] = [job[p] EXCEPT !.rest = @ \ {f}, !.clean = FALSE]
    BY <2>1 DEF Goes, TypeOK
  <2>3. job'[p].rest = job[p].rest \ {f}
    BY <2>1, <2>2 DEF ResetJob
  <2>4. job'[p].clean => job[p].clean /\ job'[p] = [job[p] EXCEPT !.rest = @ \ {f}]
    BY <2>1, <2>2 DEF ResetJob
  <2>5. ~Goes(p, [job[p] EXCEPT !.rest = @ \ {f}, !.clean = FALSE])
    <3>1. [job[p] EXCEPT !.rest = @ \ {f}, !.clean = FALSE].clean = FALSE
      BY <2>1 DEF ResetJob
    <3> QED
      BY <3>1 DEF Goes, TypeOK
  <2>6. \/ file[f] = "absent" /\ UNCHANGED <<file, stirred>>
        \/ Put(f, "absent", {p})
    BY <2>1, <2>5
  <2>7. p \notin stirred /\ job[p].cmd = "reset"
    BY <2>1, <2>6 DEF Put, ResetJob
  <2>8. g = f \/ file[g] = "absent"
    BY <2>3, <2>4, <2>7 DEF ErasingOf
  <2>9. \/ file' = file /\ file[f] = "absent"
        \/ file' = [file EXCEPT ![f] = "absent"]
    BY <2>6 DEF Put
  <2>10. g \in Files /\ file \in [Files -> Content]
    BY ResetAssumption DEF TypeOK
  <2> QED
    BY <2>1, <2>8, <2>9, <2>10
<1>2. CASE ResetStep(p)
  <2>1. CASE Reset(p)
    <3>1. job'[p] = [cmd |-> "reset", rest |-> Erased, clean |-> TRUE]
      BY <2>1 DEF Reset, Start, TypeOK
    <3> QED
      BY <3>1 DEF ErasingOf
  <2>2. CASE Mark(p)
    <3>1. job'[p] = NoJob
      BY <2>2 DEF Mark, Goes, TypeOK
    <3> QED
      BY <3>1 DEF ErasingOf, NoJob
  <2> QED
    BY <1>2, <2>1, <2>2 DEF ResetStep
<1>3. CASE BackupStep(p) \/ ExtractStep(p)
  <2>1. job'[p].cmd # "reset"
    BY <1>3, SelfCmd
  <2> QED
    BY <2>1 DEF ErasingOf
<1> QED
  BY <1>1, <1>2, <1>3

LEMMA ErasingAllNext ==
  ASSUME TypeOK, \A p \in Commands : ErasingOf(p), [Next]_vars
  PROVE  \A p \in Commands : ErasingOf(p)'
<1> SUFFICES ASSUME NEW q \in Commands PROVE ErasingOf(q)'
  OBVIOUS
<1>1. ErasingOf(q)
  OBVIOUS
<1>2. ASSUME NEW p \in Commands,
             BackupStep(p) \/ ExtractStep(p) \/ ResetStep(p) \/ EraseStep(p)
      PROVE  ErasingOf(q)'
  <2>1. CASE p = q
    BY <1>1, <1>2, <2>1, ErasingSelf
  <2>2. CASE p # q
    <3>1. q \in Commands \ {p}
      BY <2>2
    <3>2. Aside(q)
      BY <1>2, <3>1, Bystander
    <3> QED
      BY <1>1, <3>2, ErasingAside
  <2> QED
    BY <2>1, <2>2
<1>3. CASE Save \/ Delete \/ Schedule \/ UNCHANGED vars
  <2>1. Aside(q)
    BY <1>3, Outsider
  <2> QED
    BY <1>1, <2>1, ErasingAside
<1>4. CASE Reboot
  <2>1. job'[q] = NoJob
    BY <1>4 DEF Reboot
  <2> QED
    BY <2>1 DEF ErasingOf, NoJob
<1> QED
  BY <1>2, <1>3, <1>4 DEF Next

\* The mark itself: it is made with all of the list gone and no save in
\* progress, and every other change of a file takes it away, or erases.
LEMMA MarkNext ==
  ASSUME TypeOK, MarkInv, \A p \in Commands : ErasingOf(p), [Next]_vars
  PROVE  MarkInv'
<1>1. ASSUME NEW p \in Commands, BackupStep(p) PROVE UNCHANGED <<file, saving, fresh>>
  <2>1. fresh' = fresh
    BY <1>1 DEF BackupStep, resetVars
  <2>2. UNCHANGED <<file, saving>>
    <3>1. CASE Create(p) \/ Restore(p)
      <4>1. CASE Create(p)
        <5>1. PICK second \in 1 .. MaxTime :
                Start(p, [cmd |-> "create", name |-> <<host, second>>, head |-> "none",
                          size |-> 0, of |-> file, rest |-> Walked])
          BY <4>1 DEF Create
        <5> QED
          BY <5>1 DEF Start
      <4>2. CASE Restore(p)
        <5>1. PICK dir \in {tars, usb}, n \in Names : Start(p, RestoreOf(dir, n))
          BY <4>2, RestoreStarts
        <5> QED
          BY <5>1 DEF Start
      <4> QED
        BY <3>1, <4>1, <4>2
    <3>2. CASE Header(p) \/ Copy(p) \/ CreateFails(p)
      BY <3>2 DEF Header, Copy, CreateFails
    <3>3. CASE Finish(p) \/ Retain(p) \/ Expire(p)
      BY <3>3 DEF Finish, Retain, Expire
    <3>4. CASE RestoreFails(p) \/ Restored(p)
      BY <3>4 DEF RestoreFails, Restored
    <3> QED
      BY <1>1, <3>1, <3>2, <3>3, <3>4 DEF BackupStep
  <2> QED
    BY <2>1, <2>2
<1>2. ASSUME NEW p \in Commands, ExtractStep(p) \/ Save PROVE ~fresh'
  BY <1>2 DEF ExtractStep, Save
<1>3. ASSUME NEW p \in Commands, EraseStep(p) PROVE MarkInv'
  <2>1. PICK f \in job[p].rest :
          /\ f \in Files
          /\ file' = file \/ file' = [file EXCEPT ![f] = "absent"]
          /\ UNCHANGED <<saving, fresh>>
    BY <1>3, EraseSteps DEF Put
  <2>2. \A g \in Files : file[g] = "absent" => file'[g] = "absent"
    BY <2>1 DEF TypeOK
  <2> QED
    BY <2>1, <2>2, ResetAssumption DEF MarkInv
<1>4. ASSUME NEW p \in Commands, ResetStep(p) PROVE MarkInv'
  <2>1. CASE Reset(p)
    <3>1. UNCHANGED <<file, saving, fresh>>
      BY <2>1 DEF Reset, Start, resetVars
    <3> QED
      BY <3>1 DEF MarkInv
  <2>2. CASE Mark(p)
    <3>1. fresh' => /\ \A f \in Erased \ job[p].rest : file[f] = "absent"
                    /\ saving = {}
      BY <2>2 DEF Mark, ErasingOf
    <3>2. job[p].rest = {} /\ UNCHANGED <<file, saving>>
      BY <2>2 DEF Mark
    <3> QED
      BY <3>1, <3>2 DEF MarkInv
  <2> QED
    BY <1>4, <2>1, <2>2 DEF ResetStep
<1>5. CASE ((Delete \/ Schedule) /\ UNCHANGED resetVars) \/ UNCHANGED vars
  <2>1. UNCHANGED <<file, saving, fresh>>
    BY <1>5 DEF Delete, Schedule, dirVars, resetVars, vars
  <2> QED
    BY <2>1 DEF MarkInv
<1>6. CASE Reboot /\ UNCHANGED <<backupVars, resetVars>>
  <2>1. UNCHANGED <<file, fresh>> /\ saving' = {}
    BY <1>6 DEF Reboot, resetVars
  <2> QED
    BY <2>1 DEF MarkInv
<1>7. CASE Save
  BY <1>7 DEF Save, MarkInv
<1>8. ASSUME NEW p \in Commands, BackupStep(p) \/ ExtractStep(p) PROVE MarkInv'
  BY <1>1, <1>2, <1>8 DEF MarkInv
<1> QED
  BY <1>3, <1>4, <1>5, <1>6, <1>7, <1>8 DEF Next

\* What a reset none of whose removals failed has erased stays away, through
\* reboots, backups and other resets, until a program writes or a restore
\* extracts (reset.go:110-154): for every list of files to erase.
THEOREM ResetStays == Spec => []ResetForgets
<1> DEFINE Inv == TypeOK /\ MarkInv /\ \A p \in Commands : ErasingOf(p)
<1>1. Init => Inv
  <2> SUFFICES ASSUME Init PROVE Inv
    OBVIOUS
  <2>1. fresh = FALSE /\ \A p \in Commands : job[p] = NoJob
    BY DEF Init, ResetInit, DirInit
  <2> QED
    BY <2>1, TypeInit DEF MarkInv, ErasingOf, NoJob
<1>2. Inv /\ [Next]_vars => Inv'
  BY TypeNext, MarkNext, ErasingAllNext
<1>3. Inv => ResetForgets
  BY DEF MarkInv, ResetForgets
<1> QED
  BY <1>1, <1>2, <1>3, PTL DEF Spec

-----------------------------------------------------------------------------
(* The last good backup *)

LEMMA BeforeOrder ==
  ASSUME NEW m \in Names, NEW n \in Names
  PROVE  ~Before(m, m) /\ (Before(m, n) => ~Before(n, m))
<1>1. m[1] \in Nat /\ m[2] \in Nat /\ n[1] \in Nat /\ n[2] \in Nat
  BY DEF Names
<1> QED
  BY <1>1 DEF Before

\* Command q begins no creation and ends none, and it is not about to remove more
\* than it was, or than retention asks for.
Calm(q) ==
  /\ job'[q].cmd \in {"create", "retain"} =>
       /\ job'[q].cmd = job[q].cmd
       /\ job[q].cmd = "create" => job'[q].name \in {job[q].name, NoName}
  /\ job'[q].cmd = "expire" =>
       \/ job[q].cmd = "expire" /\ job'[q].doomed \subseteq job[q].doomed
       \/ job[q].cmd = "retain" /\ job'[q].doomed = Excess

LEMMA CalmAside == ASSUME TypeOK, NEW q \in Commands, Aside(q) PROVE Calm(q)
<1>1. CASE job'[q] = job[q]
  BY <1>1 DEF Calm
<1>2. CASE job[q].cmd = "create" /\ job'[q] = [job[q] EXCEPT !.name = NoName]
  <2>1. job[q] \in Making
    BY <1>2, JobType
  <2>2. job'[q].cmd = "create" /\ job'[q].name = NoName
    BY <1>2, <2>1 DEF Making
  <2> QED
    BY <1>2, <2>2 DEF Calm
<1> QED
  BY <1>1, <1>2 DEF Aside

\* The next file, or its contents: the job is of the same tarball.
LEMMA MakingSelf ==
  ASSUME TypeOK, NEW p \in Commands, Header(p) \/ Copy(p)
  PROVE  /\ job[p] \in Making /\ job'[p] \in Making
         /\ job'[p].name = job[p].name
         /\ Copy(p) => job'[p].of = job[p].of /\ job'[p].rest = job[p].rest
<1>1. CASE Header(p)
  <2>1. PICK f \in job[p].rest :
          /\ job[p] \in Making
          /\ Goes(p, Heads(p, f)) \/ Goes(p, Skips(p, f))
          /\ Heads(p, f) \in Making /\ Heads(p, f).name = job[p].name
          /\ Skips(p, f) \in Making /\ Skips(p, f).name = job[p].name
    BY <1>1, HeaderSteps
  <2>2. job'[p] = Heads(p, f) \/ job'[p] = Skips(p, f)
    BY <2>1 DEF Goes, TypeOK
  <2>3. job[p].head = "none" /\ ~Copy(p)
    <3>1. job[p].head = "none"
      BY <1>1 DEF Header
    <3> QED
      BY <3>1, HeadAssumption, CopySteps
  <2> QED
    BY <2>1, <2>2, <2>3
<1>2. CASE Copy(p)
  <2>1. /\ job[p] \in Making
        /\ \/ Goes(p, [job[p] EXCEPT !.head = "none"])
           \/ Goes(p, [job[p] EXCEPT !.head = "cut"])
    BY <1>2, CopySteps
  <2>2. \/ job'[p] = [job[p] EXCEPT !.head = "none"]
        \/ job'[p] = [job[p] EXCEPT !.head = "cut"]
    BY <2>1 DEF Goes, TypeOK
  <2> QED
    BY <2>1, <2>2 DEF Making
<1> QED
  BY <1>1, <1>2

LEMMA ResetCmd ==
  ASSUME TypeOK, NEW p \in Commands, ResetStep(p) \/ EraseStep(p)
  PROVE  job'[p].cmd \in {"none", "reset"}
<1>1. CASE Reset(p)
  BY <1>1 DEF Reset, Start, TypeOK
<1>2. CASE Mark(p)
  BY <1>2 DEF Mark, Goes, NoJob, TypeOK
<1>3. CASE EraseStep(p)
  <2>1. PICK f \in job[p].rest :
          /\ job[p] \in ResetJob
          /\ \/ Goes(p, [job[p] EXCEPT !.rest = @ \ {f}])
             \/ Goes(p, [job[p] EXCEPT !.rest = @ \ {f}, !.clean = FALSE])
    BY <1>3, EraseSteps
  <2>2. /\ [job[p] EXCEPT !.rest = @ \ {f}].cmd = "reset"
        /\ [job[p] EXCEPT !.rest = @ \ {f}, !.clean = FALSE].cmd = "reset"
    BY <2>1 DEF ResetJob
  <2> QED
    BY <2>1, <2>2 DEF Goes, TypeOK
<1> QED
  BY <1>1, <1>2, <1>3 DEF ResetStep

LEMMA CalmSelf ==
  ASSUME TypeOK, NEW p \in Commands,
         BackupStep(p) \/ ExtractStep(p) \/ ResetStep(p) \/ EraseStep(p),
         ~Create(p), ~Finish(p)
  PROVE  Calm(p)
<1>1. CASE Header(p) \/ Copy(p)
  <2>1. job[p].cmd = "create" /\ job'[p].cmd = "create"
    BY <1>1, MakingSelf DEF Making
  <2> QED
    BY <1>1, <2>1, MakingSelf DEF Calm
<1>2. CASE Retain(p)
  <2>1. /\ job[p].cmd = "retain"
        /\ \/ Goes(p, [cmd |-> "expire", doomed |-> Excess])
           \/ Goes(p, NoJob)
    BY <1>2, RetainSteps DEF Ended
  <2>2. \/ job'[p] = [cmd |-> "expire", doomed |-> Excess]
        \/ job'[p] = NoJob
    BY <2>1 DEF Goes, TypeOK
  <2> QED
    BY <2>1, <2>2 DEF Calm, NoJob
<1>3. CASE Expire(p)
  <2>1. PICK n \in Names, gone \in SUBSET Names :
          /\ job[p] \in Expiring
          /\ job' = [Nameless(gone) EXCEPT ![p] = NextJob(job[p].doomed \ {n})]
    BY <1>3, ExpireSteps
  <2>2. job'[p] = NextJob(job[p].doomed \ {n})
    BY <2>1, NamelessType
  <2>3. job[p].cmd = "expire"
    BY <2>1 DEF Expiring
  <2> QED
    BY <2>2, <2>3 DEF Calm, NextJob, NoJob
<1>4. CASE /\ BackupStep(p) \/ ExtractStep(p)
           /\ ~Header(p) /\ ~Copy(p) /\ ~Retain(p) /\ ~Expire(p)
  <2>1. job'[p].cmd \in {"none", "restore"}
    BY <1>4, SelfCmd DEF BackupStep, ExtractStep
  <2> QED
    BY <2>1 DEF Calm
<1>5. CASE ResetStep(p) \/ EraseStep(p)
  <2>1. job'[p].cmd \in {"none", "reset"}
    BY <1>5, ResetCmd
  <2> QED
    BY <2>1 DEF Calm
<1> QED
  BY <1>1, <1>2, <1>3, <1>4, <1>5

\* Retention keeps the name that sorts last, whatever it is asked to keep.
LEMMA ExcessSpares ==
  ASSUME TypeOK, SavedInv, regular, saved # NoName,
         NEW p \in Commands, job[p].cmd = "retain"
  PROVE  saved \notin Excess
<1>1. saved \in Names
  BY DEF TypeOK
<1>2. \A m \in Listed(tars) \ {saved} : Before(m, saved)
  BY DEF SavedInv, LastNameOf
<1>3. {m \in Listed(tars) : Before(saved, m)} = {}
  BY <1>1, <1>2, BeforeOrder DEF Listed
<1>4. Cardinality({m \in Listed(tars) : Before(saved, m)}) = 0
  BY <1>3, FS_EmptySet
<1>5. retention \in Nat
  BY RetentionAssumption DEF TypeOK
<1>6. retention # 0 => ~(0 >= retention)
  BY <1>5
<1> QED
  BY <1>4, <1>6 DEF Excess

\* A step of calm commands that leaves the list of backups or shortens it, but
\* for the saved one.
LEMMA CalmSaved ==
  ASSUME TypeOK, SavedInv, \A q \in Commands : Calm(q),
         regular' = regular, saved' \in {saved, NoName},
         Listed(tars') \subseteq Listed(tars),
         regular /\ saved' # NoName => tars'[saved].is = "whole"
  PROVE  SavedInv'
<1> SUFFICES ASSUME regular
             PROVE  /\ OneCreator' /\ SavedWhole'
                    /\ \A q \in Commands :
                         NewNameOf(q)' /\ LastNameOf(q)' /\ SparesOf(q)'
  BY DEF SavedInv
<1>1. OneCreator'
  <2>1. Creators' \subseteq Creators
    BY DEF Creators, Working, Calm, NoJob
  <2> QED
    BY <2>1 DEF SavedInv, OneCreator
<1>2. SavedWhole'
  BY DEF SavedWhole
<1>3. ASSUME NEW q \in Commands PROVE NewNameOf(q)'
  <2> SUFFICES ASSUME job'[q].cmd = "create", job'[q].name # NoName
               PROVE  /\ job'[q].name # saved'
                      /\ \A m \in Listed(tars') \ {job'[q].name} : Before(m, job'[q].name)
    BY DEF NewNameOf
  <2>1. job[q].cmd = "create" /\ job'[q].name = job[q].name
    BY DEF Calm
  <2> QED
    BY <2>1 DEF SavedInv, NewNameOf
<1>4. ASSUME NEW q \in Commands PROVE LastNameOf(q)'
  <2> SUFFICES ASSUME job'[q].cmd = "retain", saved' # NoName
               PROVE  \A m \in Listed(tars') \ {saved'} : Before(m, saved')
    BY DEF LastNameOf
  <2>1. job[q].cmd = "retain"
    BY DEF Calm
  <2> QED
    BY <2>1 DEF SavedInv, LastNameOf
<1>5. ASSUME NEW q \in Commands PROVE SparesOf(q)'
  <2> SUFFICES ASSUME job'[q].cmd = "expire" PROVE saved' \notin job'[q].doomed
    BY DEF SparesOf
  <2>1. CASE job[q].cmd = "expire" /\ job'[q].doomed \subseteq job[q].doomed
    <3>1. job[q].doomed \subseteq Names
      BY <2>1, JobType DEF Expiring
    <3>2. saved \notin job[q].doomed
      BY <2>1 DEF SavedInv, SparesOf
    <3> QED
      BY <2>1, <3>1, <3>2, NoNameType
  <2>2. CASE job[q].cmd = "retain" /\ job'[q].doomed = Excess
    <3>1. NoName \notin Excess
      BY NoNameType DEF Excess, Listed
    <3>2. saved # NoName => saved \notin Excess
      BY <2>2, ExcessSpares
    <3> QED
      BY <2>2, <3>1, <3>2
  <2> QED
    BY <2>1, <2>2 DEF Calm
<1> QED
  BY <1>1, <1>2, <1>3, <1>4, <1>5

LEMMA CreateSaved ==
  ASSUME TypeOK, SavedInv, NEW p \in Commands, Create(p)
  PROVE  SavedInv'
<1>1. PICK second \in 1 .. MaxTime :
        /\ Start(p, [cmd |-> "create", name |-> <<host, second>>, head |-> "none",
                     size |-> 0, of |-> file, rest |-> Walked])
        /\ \E x \in {"partial", "garbled"} :
             tars' = [tars EXCEPT ![<<host, second>>] =
                        [is |-> x, holds |-> Absent, of |-> Absent]]
        /\ regular' = (regular /\ Creators = {}
                         /\ \A m \in Listed(tars) : Before(m, <<host, second>>))
        /\ saved' = IF regular' THEN saved ELSE NoName
  BY DEF Create
<1> DEFINE n == <<host, second>>
<1>2. n \in Names
  BY DEF TypeOK, Names
<1> SUFFICES ASSUME regular'
             PROVE  /\ OneCreator' /\ SavedWhole'
                    /\ \A q \in Commands :
                         NewNameOf(q)' /\ LastNameOf(q)' /\ SparesOf(q)'
  BY DEF SavedInv
<1>3. regular /\ Creators = {} /\ (\A m \in Listed(tars) : Before(m, n)) /\ saved' = saved
  BY <1>1
<1>4. job' = [job EXCEPT ![p] = [cmd |-> "create", name |-> n, head |-> "none",
                                 size |-> 0, of |-> file, rest |-> Walked]]
  BY <1>1 DEF Start
<1>5. \A q \in Commands : job'[q].cmd \in {"create", "retain", "expire"} => q = p
  BY <1>3, <1>4 DEF TypeOK, Creators, Working, NoJob
<1>6. job'[p].cmd = "create" /\ job'[p].name = n
  BY <1>4 DEF TypeOK
<1>7. OneCreator'
  BY <1>5 DEF OneCreator, Creators, Working
<1>8. saved # NoName => saved # n /\ saved \in Names
  <2>1. saved # NoName => saved \in Listed(tars)
    BY <1>3 DEF SavedInv, SavedWhole, Listed, TypeOK
  <2> QED
    BY <1>2, <1>3, <2>1, BeforeOrder DEF Listed
<1>9. SavedWhole'
  <2>1. saved # NoName => tars'[saved] = tars[saved]
    BY <1>1, <1>8 DEF TypeOK
  <2> QED
    BY <1>3, <2>1 DEF SavedInv, SavedWhole
<1>10. Listed(tars') \subseteq Listed(tars) \cup {n}
  BY <1>1, <1>2 DEF Listed, TypeOK
<1>11. NewNameOf(p)'
  <2>1. n # saved'
    BY <1>2, <1>3, <1>8, NoNameType
  <2> QED
    BY <1>3, <1>6, <1>10, <2>1 DEF NewNameOf
<1>12. ASSUME NEW q \in Commands PROVE NewNameOf(q)' /\ LastNameOf(q)' /\ SparesOf(q)'
  BY <1>5, <1>6, <1>11 DEF NewNameOf, LastNameOf, SparesOf
<1> QED
  BY <1>7, <1>9, <1>12

LEMMA FinishSaved ==
  ASSUME TypeOK, SavedInv, NEW p \in Commands, Finish(p)
  PROVE  SavedInv'
<1> DEFINE n == job[p].name
<1> SUFFICES ASSUME regular'
             PROVE  /\ OneCreator' /\ SavedWhole'
                    /\ \A q \in Commands :
                         NewNameOf(q)' /\ LastNameOf(q)' /\ SparesOf(q)'
  BY DEF SavedInv
<1>1. /\ n \in Names /\ job[p] \in Making
      /\ \E is \in {"garbled", "short", "whole", "partial"} :
           /\ Finished(p, is).is = is /\ is = "whole"
           /\ tars' = [tars EXCEPT ![n] = Finished(p, is)]
      /\ regular /\ saved' = n
      /\ job' = [job EXCEPT ![p] = [cmd |-> "retain"]]
  BY FinishSteps DEF Goes
<1>2. p \in Creators /\ job[p].cmd = "create"
  BY <1>1 DEF Creators, Working, Making, NoJob
<1>3. \A q \in Commands : job[q].cmd \in {"create", "retain", "expire"} => q = p
  <2>1. \A q \in Commands :
          job[q].cmd \in {"create", "retain", "expire"} => q \in Creators
    BY DEF Creators, Working, NoJob
  <2> QED
    BY <1>1, <1>2, <2>1 DEF SavedInv, OneCreator
<1>4. \A q \in Commands : job'[q].cmd \in {"create", "retain", "expire"} => q = p
  BY <1>1, <1>3 DEF TypeOK
<1>5. job'[p].cmd = "retain"
  BY <1>1 DEF TypeOK
<1>6. OneCreator'
  BY <1>4 DEF OneCreator, Creators, Working
<1>7. SavedWhole'
  BY <1>1 DEF SavedWhole, TypeOK
<1>8. n # NoName
  BY <1>1, NoNameType
<1>9. \A m \in Listed(tars) \ {n} : Before(m, n)
  BY <1>1, <1>2, <1>8 DEF SavedInv, NewNameOf
<1>10. Listed(tars') \subseteq Listed(tars) \cup {n}
  BY <1>1 DEF Listed, TypeOK
<1>11. LastNameOf(p)'
  BY <1>1, <1>9, <1>10 DEF LastNameOf
<1>12. ASSUME NEW q \in Commands PROVE NewNameOf(q)' /\ LastNameOf(q)' /\ SparesOf(q)'
  BY <1>4, <1>5, <1>11 DEF NewNameOf, LastNameOf, SparesOf
<1> QED
  BY <1>6, <1>7, <1>12

LEMMA ExpireSaved ==
  ASSUME TypeOK, SavedInv, NEW p \in Commands, Expire(p),
         \A q \in Commands : Calm(q)
  PROVE  SavedInv'
<1>1. PICK n \in Names, gone \in SUBSET Names :
        /\ job[p] \in Expiring /\ n \in job[p].doomed /\ gone \subseteq {n}
        /\ tars' = [m \in Names |-> IF m \in gone THEN NoTar ELSE tars[m]]
        /\ UNCHANGED <<saved, regular>>
  BY ExpireSteps
<1>2. Listed(tars') \subseteq Listed(tars)
  BY <1>1 DEF Listed, NoTar
<1>3. ASSUME regular, saved # NoName PROVE tars'[saved].is = "whole"
  <2>1. saved \in Names /\ tars[saved].is = "whole"
    BY <1>3 DEF SavedInv, SavedWhole, TypeOK
  <2>2. saved \notin gone
    BY <1>1, <1>3 DEF SavedInv, SparesOf, Expiring
  <2> QED
    BY <1>1, <2>1, <2>2
<1> QED
  BY <1>1, <1>2, <1>3, CalmSaved

LEMMA DeleteSaved ==
  ASSUME TypeOK, SavedInv, Delete, \A q \in Commands : Calm(q)
  PROVE  SavedInv'
<1>1. PICK n \in Names :
        /\ tars' = [tars EXCEPT ![n] = NoTar]
        /\ saved' = IF saved = n THEN NoName ELSE saved
        /\ UNCHANGED regular
  BY DeleteSteps
<1>2. Listed(tars') \subseteq Listed(tars)
  BY <1>1 DEF Listed, NoTar, TypeOK
<1>3. ASSUME regular, saved' # NoName PROVE tars'[saved].is = "whole"
  <2>1. saved # n /\ saved \in Names /\ tars[saved].is = "whole"
    BY <1>1, <1>3 DEF SavedInv, SavedWhole, TypeOK
  <2> QED
    BY <1>1, <2>1 DEF TypeOK
<1> QED
  BY <1>1, <1>2, <1>3, CalmSaved

\* What is left changes no tarball's fate.
LEMMA PlainSaved ==
  ASSUME TypeOK, SavedInv, \A q \in Commands : Calm(q), UNCHANGED <<saved, regular>>,
         \A n \in Names : tars'[n].is = tars[n].is
  PROVE  SavedInv'
<1>1. Listed(tars') \subseteq Listed(tars)
  BY DEF Listed
<1>2. regular /\ saved' # NoName => tars'[saved].is = "whole"
  BY DEF SavedInv, SavedWhole, TypeOK
<1> QED
  BY <1>1, <1>2, CalmSaved

LEMMA CopyIs ==
  ASSUME TypeOK, NEW p \in Commands, Copy(p)
  PROVE  /\ \A n \in Names : tars'[n].is = tars[n].is /\ tars'[n].of = tars[n].of
         /\ \A n \in Names \ {job[p].name} : tars'[n] = tars[n]
<1> DEFINE f == job[p].head
<1> DEFINE m == job[p].name
<1>1. PICK c : \/ UNCHANGED tars
               \/ m # NoName /\ tars' = [tars EXCEPT ![m].holds[f] = c]
  BY CopySteps
<1>2. CASE m # NoName /\ tars' = [tars EXCEPT ![m].holds[f] = c]
  <2>1. m \in Names
    BY <1>2, CopySteps DEF Making
  <2>2. tars[m] \in Tarball
    BY <2>1 DEF TypeOK
  <2>3. tars'[m] = [tars[m] EXCEPT !.holds[f] = c]
    BY <1>2, <2>1 DEF TypeOK
  <2>4. tars'[m].is = tars[m].is /\ tars'[m].of = tars[m].of
    BY <2>2, <2>3 DEF Tarball
  <2>5. \A n \in Names \ {m} : tars'[n] = tars[n]
    BY <1>2 DEF TypeOK
  <2> QED
    BY <2>4, <2>5
<1> QED
  BY <1>1, <1>2

LEMMA SavedNext == ASSUME TypeOK, SavedInv, [Next]_vars PROVE SavedInv'
<1>1. ASSUME NEW p \in Commands,
             BackupStep(p) \/ ExtractStep(p) \/ ResetStep(p) \/ EraseStep(p),
             ~Create(p), ~Finish(p)
      PROVE  SavedInv'
  <2>1. \A q \in Commands : Calm(q)
    <3> SUFFICES ASSUME NEW q \in Commands PROVE Calm(q)
      OBVIOUS
    <3>1. CASE q = p
      BY <1>1, <3>1, CalmSelf
    <3>2. CASE q # p
      <4>1. q \in Commands \ {p}
        BY <3>2
      <4>2. Aside(q)
        BY <1>1, <4>1, Bystander
      <4> QED
        BY <4>2, CalmAside
    <3> QED
      BY <3>1, <3>2
  <2>2. CASE Expire(p)
    BY <2>1, <2>2, ExpireSaved
  <2>3. CASE BackupStep(p) /\ ~Expire(p)
    <3>1. UNCHANGED <<saved, regular>>
      BY <1>1, <2>3 DEF BackupStep, Header, Copy, CreateFails, Retain, Restore,
                        RestoreFails, Restored, backupVars, tarHistory
    <3>2. UNCHANGED tars \/ Copy(p)
      BY <1>1, <2>3 DEF BackupStep, Header, CreateFails, Retain, Restore,
                        RestoreFails, Restored, backupVars, tarVars
    <3>3. \A n \in Names : tars'[n].is = tars[n].is
      BY <3>2, CopyIs
    <3> QED
      BY <2>1, <3>1, <3>3, PlainSaved
  <2>4. CASE ExtractStep(p) \/ ResetStep(p) \/ EraseStep(p)
    <3>1. UNCHANGED <<tars, saved, regular>>
      BY <2>4 DEF ExtractStep, Extract, ResetStep, EraseStep, backupVars, tarVars,
                  tarHistory
    <3> QED
      BY <2>1, <3>1, PlainSaved
  <2> QED
    BY <1>1, <2>2, <2>3, <2>4
<1>2. ASSUME NEW p \in Commands, Create(p) \/ Finish(p) PROVE SavedInv'
  BY <1>2, CreateSaved, FinishSaved
<1>3. CASE Save \/ Delete \/ Schedule \/ UNCHANGED vars
  <2>1. \A q \in Commands : Calm(q)
    BY <1>3, Outsider, CalmAside
  <2>2. CASE Delete
    BY <2>1, <2>2, DeleteSaved
  <2>3. CASE Save \/ Schedule \/ UNCHANGED vars
    <3>1. UNCHANGED <<tars, saved, regular>>
      BY <2>3 DEF Save, Schedule, vars, backupVars, tarVars, tarHistory
    <3> QED
      BY <2>1, <3>1, PlainSaved
  <2> QED
    BY <1>3, <2>2, <2>3
<1>4. CASE Reboot /\ UNCHANGED <<backupVars, resetVars>>
  <2>1. \A q \in Commands : Calm(q)
    BY <1>4 DEF Reboot, Calm, NoJob
  <2>2. UNCHANGED <<tars, saved, regular>>
    BY <1>4 DEF backupVars, tarVars, tarHistory
  <2> QED
    BY <2>1, <2>2, PlainSaved
<1> QED
  BY <1>1, <1>2, <1>3, <1>4 DEF Next

\* As long as creations follow each other under names that sort in their order,
\* and none is reported complete whose end could not be written, the last backup
\* that was reported complete is on the disk, whole: no failed creation truncates
\* it, and no retention counts it out or removes it from a list it made before
\* others were deleted (backup.go:239-241, 426-432, 598-619).
THEOREM GoodBackupStays == Spec => []GoodBackupSurvives
<1>1. Init => TypeOK /\ SavedInv
  <2> SUFFICES ASSUME Init PROVE TypeOK /\ SavedInv
    OBVIOUS
  <2>1. saved = NoName /\ \A p \in Commands : job[p] = NoJob
    BY DEF Init, BackupInit, DirInit
  <2> QED
    BY <2>1, TypeInit
    DEF SavedInv, OneCreator, Creators, Working, SavedWhole, NewNameOf, LastNameOf,
        SparesOf, NoJob
<1>2. TypeOK /\ SavedInv /\ [Next]_vars => (TypeOK /\ SavedInv)'
  BY TypeNext, SavedNext
<1>3. SavedInv => GoodBackupSurvives
  BY DEF SavedInv, SavedWhole, GoodBackupSurvives
<1> QED
  BY <1>1, <1>2, <1>3, PTL DEF Spec

-----------------------------------------------------------------------------
(* What a backup holds and a restore brings back *)

\* Command q has the tarball it had, or none.
Holds(q) ==
  job'[q].cmd = "create" =>
    job[q].cmd = "create" /\ job'[q].name \in {job[q].name, NoName}

LEMMA HoldsAll ==
  ASSUME TypeOK, [Next]_vars, \A p \in Commands : ~Create(p)
  PROVE  \A q \in Commands : Holds(q)
<1> SUFFICES ASSUME NEW q \in Commands PROVE Holds(q)
  OBVIOUS
<1>1. ASSUME NEW p \in Commands,
             BackupStep(p) \/ ExtractStep(p) \/ ResetStep(p) \/ EraseStep(p)
      PROVE  Holds(q)
  <2>1. CASE q = p
    <3>1. CASE Finish(p)
      <4>1. Goes(p, [cmd |-> "retain"])
        BY <3>1, FinishSteps
      <4>2. job'[p] = [cmd |-> "retain"]
        BY <4>1 DEF Goes, TypeOK
      <4> QED
        BY <2>1, <4>2 DEF Holds
    <3>2. CASE ~Finish(p)
      BY <1>1, <2>1, <3>2, CalmSelf DEF Calm, Holds
    <3> QED
      BY <3>1, <3>2
  <2>2. CASE q # p
    <3>1. q \in Commands \ {p}
      BY <2>2
    <3>2. Aside(q)
      BY <1>1, <3>1, Bystander
    <3> QED
      BY <3>2, CalmAside DEF Calm, Holds
  <2> QED
    BY <2>1, <2>2
<1>2. CASE Save \/ Delete \/ Schedule \/ UNCHANGED vars
  BY <1>2, Outsider, CalmAside DEF Calm, Holds
<1>3. CASE Reboot
  BY <1>3 DEF Reboot, Holds, NoJob
<1> QED
  BY <1>1, <1>2, <1>3 DEF Next

\* Nobody takes the name of a tarball that one command alone is making.
LEMMA AloneKeeps ==
  ASSUME NEW q \in Commands, AloneOf(q), \A r \in Commands : Holds(r),
         job'[q].name = job[q].name, job[q].name # NoName
  PROVE  AloneOf(q)'
  BY DEF AloneOf, Holds

\* A creation beside which somebody else does something: as far as its tarball
\* is the same, or garbled, and its own.
LEMMA MakingAside ==
  ASSUME TypeOK, NEW q \in Commands, MakingOf(q), Aside(q),
         job'[q].cmd = "create" /\ job'[q].name # NoName =>
           \/ tars'[job'[q].name].is = "garbled"
           \/ tars'[job'[q].name] = tars[job'[q].name] /\ (AloneOf(q) => AloneOf(q)')
  PROVE  MakingOf(q)'
<1> SUFFICES ASSUME job'[q].cmd = "create", job'[q].name # NoName,
                    tars'[job'[q].name].is # "garbled"
             PROVE  /\ AloneOf(q)' /\ tars'[job'[q].name].of = Absent
                    /\ FilledOf(q)'
  BY DEF MakingOf
<1>1. job'[q] = job[q]
  <2>1. CASE job[q].cmd = "create" /\ job'[q] = [job[q] EXCEPT !.name = NoName]
    <3>1. job[q] \in Making
      BY <2>1, JobType
    <3>2. job'[q].name = NoName
      BY <2>1, <3>1 DEF Making
    <3> QED
      BY <3>2
  <2> QED
    BY <2>1 DEF Aside
<1>2. tars'[job[q].name] = tars[job[q].name] /\ (AloneOf(q) => AloneOf(q)')
  BY <1>1
<1>3. AloneOf(q) /\ tars[job[q].name].of = Absent /\ FilledOf(q)
  BY <1>1, <1>2 DEF MakingOf
<1>4. FilledOf(q)'
  <2>1. q \notin stirred' => q \notin stirred /\ file' = file
    BY <1>1 DEF Aside
  <2> QED
    BY <1>1, <1>2, <1>3, <2>1 DEF FilledOf
<1> QED
  BY <1>1, <1>2, <1>3, <1>4

\* The creation itself.
LEMMA CreateMakes ==
  ASSUME TypeOK, NEW p \in Commands, Create(p), NEW q \in Commands,
         \A r \in Commands : MakingOf(r), q # p => Aside(q)
  PROVE  MakingOf(q)'
<1>1. PICK second \in 1 .. MaxTime :
        LET n == <<host, second>>
            others == {r \in Creators : job[r].cmd = "create" /\ job[r].name = n} IN
        /\ Start(p, [cmd |-> "create", name |-> n, head |-> "none", size |-> 0,
                     of |-> file, rest |-> Walked])
        /\ tars' = [tars EXCEPT ![n] =
                      [is |-> IF others = {} THEN "partial" ELSE "garbled",
                       holds |-> Absent, of |-> Absent]]
  BY DEF Create
<1> DEFINE n == <<host, second>>
<1> DEFINE others == {r \in Creators : job[r].cmd = "create" /\ job[r].name = n}
<1> DEFINE j == [cmd |-> "create", name |-> n, head |-> "none", size |-> 0,
                 of |-> file, rest |-> Walked]
<1>2. n \in Names
  BY DEF TypeOK, Names
<1>3. /\ job' = [job EXCEPT ![p] = j] /\ file' = file
      /\ tars' = [tars EXCEPT ![n] =
                    [is |-> IF others = {} THEN "partial" ELSE "garbled",
                     holds |-> Absent, of |-> Absent]]
  BY <1>1 DEF Start
<1>4. job'[p] = j /\ \A r \in Commands \ {p} : job'[r] = job[r]
  BY <1>3 DEF TypeOK
<1>5. tars'[n].is = (IF others = {} THEN "partial" ELSE "garbled") /\ tars'[n].of = Absent
  BY <1>2, <1>3 DEF TypeOK
<1>6. \A r \in Commands \ {p} : job[r].cmd = "create" /\ job[r].name = n => r \in others
  BY DEF Creators, Working, NoJob
<1>7. CASE q = p
  <2> SUFFICES ASSUME tars'[n].is # "garbled" PROVE AloneOf(p)' /\ FilledOf(p)'
    BY <1>4, <1>5, <1>7 DEF MakingOf
  <2>1. others = {}
    BY <1>5
  <2>2. AloneOf(p)'
    BY <1>4, <1>6, <2>1 DEF AloneOf
  <2>3. \A f \in Files \ Walked : file[f] = "absent"
    BY DEF Walked
  <2>4. FilledOf(p)'
    BY <1>3, <1>4, <2>3, HeadAssumption DEF FilledOf
  <2> QED
    BY <2>2, <2>4
<1>8. CASE q # p
  <2>1. ASSUME job'[q].cmd = "create", job'[q].name # NoName
        PROVE  \/ tars'[job'[q].name].is = "garbled"
               \/ tars'[job'[q].name] = tars[job'[q].name] /\ (AloneOf(q) => AloneOf(q)')
    <3>1. job'[q] = job[q] /\ job[q].name \in Names
      <4>1. job'[q] = job[q]
        BY <1>4, <1>8
      <4>2. job[q] \in Making
        BY <2>1, <4>1, JobType
      <4> QED
        BY <2>1, <4>1, <4>2 DEF Making
    <3>2. CASE job[q].name = n
      <4>1. q \in others
        BY <1>6, <1>8, <2>1, <3>1, <3>2
      <4> QED
        BY <1>5, <3>1, <3>2, <4>1
    <3>3. CASE job[q].name # n
      <4>1. tars'[job[q].name] = tars[job[q].name]
        BY <1>3, <3>1, <3>3 DEF TypeOK
      <4>2. AloneOf(q) => AloneOf(q)'
        BY <1>4, <3>1, <3>3 DEF AloneOf
      <4> QED
        BY <3>1, <4>1, <4>2
    <3> QED
      BY <3>2, <3>3
  <2> QED
    BY <1>8, <2>1, MakingAside
<1> QED
  BY <1>7, <1>8

LEMMA HeaderMakes ==
  ASSUME TypeOK, NEW p \in Commands, MakingOf(p), Header(p),
         \A r \in Commands : Holds(r)
  PROVE  MakingOf(p)'
<1>1. /\ job[p] \in Making /\ job'[p] \in Making /\ job'[p].name = job[p].name
      /\ job[p].cmd = "create" /\ job[p].head = "none"
      /\ UNCHANGED <<file, tars, stirred>>
  BY MakingSelf DEF Header, Creating, backupVars, tarVars
<1> SUFFICES ASSUME job[p].name # NoName, tars[job[p].name].is # "garbled"
             PROVE  AloneOf(p)' /\ FilledOf(p)'
  BY <1>1 DEF MakingOf
<1>2. AloneOf(p)'
  BY <1>1, AloneKeeps DEF MakingOf
<1>3. PICK f \in job[p].rest :
        /\ f \in Files
        /\ Goes(p, Heads(p, f)) \/ Goes(p, Skips(p, f))
        /\ Heads(p, f).of = job[p].of /\ Heads(p, f).rest = job[p].rest \ {f}
        /\ Heads(p, f).head = f /\ Heads(p, f).size = Length(file[f])
        /\ Skips(p, f).of[f] = "absent"
        /\ \A g \in Files \ {f} : Skips(p, f).of[g] = job[p].of[g]
        /\ Skips(p, f).rest = job[p].rest \ {f} /\ Skips(p, f).head = "none"
  BY HeaderSteps
<1>4. job'[p] = Heads(p, f) \/ job'[p] = Skips(p, f)
  BY <1>3 DEF Goes, TypeOK
<1>5. FilledOf(p)'
  <2> SUFFICES ASSUME p \notin stirred
               PROVE  /\ \A g \in Files : job'[p].of[g] # "absent" =>
                                           file[g] = job'[p].of[g]
                      /\ job'[p].head \in Files =>
                           job'[p].size = Length(file[job'[p].head])
                      /\ \A g \in Files \ (job'[p].rest \cup {job'[p].head}) :
                           job'[p].of[g] # "absent" =>
                             tars[job[p].name].holds[g] = job'[p].of[g]
    BY <1>1 DEF FilledOf
  <2>1. /\ \A g \in Files : job[p].of[g] # "absent" => file[g] = job[p].of[g]
        /\ \A g \in Files \ (job[p].rest \cup {"none"}) :
             job[p].of[g] # "absent" =>
               tars[job[p].name].holds[g] = job[p].of[g]
    BY <1>1 DEF MakingOf, FilledOf
  <2>2. CASE job'[p] = Heads(p, f)
    BY <1>3, <2>1, <2>2, HeadAssumption
  <2>3. CASE job'[p] = Skips(p, f)
    BY <1>3, <2>1, <2>3, HeadAssumption
  <2> QED
    BY <1>4, <2>2, <2>3
<1> QED
  BY <1>2, <1>5

\* What has no length is empty or not there.
LEMMA NoLength ==
  ASSUME NEW c \in Content, Length(c) = 0 PROVE c \in {"absent", "empty"}
<1>1. CASE c \in Values
  BY <1>1, SizeAssumption DEF Length
<1>2. CASE c = "mixed"
  <2> DEFINE Longest(n) == \A v \in Values : Size[v] <= n
  <2>1. \E n \in {Size[v] : v \in Values} : Longest(n)
    BY LongestAssumption
  <2>2. (CHOOSE n \in {Size[v] : v \in Values} : Longest(n)) \in {Size[v] : v \in Values}
    BY <2>1
  <2>3. Length(c) = CHOOSE n \in {Size[v] : v \in Values} : Longest(n)
    BY <1>2, SizeAssumption DEF Length
  <2> QED
    BY <2>2, <2>3, SizeAssumption
<1> QED
  BY <1>1, <1>2 DEF Content

LEMMA CopyMakes ==
  ASSUME TypeOK, NEW p \in Commands, Copy(p), NEW q \in Commands, MakingOf(q),
         \A r \in Commands : Holds(r), q # p => Aside(q)
  PROVE  MakingOf(q)'
<1> DEFINE f == job[p].head
<1> DEFINE m == job[p].name
<1>1. /\ job[p] \in Making /\ job'[p] \in Making /\ job'[p].name = m
      /\ job'[p].of = job[p].of /\ job'[p].rest = job[p].rest
      /\ job[p].cmd = "create" /\ f \in Files
      /\ UNCHANGED <<file, stirred>>
  BY MakingSelf DEF Copy, Creating
<1>2. \A n \in Names : tars'[n].is = tars[n].is /\ tars'[n].of = tars[n].of
  BY CopyIs
<1>3. CASE q # p
  <2>1. ASSUME job'[q].cmd = "create", job'[q].name # NoName
        PROVE  \/ tars'[job'[q].name].is = "garbled"
               \/ tars'[job'[q].name] = tars[job'[q].name] /\ (AloneOf(q) => AloneOf(q)')
    <3>1. job[q].cmd = "create" /\ job'[q].name = job[q].name
      BY <2>1 DEF Holds
    <3>2. job[q].name \in Names
      BY <2>1, <3>1, JobType DEF Making
    <3>3. CASE job[q].name = m
      <4>1. ~AloneOf(q)
        BY <1>1, <1>3, <3>3 DEF AloneOf
      <4>2. tars[m].is = "garbled"
        BY <2>1, <3>1, <3>3, <4>1 DEF MakingOf
      <4> QED
        BY <1>2, <3>1, <3>2, <3>3, <4>2
    <3>4. CASE job[q].name # m
      <4>1. tars'[job[q].name] = tars[job[q].name]
        BY <3>2, <3>4, CopyIs
      <4>2. AloneOf(q) => AloneOf(q)'
        BY <2>1, <3>1, AloneKeeps
      <4> QED
        BY <3>1, <4>1, <4>2
    <3> QED
      BY <3>3, <3>4
  <2> QED
    BY <1>3, <2>1, MakingAside
<1>4. CASE q = p
  <2> SUFFICES ASSUME m # NoName, tars'[m].is # "garbled"
               PROVE  AloneOf(p)' /\ tars'[m].of = Absent /\ FilledOf(p)'
    BY <1>1, <1>4 DEF MakingOf
  <2>1. m \in Names /\ tars[m] \in Tarball
    BY <1>1 DEF Making, TypeOK
  <2>2. AloneOf(p) /\ tars[m].of = Absent /\ FilledOf(p)
    BY <1>1, <1>2, <1>4, <2>1 DEF MakingOf
  <2>3. AloneOf(p)' /\ tars'[m].of = Absent
    BY <1>1, <1>2, <2>1, <2>2, AloneKeeps
  <2>4. FilledOf(p)'
    <3> SUFFICES ASSUME p \notin stirred, job'[p].head # "cut"
                 PROVE  /\ \A g \in Files : job[p].of[g] # "absent" =>
                                             file[g] = job[p].of[g]
                        /\ job'[p].head \notin Files
                        /\ \A g \in Files \ (job[p].rest \cup {job'[p].head}) :
                             job[p].of[g] # "absent" =>
                               tars'[m].holds[g] = job[p].of[g]
      BY <1>1 DEF FilledOf
    <3>1. f # "cut" /\ f # "none" /\ "none" \notin Files
      BY <1>1, HeadAssumption
    <3>2. /\ \A g \in Files : job[p].of[g] # "absent" => file[g] = job[p].of[g]
          /\ job[p].size = Length(file[f])
          /\ \A g \in Files \ (job[p].rest \cup {f}) :
               job[p].of[g] # "absent" => tars[m].holds[g] = job[p].of[g]
      BY <1>1, <2>2, <3>1 DEF FilledOf
    <3>3. PICK read \in {file[f], "absent"} :
            /\ Length(read) = job[p].size
            /\ Goes(p, [job[p] EXCEPT !.head = "none"])
            /\ tars' = [tars EXCEPT ![m].holds[f] = Taken(read)]
      <4>1. ~Goes(p, [job[p] EXCEPT !.head = "cut"])
        <5>1. [job[p] EXCEPT !.head = "cut"].head = "cut"
          BY <1>1 DEF Making
        <5> QED
          BY <5>1 DEF Goes, TypeOK
      <4> QED
        BY <4>1, CopySteps
    <3>4. job'[p].head = "none"
      BY <1>1, <3>3 DEF Goes, TypeOK, Making
    <3>5. tars'[m].holds = [tars[m].holds EXCEPT ![f] = Taken(read)]
      BY <2>1, <3>3 DEF TypeOK, Tarball
    <3>6. tars[m].holds \in [Files -> Content]
      BY <2>1 DEF Tarball
    <3>7. \A g \in Files : g # f => tars'[m].holds[g] = tars[m].holds[g]
      BY <3>5, <3>6
    <3>8. file[f] # "absent" => tars'[m].holds[f] = file[f]
      <4>1. tars'[m].holds[f] = Taken(read)
        BY <1>1, <3>5, <3>6
      <4>2. CASE read = file[f]
        BY <4>1, <4>2 DEF Taken
      <4>3. CASE read = "absent" /\ file[f] # "absent"
        <5>1. Length(read) = 0
          BY <4>3, SizeAssumption DEF Length
        <5>2. Length(file[f]) = 0 /\ file[f] \in Content
          BY <1>1, <3>2, <3>3, <5>1 DEF TypeOK
        <5>3. file[f] = "empty"
          BY <4>3, <5>2, NoLength
        <5> QED
          BY <4>1, <4>3, <5>3 DEF Taken
      <4> QED
        BY <4>2, <4>3
    <3> QED
      BY <3>1, <3>2, <3>4, <3>7, <3>8
  <2> QED
    BY <2>3, <2>4
<1> QED
  BY <1>3, <1>4

LEMMA FinishMakes ==
  ASSUME TypeOK, NEW p \in Commands, Finish(p), NEW q \in Commands, MakingOf(q),
         \A r \in Commands : Holds(r), q # p => Aside(q)
  PROVE  MakingOf(q)'
<1>1. /\ job[p] \in Making /\ job[p].name \in Names
      /\ job'[p] = [cmd |-> "retain"]
  <2>1. /\ job[p] \in Making /\ job[p].name \in Names
        /\ Goes(p, [cmd |-> "retain"])
    BY FinishSteps
  <2> QED
    BY <2>1 DEF Goes, TypeOK
<1>2. CASE q = p
  BY <1>1, <1>2 DEF MakingOf
<1>4. PICK is \in {"garbled", "short", "whole", "partial"} :
        /\ Finished(p, is).is = is
        /\ is = Ends(p) \/ (is = "partial" /\ Ends(p) # "garbled")
        /\ tars' = [tars EXCEPT ![job[p].name] = Finished(p, is)]
  BY FinishSteps
<1>3. CASE q # p
  <2>1. ASSUME job'[q].cmd = "create", job'[q].name # NoName
        PROVE  \/ tars'[job'[q].name].is = "garbled"
               \/ tars'[job'[q].name] = tars[job'[q].name] /\ (AloneOf(q) => AloneOf(q)')
    <3>1. job[q].cmd = "create" /\ job'[q].name = job[q].name
      BY <2>1 DEF Holds
    <3>2. job[q].name \in Names
      BY <2>1, <3>1, JobType DEF Making
    <3>3. CASE job[q].name = job[p].name
      <4>1. ~AloneOf(q)
        BY <1>1, <1>3, <3>3 DEF AloneOf, Making
      <4>2. tars[job[p].name].is = "garbled"
        BY <2>1, <3>1, <3>3, <4>1 DEF MakingOf
      <4>3. Finished(p, is).is = "garbled"
        BY <1>4, <4>2 DEF Ends
      <4>4. tars'[job[p].name] = Finished(p, is)
        BY <1>1, <1>4 DEF TypeOK
      <4> QED
        BY <3>1, <3>3, <4>3, <4>4
    <3>4. CASE job[q].name # job[p].name
      <4>1. tars'[job[q].name] = tars[job[q].name]
        BY <1>4, <3>2, <3>4 DEF TypeOK
      <4>2. AloneOf(q) => AloneOf(q)'
        BY <2>1, <3>1, AloneKeeps
      <4> QED
        BY <3>1, <4>1, <4>2
    <3> QED
      BY <3>3, <3>4
  <2> QED
    BY <1>3, <2>1, MakingAside
<1> QED
  BY <1>2, <1>3

\* A tarball that goes takes its name from the creation that makes it.
LEMMA GoneMakes ==
  ASSUME TypeOK, NEW q \in Commands, MakingOf(q), Aside(q), NEW gone,
         \A r \in Commands : Holds(r),
         job'[q] = Nameless(gone)[q],
         \A n \in Names \ gone : tars'[n] = tars[n]
  PROVE  MakingOf(q)'
<1>1. ASSUME job'[q].cmd = "create", job'[q].name # NoName
      PROVE  tars'[job'[q].name] = tars[job'[q].name] /\ (AloneOf(q) => AloneOf(q)')
  <2>1. job[q].cmd = "create" /\ job'[q].name = job[q].name
    BY <1>1 DEF Holds
  <2>2. job[q] \in Making
    BY <2>1, JobType
  <2>3. job[q].name \notin gone
    <3>1. [job[q] EXCEPT !.name = NoName].name = NoName
      BY <2>2 DEF Making
    <3> QED
      BY <1>1, <2>1, <3>1 DEF Nameless
  <2>4. job[q].name \in Names
    BY <1>1, <2>1, <2>2 DEF Making
  <2> QED
    BY <1>1, <2>1, <2>3, <2>4, AloneKeeps
<1> QED
  BY <1>1, MakingAside

LEMMA MakingNext ==
  ASSUME TypeOK, \A r \in Commands : MakingOf(r), [Next]_vars, NEW q \in Commands
  PROVE  MakingOf(q)'
<1>1. ASSUME NEW p \in Commands, p # q,
             \/ Create(p) \/ BackupStep(p) \/ ExtractStep(p) \/ ResetStep(p)
             \/ EraseStep(p)
      PROVE  Aside(q)
  <2>1. q \in Commands \ {p}
    BY <1>1
  <2> QED
    BY <1>1, <2>1, Bystander
<1>2. ASSUME NEW p \in Commands, Create(p) PROVE MakingOf(q)'
  BY <1>1, <1>2, CreateMakes
<1>3. ASSUME \A p \in Commands : ~Create(p) PROVE MakingOf(q)'
  <2>1. \A r \in Commands : Holds(r)
    BY <1>3, HoldsAll
  <2>2. ASSUME Aside(q), UNCHANGED tars PROVE MakingOf(q)'
    <3>1. ASSUME job'[q].cmd = "create", job'[q].name # NoName
          PROVE  AloneOf(q) => AloneOf(q)'
      BY <2>1, <3>1, AloneKeeps DEF Holds
    <3> QED
      BY <2>2, <3>1, MakingAside
  <2>3. ASSUME NEW p \in Commands, BackupStep(p) PROVE MakingOf(q)'
    <3>1. CASE Header(p)
      <4>1. UNCHANGED tars
        BY <3>1 DEF Header, backupVars, tarVars
      <4> QED
        BY <1>1, <2>1, <2>2, <2>3, <3>1, <4>1, HeaderMakes
    <3>2. CASE Copy(p)
      BY <1>1, <2>1, <2>3, <3>2, CopyMakes
    <3>3. CASE Finish(p)
      BY <1>1, <2>1, <2>3, <3>3, FinishMakes
    <3>4. CASE Expire(p)
      <4>1. PICK n \in Names, gone \in SUBSET Names :
              /\ tars' = [m \in Names |-> IF m \in gone THEN NoTar ELSE tars[m]]
              /\ job' = [Nameless(gone) EXCEPT ![p] = NextJob(job[p].doomed \ {n})]
        BY <3>4, ExpireSteps
      <4>2. CASE q = p
        <5>1. job'[q] = NextJob(job[p].doomed \ {n})
          BY <4>1, <4>2, NamelessType
        <5> QED
          BY <5>1 DEF MakingOf, NextJob, NoJob
      <4>3. CASE q # p
        <5>1. job'[q] = Nameless(gone)[q]
          BY <4>1, <4>3, NamelessType
        <5>2. \A m \in Names \ gone : tars'[m] = tars[m]
          BY <4>1
        <5> QED
          BY <1>1, <2>1, <2>3, <4>3, <5>1, <5>2, GoneMakes
      <4> QED
        BY <4>2, <4>3
    <3>5. CASE \/ CreateFails(p) \/ Retain(p) \/ Restore(p) \/ RestoreFails(p)
               \/ Restored(p)
      <4>1. UNCHANGED tars
        BY <3>5 DEF CreateFails, Retain, Restore, RestoreFails, Restored, backupVars,
                    tarVars
      <4>2. CASE q = p
        <5>1. job'[q].cmd # "create"
          BY <2>3, <3>5, <4>2, SelfCmd
        <5> QED
          BY <5>1 DEF MakingOf
      <4> QED
        BY <1>1, <2>2, <2>3, <4>1, <4>2
    <3> QED
      BY <1>3, <2>3, <3>1, <3>2, <3>3, <3>4, <3>5 DEF BackupStep
  <2>4. ASSUME NEW p \in Commands, ExtractStep(p) \/ ResetStep(p) \/ EraseStep(p)
        PROVE  MakingOf(q)'
    <3>1. UNCHANGED tars
      BY <2>4 DEF ExtractStep, Extract, ResetStep, EraseStep, backupVars, tarVars
    <3>2. CASE q = p
      <4>1. job[q].cmd # "create"
        <5>1. ExtractStep(p) => job[p].cmd = "restore"
          BY DEF ExtractStep, Extract, Restoring
        <5>2. EraseStep(p) \/ Mark(p) => job[p].cmd = "reset"
          BY DEF EraseStep, Erase, Mark
        <5>3. Reset(p) => job[p] = NoJob
          BY DEF Reset, Start
        <5> QED
          BY <2>4, <3>2, <5>1, <5>2, <5>3 DEF ResetStep, NoJob
      <4>2. job'[q].cmd # "create"
        BY <2>1, <4>1 DEF Holds
      <4> QED
        BY <4>2 DEF MakingOf
    <3> QED
      BY <1>1, <2>2, <2>4, <3>1, <3>2
  <2>5. CASE Delete
    <3>1. PICK n \in Names :
            tars' = [tars EXCEPT ![n] = NoTar] /\ job' = Nameless({n})
      BY <2>5, DeleteSteps
    <3>2. \A m \in Names \ {n} : tars'[m] = tars[m]
      BY <3>1 DEF TypeOK
    <3>3. Aside(q)
      BY <2>5, Outsider
    <3> QED
      BY <2>1, <3>1, <3>2, <3>3, GoneMakes
  <2>6. CASE Save \/ Schedule \/ UNCHANGED vars
    <3>1. UNCHANGED tars
      BY <2>6 DEF Save, Schedule, vars, backupVars, tarVars
    <3> QED
      BY <2>2, <2>6, <3>1, Outsider
  <2>7. CASE Reboot
    BY <2>7 DEF Reboot, MakingOf, NoJob
  <2> QED
    BY <2>3, <2>4, <2>5, <2>6, <2>7 DEF Next
<1> QED
  BY <1>2, <1>3

\* A restore beside which somebody else does something.
LEMMA RestoringAside ==
  ASSUME TypeOK, NEW q \in Commands, RestoringOf(q), Aside(q) PROVE RestoringOf(q)'
<1> SUFFICES ASSUME job'[q].cmd = "restore" PROVE RestoringOf(q)'
  BY DEF RestoringOf
<1>1. job'[q] = job[q]
  <2>1. CASE job[q].cmd = "create" /\ job'[q] = [job[q] EXCEPT !.name = NoName]
    <3>1. job[q] \in Making
      BY <2>1, JobType
    <3>2. job'[q].cmd = "create"
      BY <2>1, <3>1 DEF Making
    <3> QED
      BY <3>2
  <2> QED
    BY <2>1 DEF Aside
<1>2. q \notin stirred' => q \notin stirred /\ file' = file
  BY <1>1 DEF Aside
<1> QED
  BY <1>1, <1>2 DEF RestoringOf, Faithful

\* No contents are longer than those that are the end of a longer one.
LEMMA MixedLength ==
  ASSUME NEW c \in Content PROVE Length(c) <= Length("mixed")
<1> DEFINE Longest(n) == \A v \in Values : Size[v] <= n
<1>1. \E n \in {Size[v] : v \in Values} : Longest(n)
  BY LongestAssumption
<1>2. Longest(CHOOSE n \in {Size[v] : v \in Values} : Longest(n))
  <2> HIDE DEF Longest
  <2> QED
    BY <1>1
<1>3. Length("mixed") = CHOOSE n \in {Size[v] : v \in Values} : Longest(n)
  BY SizeAssumption DEF Length
<1>4. Longest(Length("mixed")) /\ Length("mixed") \in Nat
  BY <1>2, <1>3, LengthType
<1>5. CASE c \in Values
  BY <1>4, <1>5 DEF Length
<1>6. CASE c \notin Values
  BY <1>4, <1>6 DEF Content, Length
<1> QED
  BY <1>5, <1>6

\* What a file becomes: what the tarball holds, unless it was longer.
LEMMA OverGives ==
  ASSUME NEW old \in Content, NEW new \in Content
  PROVE  Over(old, new) = new <=> ~(Length(old) > Length(new))
<1>1. Length(old) \in Nat /\ Length(new) \in Nat
  BY LengthType
<1>2. CASE Length(new) >= Length(old)
  BY <1>1, <1>2 DEF Over
<1>3. CASE ~(Length(new) >= Length(old)) /\ Length(new) = 0
  BY <1>1, <1>3 DEF Over
<1>4. CASE ~(Length(new) >= Length(old)) /\ Length(new) # 0
  <2>1. Length(old) <= Length("mixed") /\ Length("mixed") \in Nat
    BY MixedLength, LengthType
  <2>2. new # "mixed"
    BY <1>1, <1>4, <2>1
  <2> QED
    BY <1>1, <1>4, <2>2 DEF Over
<1> QED
  BY <1>2, <1>3, <1>4

\* The restore itself.
LEMMA RestoringSelf ==
  ASSUME TypeOK, TarsInv, NEW p \in Commands, RestoringOf(p),
         BackupStep(p) \/ ExtractStep(p) \/ ResetStep(p) \/ EraseStep(p)
  PROVE  RestoringOf(p)'
<1>1. CASE Restore(p)
  <2>1. PICK dir \in {tars, usb}, n \in Names :
          dir[n] \in Tarball /\ Start(p, RestoreOf(dir, n))
    BY <1>1, RestoreStarts
  <2>2. job'[p] = RestoreOf(dir, n) /\ file' = file
    BY <2>1 DEF Start, TypeOK
  <2>3. Faithful(dir[n])
    BY <2>1 DEF TarsInv
  <2>4. /\ job'[p].tar = dir[n]
        /\ job'[p].rest = {f \in Files : dir[n].holds[f] # "absent"}
        /\ job'[p].tailed = {}
    BY <2>2 DEF RestoreOf
  <2>5. \A f \in Files \ job'[p].rest : dir[n].holds[f] = "absent"
    BY <2>4
  <2> QED
    BY <2>3, <2>4, <2>5 DEF RestoringOf, Faithful
<1>2. CASE ExtractStep(p)
  <2>1. PICK f \in job[p].rest :
          /\ job[p] \in RestoreJob /\ f \in Files
          /\ Put(f, Over(file[f], job[p].tar.holds[f]), {p})
          /\ Goes(p, Writes(p, f))
          /\ Writes(p, f).tar = job[p].tar /\ Writes(p, f).rest = job[p].rest \ {f}
          /\ Writes(p, f).tailed =
               IF Length(file[f]) > Length(job[p].tar.holds[f])
               THEN job[p].tailed \cup {f} ELSE job[p].tailed
    BY <1>2, ExtractSteps DEF ExtractStep
  <2>2. job'[p] = Writes(p, f)
    BY <2>1 DEF Goes, TypeOK
  <2>3. p \in stirred => p \in stirred'
    BY <2>1 DEF Put
  <2>4. /\ \A g \in Files \ {f} : file'[g] = file[g]
        /\ file'[f] = Over(file[f], job[p].tar.holds[f])
    BY <2>1 DEF Put, TypeOK
  <2>5. /\ Faithful(job[p].tar) /\ job[p].tailed \cap job[p].rest = {}
        /\ p \notin stirred =>
             \A g \in Files \ job[p].rest :
               job[p].tar.holds[g] # "absent" =>
                 (file[g] = job[p].tar.holds[g] <=> g \notin job[p].tailed)
    BY <2>1 DEF RestoringOf, RestoreJob
  <2>6. file[f] \in Content /\ job[p].tar.holds[f] \in Content
    BY <2>1 DEF TypeOK, RestoreJob, Tarball
  <2>7. file'[f] = job[p].tar.holds[f] <=> f \notin job'[p].tailed
    <3>1. PICK old \in Content, new \in Content :
            old = file[f] /\ new = job[p].tar.holds[f]
      BY <2>6
    <3>2. Over(old, new) = new <=> ~(Length(old) > Length(new))
      BY OverGives
    <3>3. f \notin job[p].tailed
      BY <2>5
    <3> QED
      BY <2>1, <2>2, <2>4, <3>1, <3>2, <3>3
  <2>8. ASSUME p \notin stirred', NEW g \in Files \ job'[p].rest,
               job[p].tar.holds[g] # "absent"
        PROVE  file'[g] = job[p].tar.holds[g] <=> g \notin job'[p].tailed
    <3>1. CASE g = f
      BY <2>7, <3>1
    <3>2. CASE g # f
      <4>1. g \in Files \ job[p].rest /\ file'[g] = file[g]
        BY <2>1, <2>2, <2>4, <2>8, <3>2
      <4>2. g \in job'[p].tailed <=> g \in job[p].tailed
        BY <2>1, <2>2, <3>2
      <4> QED
        BY <2>3, <2>5, <2>8, <4>1, <4>2
    <3> QED
      BY <3>1, <3>2
  <2>9. job'[p].tar = job[p].tar /\ job'[p].tailed \cap job'[p].rest = {}
    BY <2>1, <2>2, <2>5
  <2> QED
    BY <2>5, <2>8, <2>9 DEF RestoringOf, Faithful
<1>3. CASE BackupStep(p) /\ ~Restore(p)
  <2>1. job'[p].cmd # "restore"
    BY <1>3, SelfCmd DEF BackupStep
  <2> QED
    BY <2>1 DEF RestoringOf
<1>4. CASE ResetStep(p) \/ EraseStep(p)
  <2>1. job'[p].cmd # "restore"
    BY <1>4, ResetCmd
  <2> QED
    BY <2>1 DEF RestoringOf
<1> QED
  BY <1>1, <1>2, <1>3, <1>4

LEMMA RestoringNext ==
  ASSUME TypeOK, TarsInv, NEW q \in Commands, RestoringOf(q), [Next]_vars
  PROVE  RestoringOf(q)'
<1>1. ASSUME NEW p \in Commands,
             BackupStep(p) \/ ExtractStep(p) \/ ResetStep(p) \/ EraseStep(p)
      PROVE  RestoringOf(q)'
  <2>1. CASE p = q
    BY <1>1, <2>1, RestoringSelf
  <2>2. CASE p # q
    <3>1. q \in Commands \ {p}
      BY <2>2
    <3> QED
      BY <1>1, <3>1, Bystander, RestoringAside
  <2> QED
    BY <2>1, <2>2
<1>2. CASE Save \/ Delete \/ Schedule \/ UNCHANGED vars
  BY <1>2, Outsider, RestoringAside
<1>3. CASE Reboot
  BY <1>3 DEF Reboot, RestoringOf, NoJob
<1> QED
  BY <1>1, <1>2, <1>3 DEF Next

\* Every tarball stays faithful: only Finish makes one whole, and one in which
\* somebody still copies has no `of` to be compared with.
LEMMA TarsNext ==
  ASSUME TypeOK, TarsInv, \A p \in Commands : MakingOf(p), [Next]_vars
  PROVE  TarsInv'
<1>1. ASSUME UNCHANGED <<tars, usb>> PROVE TarsInv'
  BY <1>1 DEF TarsInv
<1>2. Faithful(NoTar)
  BY DEF Faithful, NoTar
<1>3. ASSUME UNCHANGED usb, NEW n \in Names, NEW t, tars' = [tars EXCEPT ![n] = t],
             Faithful(t)
      PROVE  TarsInv'
  <2>1. \A m \in Names : tars'[m] = IF m = n THEN t ELSE tars[m]
    BY <1>3 DEF TypeOK
  <2>2. \A m \in Names : Faithful(tars'[m])
    BY <1>3, <2>1 DEF TarsInv
  <2> QED
    BY <1>3, <2>2 DEF TarsInv
<1>4. ASSUME NEW p \in Commands, BackupStep(p) PROVE TarsInv'
  <2>1. CASE Create(p)
    <3>1. PICK second \in 1 .. MaxTime, x \in {"partial", "garbled"} :
            /\ tars' = [tars EXCEPT ![<<host, second>>] =
                          [is |-> x, holds |-> Absent, of |-> Absent]]
            /\ UNCHANGED usb
      BY <2>1 DEF Create
    <3>2. <<host, second>> \in Names
      BY DEF TypeOK, Names
    <3>3. Faithful([is |-> x, holds |-> Absent, of |-> Absent])
      BY <3>1 DEF Faithful
    <3> QED
      BY <1>3, <3>1, <3>2, <3>3
  <2>2. CASE Copy(p)
    <3>1. usb' = usb
      BY <2>2 DEF Copy
    <3>2. \A n \in Names \ {job[p].name} : Faithful(tars'[n])
      BY <2>2, CopyIs DEF TarsInv
    <3>3. job[p].name \in Names => Faithful(tars'[job[p].name])
      <4> SUFFICES ASSUME job[p].name \in Names PROVE Faithful(tars'[job[p].name])
        OBVIOUS
      <4>1. job[p].cmd = "create" /\ job[p].name # NoName
        BY <2>2, NoNameType DEF Copy, Creating
      <4>2. \/ tars[job[p].name].is = "garbled"
            \/ tars[job[p].name].of = Absent
        BY <4>1 DEF MakingOf
      <4> QED
        BY <2>2, <4>2, CopyIs DEF Faithful, Absent
    <3>4. \A n \in Names : Faithful(tars'[n])
      BY <3>2, <3>3
    <3> QED
      BY <3>1, <3>4 DEF TarsInv
  <2>3. CASE Finish(p)
    <3> DEFINE n == job[p].name
    <3>1. /\ job[p] \in Making /\ n \in Names /\ tars[n] \in Tarball
          /\ job[p].head \notin Files /\ job[p].rest = {} /\ job[p].cmd = "create"
      BY <2>3, FinishSteps DEF TypeOK, Making
    <3>5. PICK is \in {"garbled", "short", "whole", "partial"} :
            /\ Finished(p, is) \in Tarball /\ Finished(p, is).is = is
            /\ is = Ends(p) \/ (is = "partial" /\ Ends(p) # "garbled")
            /\ tars' = [tars EXCEPT ![n] = Finished(p, is)]
            /\ \/ UNCHANGED usb
               \/ usb' = [usb EXCEPT ![n] = Finished(p, is)]
               \/ usb' = [usb EXCEPT ![n] = [Finished(p, is) EXCEPT !.is = "partial"]]
      BY <2>3, FinishSteps
    <3>2. Faithful(Finished(p, is))
      <4> SUFFICES ASSUME is = "whole", NEW f \in Files
                   PROVE  \/ Finished(p, is).of[f] = "absent"
                          \/ Finished(p, is).holds[f] = Finished(p, is).of[f]
        BY <3>5 DEF Faithful
      <4>1. tars[n].is # "garbled" /\ job[p].head # "cut"
        BY <3>5 DEF Ends
      <4>2. /\ Finished(p, is).of = IF p \in stirred THEN tars[n].of ELSE job[p].of
            /\ Finished(p, is).holds = tars[n].holds
        BY <3>1 DEF Finished, Tarball
      <4>3. tars[n].of = Absent /\ FilledOf(p)
        BY <3>1, <4>1, NoNameType DEF MakingOf
      <4>4. CASE p \in stirred
        BY <4>2, <4>3, <4>4 DEF Absent
      <4>5. CASE p \notin stirred
        <5>1. f \in Files \ (job[p].rest \cup {job[p].head})
          BY <3>1
        <5> QED
          BY <4>1, <4>2, <4>3, <4>5, <5>1 DEF FilledOf
      <4> QED
        BY <4>4, <4>5
    <3>3. \A m \in Names : Faithful(tars'[m])
      <4>1. \A m \in Names : tars'[m] = IF m = n THEN Finished(p, is) ELSE tars[m]
        BY <3>5 DEF TypeOK
      <4> QED
        BY <3>2, <4>1 DEF TarsInv
    <3>4. \A m \in Names : Faithful(usb'[m])
      <4>1. PICK t \in {Finished(p, is), [Finished(p, is) EXCEPT !.is = "partial"]} :
              usb' = usb \/ usb' = [usb EXCEPT ![n] = t]
        BY <3>5
      <4>2. [Finished(p, is) EXCEPT !.is = "partial"].is = "partial"
        BY <3>5 DEF Tarball
      <4>3. Faithful(t)
        <5>1. CASE t = Finished(p, is)
          BY <3>2, <5>1
        <5>2. CASE t = [Finished(p, is) EXCEPT !.is = "partial"]
          <6>1. t.is # "whole"
            BY <4>2, <5>2
          <6> QED
            BY <6>1 DEF Faithful
        <5> QED
          BY <5>1, <5>2
      <4>4. \A m \in Names : usb'[m] = usb[m] \/ usb'[m] = t
        BY <4>1 DEF TypeOK
      <4> QED
        BY <4>3, <4>4 DEF TarsInv
    <3> QED
      BY <3>3, <3>4 DEF TarsInv
  <2>4. CASE Expire(p)
    <3>1. PICK gone \in SUBSET Names :
            /\ tars' = [n \in Names |-> IF n \in gone THEN NoTar ELSE tars[n]]
            /\ UNCHANGED usb
      BY <2>4, ExpireSteps
    <3>2. \A n \in Names : Faithful(tars'[n])
      BY <1>2, <3>1 DEF TarsInv
    <3> QED
      BY <3>1, <3>2 DEF TarsInv
  <2>5. CASE \/ Header(p) \/ CreateFails(p) \/ Retain(p) \/ Restore(p)
             \/ RestoreFails(p) \/ Restored(p)
    <3>1. UNCHANGED <<tars, usb>>
      BY <2>5 DEF Header, CreateFails, Retain, Restore, RestoreFails, Restored,
                  backupVars, tarVars
    <3> QED
      BY <1>1, <3>1
  <2> QED
    BY <1>4, <2>1, <2>2, <2>3, <2>4, <2>5 DEF BackupStep
<1>5. ASSUME NEW p \in Commands, ExtractStep(p) \/ ResetStep(p) \/ EraseStep(p)
      PROVE  TarsInv'
  <2>1. UNCHANGED <<tars, usb>>
    BY <1>5 DEF ExtractStep, Extract, ResetStep, EraseStep, backupVars, tarVars
  <2> QED
    BY <1>1, <2>1
<1>6. CASE Delete
  <2>1. PICK n \in Names : tars' = [tars EXCEPT ![n] = NoTar] /\ UNCHANGED usb
    BY <1>6, DeleteSteps
  <2> QED
    BY <1>2, <1>3, <2>1
<1>7. CASE Schedule \/ Save \/ UNCHANGED vars \/ UNCHANGED backupVars
  <2>1. UNCHANGED <<tars, usb>>
    BY <1>7 DEF Schedule, Save, vars, backupVars, tarVars
  <2> QED
    BY <1>1, <2>1
<1> QED
  BY <1>4, <1>5, <1>6, <1>7 DEF Next

\* What a restore brought back stays until somebody writes, or its tarball goes.
LEMMA RoundNext ==
  ASSUME TypeOK, RoundTrip, \A p \in Commands : RestoringOf(p), [Next]_vars
  PROVE  RoundTrip'
<1>1. ASSUME restored' = NoName PROVE RoundTrip'
  BY <1>1 DEF RoundTrip
<1>2. ASSUME restored' = restored, tailed' = tailed, file' = file,
             restored # NoName => tars'[restored].of = tars[restored].of
      PROVE  RoundTrip'
  BY <1>2 DEF RoundTrip
<1>3. restored # NoName => restored \in Names
  BY DEF TypeOK
<1>10. ASSUME NEW n, NEW t, Replaced(n), tars' = [tars EXCEPT ![n] = t], file' = file
       PROVE  RoundTrip'
  <2>1. CASE restored = n
    BY <1>1, <1>10, <2>1 DEF Replaced, Unrestored
  <2>2. CASE restored # n
    <3>1. restored # NoName => tars'[restored] = tars[restored]
      BY <1>3, <1>10, <2>2 DEF TypeOK
    <3> QED
      BY <1>2, <1>10, <2>2, <3>1 DEF Replaced
  <2> QED
    BY <2>1, <2>2
<1>4. ASSUME NEW p \in Commands, BackupStep(p) PROVE RoundTrip'
  <2>1. CASE Create(p)
    <3>1. PICK second \in 1 .. MaxTime :
            /\ \E t : tars' = [tars EXCEPT ![<<host, second>>] = t]
            /\ Replaced(<<host, second>>)
      BY <2>1 DEF Create
    <3>2. file' = file
      <4>1. PICK s \in 1 .. MaxTime :
              Start(p, [cmd |-> "create", name |-> <<host, s>>, head |-> "none",
                        size |-> 0, of |-> file, rest |-> Walked])
        BY <2>1 DEF Create
      <4> QED
        BY <4>1 DEF Start
    <3> QED
      BY <1>10, <3>1, <3>2
  <2>2. CASE Copy(p)
    BY <1>2, <1>3, <2>2, CopyIs DEF Copy, tarHistory
  <2>3. CASE Finish(p)
    <3>1. /\ \E is : tars' = [tars EXCEPT ![job[p].name] = Finished(p, is)]
          /\ Replaced(job[p].name) /\ file' = file
      BY <2>3, FinishSteps
    <3> QED
      BY <1>10, <3>1
  <2>4. CASE Expire(p)
    <3>1. PICK gone \in SUBSET Names :
            /\ tars' = [n \in Names |-> IF n \in gone THEN NoTar ELSE tars[n]]
            /\ IF restored \in gone THEN Unrestored ELSE UNCHANGED <<restored, tailed>>
            /\ file' = file
      BY <2>4, ExpireSteps
    <3>2. CASE restored \in gone
      BY <1>1, <3>1, <3>2 DEF Unrestored
    <3>3. CASE restored \notin gone
      BY <1>2, <1>3, <3>1, <3>3
    <3> QED
      BY <3>2, <3>3
  <2>5. CASE \/ Header(p) \/ CreateFails(p) \/ Retain(p) \/ Restore(p)
             \/ RestoreFails(p)
    <3>1. UNCHANGED <<tars, restored, tailed>>
      BY <2>5 DEF Header, CreateFails, Retain, Restore, RestoreFails, backupVars,
                  tarVars, tarHistory
    <3>2. file' = file
      <4>1. Restore(p) => file' = file
        BY RestoreStarts DEF Start
      <4> QED
        BY <2>5, <4>1 DEF Header, CreateFails, Retain, RestoreFails
    <3> QED
      BY <1>2, <3>1, <3>2
  <2>6. CASE Restored(p)
    <3>1. /\ job[p].cmd = "restore" /\ job[p].rest = {} /\ job[p].tar.is = "whole"
          /\ file' = file /\ tars' = tars
          /\ IF p \notin stirred /\ tars[job[p].name] = job[p].tar
             THEN restored' = job[p].name /\ tailed' = job[p].tailed
             ELSE Unrestored
      BY <2>6 DEF Restored, Restoring, tarVars
    <3>2. CASE p \notin stirred /\ tars[job[p].name] = job[p].tar
      <4>1. ASSUME NEW f \in Files, job[p].tar.of[f] # "absent"
            PROVE  file[f] = job[p].tar.of[f] <=> f \notin job[p].tailed
        <5>1. job[p].tar.holds[f] = job[p].tar.of[f]
          BY <3>1, <4>1 DEF RestoringOf, Faithful
        <5>2. file[f] = job[p].tar.holds[f] <=> f \notin job[p].tailed
          BY <3>1, <3>2, <4>1, <5>1 DEF RestoringOf
        <5> QED
          BY <5>1, <5>2
      <4> QED
        BY <3>1, <3>2, <4>1 DEF RoundTrip
    <3>3. CASE ~(p \notin stirred /\ tars[job[p].name] = job[p].tar)
      BY <1>1, <3>1, <3>3 DEF Unrestored
    <3> QED
      BY <3>2, <3>3
  <2> QED
    BY <1>4, <2>1, <2>2, <2>3, <2>4, <2>5, <2>6 DEF BackupStep
<1>5. ASSUME NEW p \in Commands, ExtractStep(p) \/ EraseStep(p) PROVE RoundTrip'
  BY <1>1, <1>5 DEF ExtractStep, Extract, EraseStep, Unrestored
<1>6. ASSUME NEW p \in Commands, ResetStep(p) PROVE RoundTrip'
  <2>1. UNCHANGED <<tars, restored, tailed>>
    BY <1>6 DEF ResetStep, backupVars, tarVars, tarHistory
  <2>2. file' = file
    BY <1>6 DEF ResetStep, Reset, Mark, Start
  <2> QED
    BY <1>2, <2>1, <2>2
<1>7. CASE Delete
  <2>1. PICK n \in Names :
          /\ tars' = [tars EXCEPT ![n] = NoTar]
          /\ Replaced(n) /\ file' = file
    BY <1>7, DeleteSteps
  <2> QED
    BY <1>10, <2>1
<1>8. CASE Save
  BY <1>1, <1>8 DEF Save, Unrestored
<1>9. CASE Schedule \/ UNCHANGED vars \/ (Reboot /\ UNCHANGED <<backupVars, resetVars>>)
  <2>1. UNCHANGED <<tars, restored, tailed, file>>
    BY <1>9 DEF Schedule, Reboot, vars, dirVars, backupVars, tarVars, tarHistory
  <2> QED
    BY <1>2, <2>1
<1> QED
  BY <1>4, <1>5, <1>6, <1>7, <1>8, <1>9 DEF Next

\* A restore that ends well, of a backup and onto files that nobody wrote beside,
\* brings every file that the backup did not skip back to what it was when the
\* backup was begun, but for exactly those that were longer when they were written
\* over (backup.go:421-526): whichever commands went on, failed or were killed.
THEOREM RoundTrips == Spec => []RoundTrip
<1> DEFINE Inv == TypeOK /\ CopiesInv /\ RoundTrip
<1>1. Init => Inv
  <2> SUFFICES ASSUME Init PROVE Inv
    OBVIOUS
  <2>1. /\ restored = NoName /\ \A p \in Commands : job[p] = NoJob
        /\ \A n \in Names : tars[n] = NoTar /\ usb[n] = NoTar
    BY DEF Init, BackupInit, DirInit
  <2>2. Faithful(NoTar)
    BY DEF Faithful, NoTar
  <2> QED
    BY <2>1, <2>2, TypeInit DEF CopiesInv, TarsInv, MakingOf, RestoringOf, RoundTrip, NoJob
<1>2. Inv /\ [Next]_vars => Inv'
  BY TypeNext, TarsNext, MakingNext, RestoringNext, RoundNext DEF CopiesInv
<1>3. Inv => RoundTrip
  OBVIOUS
<1> QED
  BY <1>1, <1>2, <1>3, PTL DEF Spec

-----------------------------------------------------------------------------
(* The refinement of BackupStore *)

\* Among numbers there is a least one.
LEMMA Least ==
  ASSUME NEW T \in SUBSET Nat, T # {} PROVE \E x \in T : \A y \in T : x <= y
<1>1. PICK x \in T : \A y \in T : ~ (<<y, x>> \in OpToRel(<, Nat))
  BY NatLessThanWellFounded, WFMin
<1>2. \A y \in T : ~(y < x)
  BY <1>1 DEF OpToRel
<1> QED
  BY <1>2

LEMMA Greatest ==
  ASSUME NEW b \in Nat, NEW T \in SUBSET (1 .. b), T # {}
  PROVE  \E x \in T : \A y \in T : y <= x
<1> DEFINE D == {b - t : t \in T}
<1>1. D \in SUBSET Nat /\ D # {}
  <2>1. \A t \in T : b - t \in Nat
    OBVIOUS
  <2> QED
    BY <2>1
<1>2. PICK d \in D : \A e \in D : d <= e
  <2> HIDE DEF D
  <2> QED
    BY <1>1, Least
<1>3. PICK x \in T : d = b - x
  BY <1>2
<1>4. ASSUME NEW y \in T PROVE y <= x
  <2>1. b - y \in D
    OBVIOUS
  <2>2. d <= b - y
    BY <1>2, <2>1
  <2> QED
    BY <1>3, <2>2
<1> QED
  BY <1>3, <1>4

\* Of some names there is one that all others sort before.
LEMMA Latest ==
  ASSUME NEW S \in SUBSET Names, S # {}
  PROVE  \E n \in S : \A m \in S : m # n => Before(m, n)
<1> DEFINE H == {n[1] : n \in S}
<1>1. H \in SUBSET (1 .. MaxHost) /\ H # {}
  BY DEF Names
<1>2. PICK h \in H : \A g \in H : g <= h
  <2> HIDE DEF H
  <2> QED
    BY <1>1, Greatest, BoundsAssumption
<1> DEFINE T == {t \in 1 .. MaxTime : <<h, t>> \in S}
<1>3. T \in SUBSET (1 .. MaxTime) /\ T # {}
  <2>1. PICK n \in S : n[1] = h
    BY <1>2
  <2>2. n[2] \in 1 .. MaxTime /\ n = <<h, n[2]>>
    BY <2>1 DEF Names
  <2> QED
    BY <2>2
<1>4. PICK t \in T : \A s \in T : s <= t
  <2> HIDE DEF T
  <2> QED
    BY <1>3, Greatest, BoundsAssumption
<1>5. ASSUME NEW m \in S, m # <<h, t>> PROVE Before(m, <<h, t>>)
  <2>1. m[1] \in 1 .. MaxHost /\ m[2] \in 1 .. MaxTime /\ m = <<m[1], m[2]>>
    BY DEF Names
  <2>2. m[1] \in H
    OBVIOUS
  <2>3. m[1] <= h /\ h \in 1 .. MaxHost
    BY <1>1, <1>2, <2>2
  <2>4. CASE m[1] < h
    BY <2>4 DEF Before
  <2>5. CASE m[1] = h
    <3>1. m[2] \in T /\ m[2] # t
      BY <1>5, <2>1, <2>5
    <3>2. m[2] <= t /\ t \in 1 .. MaxTime
      BY <1>3, <1>4, <3>1
    <3>3. m[2] < t
      BY <2>1, <3>1, <3>2
    <3> QED
      BY <2>5, <3>3 DEF Before
  <2> QED
    BY <2>1, <2>3, <2>4, <2>5
<1>6. <<h, t>> \in S
  BY <1>4
<1> QED
  BY <1>5, <1>6

LEMMA BeforeTransitive ==
  ASSUME NEW l \in Names, NEW m \in Names, NEW n \in Names,
         Before(l, m), Before(m, n)
  PROVE  Before(l, n)
<1>1. /\ l[1] \in Nat /\ l[2] \in Nat /\ m[1] \in Nat /\ m[2] \in Nat
      /\ n[1] \in Nat /\ n[2] \in Nat
  BY DEF Names
<1> QED
  BY <1>1 DEF Before

\* There are finitely many names.
LEMMA NamesFinite == IsFiniteSet(Names)
<1>1. IsFiniteSet(1 .. MaxHost) /\ IsFiniteSet(1 .. MaxTime)
  BY FS_Interval, BoundsAssumption
<1> QED
  BY <1>1, FS_Product DEF Names

\* Of what retention counts out there are as many newer names left as it is to
\* keep: those after the last one it counts out.
LEMMA ExcessLeaves ==
  ASSUME TypeOK, NEW gone, gone = Excess, NEW n \in gone
  PROVE  Cardinality({m \in Listed(tars) \ gone : Before(n, m)}) >= retention
<1>1. gone \in SUBSET Names /\ gone # {}
  BY DEF Excess, Listed
<1>2. PICK x \in gone : \A m \in gone : m # x => Before(m, x)
  BY <1>1, Latest
<1> DEFINE A == {m \in Listed(tars) : Before(x, m)}
<1> DEFINE B == {m \in Listed(tars) \ gone : Before(n, m)}
<1>3. A \subseteq B
  <2> SUFFICES ASSUME NEW m \in Listed(tars), Before(x, m)
               PROVE  m \notin gone /\ Before(n, m)
    OBVIOUS
  <2>1. m \in Names /\ n \in Names /\ x \in Names
    BY <1>1 DEF Listed
  <2>2. m \notin gone
    BY <1>2, <2>1, BeforeOrder
  <2>3. n # x => Before(n, x)
    BY <1>2
  <2> QED
    BY <2>1, <2>2, <2>3, BeforeTransitive
<1>4. IsFiniteSet(B)
  <2>1. B \subseteq Names
    BY DEF Listed
  <2> QED
    BY <2>1, NamesFinite, FS_Subset
<1>5. Cardinality(A) >= retention
  BY <1>2 DEF Excess
<1>6. /\ Cardinality(A) <= Cardinality(B)
      /\ Cardinality(A) \in Nat /\ Cardinality(B) \in Nat
  <2> HIDE DEF A, B
  <2> QED
    BY <1>3, <1>4, FS_Subset, FS_CardinalityType
<1>7. retention \in Nat
  BY DEF TypeOK
<1> QED
  BY <1>5, <1>6, <1>7

\* A tarball that somebody still makes is not complete.
OpenOf(q) ==
  job[q].cmd = "create" =>
    (job[q].name # NoName => tars[job[q].name].is \in {"partial", "garbled"})

LEMMA OpenNext ==
  ASSUME TypeOK, \A r \in Commands : MakingOf(r), [Next]_vars, NEW q \in Commands,
         OpenOf(q)
  PROVE  OpenOf(q)'
<1> SUFFICES ASSUME job'[q].cmd = "create", job'[q].name # NoName
             PROVE  tars'[job'[q].name].is \in {"partial", "garbled"}
  BY DEF OpenOf
<1>1. ASSUME NEW p \in Commands, Create(p) PROVE OpenOf(q)'
  <2>1. PICK second \in 1 .. MaxTime :
          LET n == <<host, second>>
              others == {r \in Creators : job[r].cmd = "create" /\ job[r].name = n} IN
          /\ Start(p, [cmd |-> "create", name |-> n, head |-> "none", size |-> 0,
                       of |-> file, rest |-> Walked])
          /\ tars' = [tars EXCEPT ![n] =
                        [is |-> IF others = {} THEN "partial" ELSE "garbled",
                         holds |-> Absent, of |-> Absent]]
    BY <1>1 DEF Create
  <2> DEFINE n == <<host, second>>
  <2>2. n \in Names
    BY DEF TypeOK, Names
  <2>3. /\ tars'[n].is \in {"partial", "garbled"}
        /\ \A m \in Names \ {n} : tars'[m] = tars[m]
    BY <2>1, <2>2 DEF TypeOK
  <2>4. CASE q = p
    <3>1. job'[q].name = n
      BY <2>1, <2>4 DEF Start, TypeOK
    <3> QED
      BY <2>3, <3>1 DEF OpenOf
  <2>5. CASE q # p
    <3>1. job'[q] = job[q]
      BY <2>1, <2>5 DEF Start, TypeOK
    <3>2. job[q].name \in Names
      BY <3>1, JobType DEF Making
    <3> QED
      BY <2>3, <3>1, <3>2 DEF OpenOf
  <2> QED
    BY <2>4, <2>5
<1>2. CASE \A p \in Commands : ~Create(p)
  <2>1. /\ job[q].cmd = "create" /\ job'[q].name = job[q].name
        /\ tars[job[q].name].is \in {"partial", "garbled"}
    BY <1>2, HoldsAll DEF Holds, OpenOf
  <2>2. job[q].name \in Names
    BY <2>1, JobType DEF Making
  <2>3. ASSUME NEW p \in Commands, Copy(p) PROVE OpenOf(q)'
    BY <2>1, <2>2, <2>3, CopyIs DEF OpenOf
  <2>4. ASSUME NEW p \in Commands, Finish(p) PROVE OpenOf(q)'
    <3>1. /\ job[p] \in Making /\ job[p].name \in Names /\ job[p].cmd = "create"
          /\ job'[p] = [cmd |-> "retain"]
      <4>1. /\ job[p] \in Making /\ job[p].name \in Names
            /\ Goes(p, [cmd |-> "retain"])
        BY <2>4, FinishSteps
      <4> QED
        BY <4>1 DEF Goes, TypeOK, Making
    <3>5. PICK is \in {"garbled", "short", "whole", "partial"} :
            /\ Finished(p, is).is = is
            /\ is = Ends(p) \/ (is = "partial" /\ Ends(p) # "garbled")
            /\ tars' = [tars EXCEPT ![job[p].name] = Finished(p, is)]
      BY <2>4, FinishSteps
    <3>2. q # p
      BY <3>1
    <3>3. CASE job[q].name = job[p].name
      <4>1. ~AloneOf(q)
        BY <3>1, <3>2, <3>3 DEF AloneOf
      <4>2. tars[job[p].name].is = "garbled"
        BY <2>1, <3>3, <4>1 DEF MakingOf
      <4>3. Finished(p, is).is = "garbled"
        BY <3>5, <4>2 DEF Ends
      <4>4. tars'[job[p].name] = Finished(p, is)
        BY <3>1, <3>5 DEF TypeOK
      <4> QED
        BY <2>1, <3>3, <4>3, <4>4 DEF OpenOf
    <3>4. CASE job[q].name # job[p].name
      <4>1. tars'[job[q].name] = tars[job[q].name]
        BY <2>2, <3>4, <3>5 DEF TypeOK
      <4> QED
        BY <2>1, <4>1 DEF OpenOf
    <3> QED
      BY <3>3, <3>4
  <2>5. ASSUME NEW gone, \A m \in Names \ gone : tars'[m] = tars[m],
               job'[q] = Nameless(gone)[q]
        PROVE  OpenOf(q)'
    <3>1. job[q].name \notin gone
      <4>1. job[q] \in Making
        BY <2>1, JobType
      <4>2. [job[q] EXCEPT !.name = NoName].name = NoName
        BY <4>1 DEF Making
      <4> QED
        BY <2>1, <2>5, <4>2 DEF Nameless
    <3> QED
      BY <2>1, <2>2, <2>5, <3>1 DEF OpenOf
  <2>6. ASSUME NEW p \in Commands, Expire(p) PROVE OpenOf(q)'
    <3>1. PICK n \in Names, gone \in SUBSET Names :
            /\ tars' = [m \in Names |-> IF m \in gone THEN NoTar ELSE tars[m]]
            /\ job' = [Nameless(gone) EXCEPT ![p] = NextJob(job[p].doomed \ {n})]
      BY <2>6, ExpireSteps
    <3>2. q # p
      BY <3>1, NamelessType DEF NextJob, NoJob
    <3>3. job'[q] = Nameless(gone)[q]
      BY <3>1, <3>2, NamelessType
    <3>4. \A m \in Names \ gone : tars'[m] = tars[m]
      BY <3>1
    <3> QED
      BY <2>5, <3>3, <3>4
  <2>7. ASSUME Delete PROVE OpenOf(q)'
    <3>1. PICK n \in Names :
            tars' = [tars EXCEPT ![n] = NoTar] /\ job' = Nameless({n})
      BY <2>7, DeleteSteps
    <3>2. \A m \in Names \ {n} : tars'[m] = tars[m]
      BY <3>1 DEF TypeOK
    <3> QED
      BY <2>5, <3>1, <3>2
  <2>8. ASSUME UNCHANGED tars PROVE OpenOf(q)'
    BY <2>1, <2>8 DEF OpenOf
  <2>9. ASSUME NEW p \in Commands,
               \/ Header(p) \/ CreateFails(p) \/ Retain(p) \/ Restore(p)
               \/ RestoreFails(p) \/ Restored(p) \/ ExtractStep(p) \/ ResetStep(p)
               \/ EraseStep(p)
        PROVE  OpenOf(q)'
    <3>1. UNCHANGED tars
      BY <2>9 DEF Header, CreateFails, Retain, Restore, RestoreFails, Restored,
                  ExtractStep, Extract, ResetStep, EraseStep, backupVars, tarVars
    <3> QED
      BY <2>8, <3>1
  <2>10. ASSUME Save \/ Schedule \/ UNCHANGED vars \/ UNCHANGED backupVars
         PROVE  OpenOf(q)'
    <3>1. UNCHANGED tars
      BY <2>10 DEF Save, Schedule, vars, backupVars, tarVars
    <3> QED
      BY <2>8, <3>1
  <2>11. ASSUME NEW p \in Commands, BackupStep(p) PROVE OpenOf(q)'
    BY <1>2, <2>3, <2>4, <2>6, <2>9, <2>11 DEF BackupStep
  <2>12. OpenOf(q)'
    BY <2>7, <2>9, <2>10, <2>11 DEF Next
  <2> QED
    BY <2>12 DEF OpenOf
<1> QED
  BY <1>1, <1>2 DEF OpenOf

\* A job that is replaced by one of the same tarball, or neither of one, makes no
\* difference to who makes n.
LEMMA MadeSame ==
  ASSUME NEW p \in Commands, \A q \in Commands \ {p} : job'[q] = job[q], NEW n,
         (job'[p].cmd = "create" /\ job'[p].name = n) <=>
         (job[p].cmd = "create" /\ job[p].name = n)
  PROVE  n \in Made' <=> n \in Made
  BY DEF Made

\* Taking names away makes no difference to who makes another.
LEMMA MadeNameless ==
  ASSUME TypeOK, NEW gone, NEW n \in Names \ gone,
         \A q \in Commands :
           job'[q] = Nameless(gone)[q] \/ "create" \notin {job[q].cmd, job'[q].cmd}
  PROVE  n \in Made' <=> n \in Made
<1>1. ASSUME NEW q \in Commands
      PROVE  (job'[q].cmd = "create" /\ job'[q].name = n) <=>
             (job[q].cmd = "create" /\ job[q].name = n)
  <2>1. CASE job'[q] = Nameless(gone)[q]
    <3>1. job'[q] = IF job[q].cmd = "create" /\ job[q].name \in gone
                    THEN [job[q] EXCEPT !.name = NoName] ELSE job[q]
      BY <2>1 DEF Nameless
    <3>2. job[q].cmd = "create" => [job[q] EXCEPT !.name = NoName].name = NoName
      <4>1. job[q].cmd = "create" => job[q] \in Making
        BY JobType
      <4> QED
        BY <4>1 DEF Making
    <3> QED
      BY <3>1, <3>2, NoNameType
  <2>2. CASE "create" \notin {job[q].cmd, job'[q].cmd}
    BY <2>2
  <2> QED
    BY <2>1, <2>2
<1> QED
  BY <1>1 DEF Made

\* Command q is not about to remove more than it was.
Sheds(q) ==
  job'[q].cmd = "expire" =>
    job[q].cmd = "expire" /\ job'[q].doomed \subseteq job[q].doomed

LEMMA DoomedSheds == ASSUME \A q \in Commands : Sheds(q) PROVE Doomed' \subseteq Doomed
  BY DEF Doomed, Sheds

LEMMA DoomedSame ==
  ASSUME \A q \in Commands :
           job'[q] = job[q] \/ "expire" \notin {job[q].cmd, job'[q].cmd}
  PROVE  Doomed' = Doomed
<1>1. ASSUME NEW x PROVE x \in Doomed' <=> x \in Doomed
  BY DEF Doomed
<1> QED
  BY <1>1

\* Only the listing of retention dooms a name.
LEMMA ShedsAll ==
  ASSUME TypeOK, [Next]_vars, \A p \in Commands : ~Retain(p)
  PROVE  \A q \in Commands : Sheds(q)
<1> SUFFICES ASSUME NEW q \in Commands PROVE Sheds(q)
  OBVIOUS
<1>1. ASSUME Aside(q) PROVE Sheds(q)
  <2>1. CASE job'[q] = job[q]
    BY <2>1 DEF Sheds
  <2>2. CASE job[q].cmd = "create" /\ job'[q] = [job[q] EXCEPT !.name = NoName]
    <3>1. job[q] \in Making
      BY <2>2, JobType
    <3>2. job'[q].cmd = "create"
      BY <2>2, <3>1 DEF Making
    <3> QED
      BY <3>2 DEF Sheds
  <2> QED
    BY <1>1, <2>1, <2>2 DEF Aside
<1>2. ASSUME NEW p \in Commands,
             BackupStep(p) \/ ExtractStep(p) \/ ResetStep(p) \/ EraseStep(p)
      PROVE  Sheds(q)
  <2>1. CASE q # p
    <3>1. q \in Commands \ {p}
      BY <2>1
    <3> QED
      BY <1>1, <1>2, <3>1, Bystander
  <2>2. CASE q = p /\ Expire(p)
    <3>1. PICK n \in Names, gone \in SUBSET Names :
            /\ job[p] \in Expiring
            /\ job' = [Nameless(gone) EXCEPT ![p] = NextJob(job[p].doomed \ {n})]
      BY <2>2, ExpireSteps
    <3>2. job'[p] = NextJob(job[p].doomed \ {n})
      BY <3>1, NamelessType
    <3>3. job[p].cmd = "expire"
      BY <3>1 DEF Expiring
    <3> QED
      BY <2>2, <3>2, <3>3 DEF Sheds, NextJob, NoJob
  <2>3. CASE q = p /\ (BackupStep(p) \/ ExtractStep(p)) /\ ~Expire(p)
    <3>1. job'[p].cmd # "expire"
      BY <2>3, SelfCmd DEF BackupStep, ExtractStep
    <3> QED
      BY <2>3, <3>1 DEF Sheds
  <2>4. CASE q = p /\ (ResetStep(p) \/ EraseStep(p))
    <3>1. job'[p].cmd # "expire"
      BY <2>4, ResetCmd
    <3> QED
      BY <2>4, <3>1 DEF Sheds
  <2> QED
    BY <1>2, <2>1, <2>2, <2>3, <2>4
<1>3. CASE Save \/ Delete \/ Schedule \/ UNCHANGED vars
  BY <1>1, <1>3, Outsider
<1>4. CASE Reboot
  BY <1>4 DEF Reboot, Sheds, NoJob
<1> QED
  BY <1>2, <1>3, <1>4 DEF Next

\* BackupStore counts as Maintenance does.
LEMMA SameCardinality == ASSUME NEW S PROVE Store!Cardinality(S) = Cardinality(S)
  BY Zenon DEF Store!Cardinality, Cardinality

LEMMA RefineInit == Init => Store!Init
<1> SUFFICES ASSUME Init PROVE Store!Init
  OBVIOUS
<1>1. \A n \in Names : tars[n].is = "none"
  BY DEF Init, BackupInit, NoTar
<1>2. Whole = {} /\ Listed(tars) = {} /\ MadeAlone = {}
  BY <1>1 DEF Whole, Listed, MadeAlone, Made
<1>3. Doomed = {}
  BY DEF Init, DirInit, Doomed, NoJob
<1> QED
  BY <1>2, <1>3 DEF Init, DirInit, BackupInit, Store!Init

\* A step that takes no tarball, ends none and gives no command.
LEMMA AbandonStep ==
  ASSUME TypeOK, UNCHANGED <<retention, begun>>,
         \A q \in Commands : Holds(q) /\ Sheds(q),
         \A n \in Names :
           tars'[n] = tars[n] \/ ("whole" \notin {tars[n].is, tars'[n].is}
                                  /\ tars[n].is # "none" /\ tars'[n].is # "none"
                                  /\ (tars'[n].is = "partial" => tars[n].is = "partial"))
  PROVE  Store!Next
<1>1. Whole' = Whole
  BY DEF Whole
<1>2. Listed(tars)' = Listed(tars)
  BY DEF Listed
<1>3. MadeAlone' \subseteq MadeAlone
  BY NoNameType DEF MadeAlone, Made, Holds
<1>4. Store!Abandon
  BY <1>1, <1>2, <1>3, DoomedSheds DEF Store!Abandon
<1> QED
  BY <1>4 DEF Store!Next

\* A command that leaves the tarballs alone and starts no creation.
LEMMA OtherStep ==
  ASSUME TypeOK, NEW p \in Commands, NEW j, Start(p, j),
         j.cmd \notin {"create", "expire"}, UNCHANGED <<tars, retention>>
  PROVE  Store!Next
<1>1. /\ job[p] = NoJob /\ begun' = begun + 1
      /\ job' = [job EXCEPT ![p] = j]
  BY DEF Start
<1>2. \A n : n \in Made' <=> n \in Made
  <2>1. job'[p] = j /\ \A q \in Commands \ {p} : job'[q] = job[q]
    BY <1>1 DEF TypeOK
  <2> QED
    BY <1>1, <2>1, MadeSame DEF NoJob
<1>3. MadeAlone' = MadeAlone
  BY <1>2 DEF MadeAlone
<1>4. Whole' = Whole /\ Listed(tars)' = Listed(tars)
  BY DEF Whole, Listed
<1>5. Doomed' = Doomed
  <2>1. job'[p] = j /\ \A q \in Commands \ {p} : job'[q] = job[q]
    BY <1>1 DEF TypeOK
  <2>2. \A q \in Commands :
          job'[q] = job[q] \/ "expire" \notin {job[q].cmd, job'[q].cmd}
    BY <1>1, <2>1 DEF NoJob
  <2> QED
    BY <2>2, DoomedSame
<1>6. Store!Other
  BY <1>1, <1>3, <1>4, <1>5 DEF Store!Other
<1> QED
  BY <1>6 DEF Store!Next

\* A tarball is removed, and who makes it has no name for it.
LEMMA TakeStep ==
  ASSUME TypeOK, NEW k \in Names, NEW gone, gone = {k},
         tars' = [n \in Names |-> IF n \in gone THEN NoTar ELSE tars[n]],
         \A n \in Names \ gone : n \in Made' <=> n \in Made
  PROVE  Store!Take(k)
<1>1. \A n \in gone : tars'[n].is = "none"
  BY DEF NoTar
<1>2. \A n \in Names \ gone : tars'[n] = tars[n]
  OBVIOUS
<1>3. Whole' = {b \in Whole : b[1] \notin gone}
  <2>1. ASSUME NEW b \in Whole' PROVE b \in Whole /\ b[1] \notin gone
    <3>1. PICK n \in Names : tars'[n].is = "whole" /\ b = <<n, tars'[n].holds>>
      BY <2>1 DEF Whole
    <3>2. n \notin gone
      BY <1>1, <3>1
    <3> QED
      BY <1>2, <3>1, <3>2 DEF Whole
  <2>2. ASSUME NEW b \in Whole, b[1] \notin gone PROVE b \in Whole'
    <3>1. PICK n \in Names : tars[n].is = "whole" /\ b = <<n, tars[n].holds>>
      BY <2>2 DEF Whole
    <3>2. n \notin gone
      BY <2>2, <3>1
    <3> QED
      BY <1>2, <3>1, <3>2 DEF Whole
  <2> QED
    BY <2>1, <2>2
<1>4. Listed(tars)' = Listed(tars) \ gone
  BY <1>1, <1>2 DEF Listed
<1>5. MadeAlone' = MadeAlone \ gone
  BY <1>1, <1>2 DEF MadeAlone
<1> QED
  BY <1>3, <1>4, <1>5 DEF Store!Take, Store!Without

LEMMA CreateRefines ==
  ASSUME TypeOK, NEW p \in Commands, Create(p) PROVE Store!Next
<1>1. PICK second \in 1 .. MaxTime :
        LET n == <<host, second>>
            others == {q \in Creators : job[q].cmd = "create" /\ job[q].name = n} IN
        /\ Start(p, [cmd |-> "create", name |-> n, head |-> "none", size |-> 0,
                     of |-> file, rest |-> Walked])
        /\ tars' = [tars EXCEPT ![n] =
                      [is |-> IF others = {} THEN "partial" ELSE "garbled",
                       holds |-> Absent, of |-> Absent]]
        /\ UNCHANGED <<usb, retention>>
  BY DEF Create
<1> DEFINE n == <<host, second>>
<1> DEFINE others == {q \in Creators : job[q].cmd = "create" /\ job[q].name = n}
<1> DEFINE j == [cmd |-> "create", name |-> n, head |-> "none", size |-> 0,
                 of |-> file, rest |-> Walked]
<1>2. n \in Names
  BY DEF TypeOK, Names
<1>3. /\ tars'[n].is = (IF others = {} THEN "partial" ELSE "garbled")
      /\ \A m \in Names \ {n} : tars'[m] = tars[m]
  BY <1>1, <1>2 DEF TypeOK
<1>4. job[p] = NoJob /\ job' = [job EXCEPT ![p] = j] /\ begun' = begun + 1
  BY <1>1 DEF Start
<1>5. \A m \in Names \ {n} : m \in Made' <=> m \in Made
  <2>1. job'[p] = j /\ \A q \in Commands \ {p} : job'[q] = job[q]
    BY <1>4 DEF TypeOK
  <2> QED
    BY <1>4, <2>1, MadeSame DEF NoJob
<1>6. n \in Made' /\ (n \in Made <=> others # {})
  <2>1. job'[p] = j
    BY <1>4 DEF TypeOK
  <2>2. \A q \in Commands : job[q].cmd = "create" => q \in Creators
    BY DEF Creators, Working, NoJob
  <2>3. Creators \subseteq Commands
    BY DEF Creators, Working
  <2> QED
    BY <2>1, <2>2, <2>3 DEF Made
<1>7. Whole' = {b \in Whole : b[1] \notin {n}}
  <2>1. ASSUME NEW b \in Whole' PROVE b \in Whole /\ b[1] # n
    <3>1. PICK m \in Names : tars'[m].is = "whole" /\ b = <<m, tars'[m].holds>>
      BY <2>1 DEF Whole
    <3>2. m # n
      BY <1>3, <3>1
    <3> QED
      BY <1>3, <3>1, <3>2 DEF Whole
  <2>2. ASSUME NEW b \in Whole, b[1] # n PROVE b \in Whole'
    <3>1. PICK m \in Names : tars[m].is = "whole" /\ b = <<m, tars[m].holds>>
      BY <2>2 DEF Whole
    <3> QED
      BY <1>3, <2>2, <3>1 DEF Whole
  <2> HIDE DEF n
  <2> QED
    BY <2>1, <2>2
<1>8. Listed(tars)' = Listed(tars) \cup {n}
  <2>1. tars'[n].is # "none"
    BY <1>3
  <2> HIDE DEF n
  <2> QED
    BY <1>2, <1>3, <2>1 DEF Listed
<1>9. /\ MadeAlone' = IF others = {} THEN MadeAlone \cup {n} ELSE MadeAlone \ {n}
      /\ n \in MadeAlone => others # {}
  <2> HIDE DEF n, others
  <2> QED
    BY <1>2, <1>3, <1>5, <1>6 DEF MadeAlone
<1>10. n \in MadeAlone => n \notin MadeAlone'
  <2> HIDE DEF n, others
  <2> QED
    BY <1>9
<1>11. MadeAlone' \in {MadeAlone \cup {n}, MadeAlone \ {n}}
  <2> HIDE DEF n, others
  <2> QED
    BY <1>9
<1>12. Doomed' = Doomed
  <2>1. job'[p] = j /\ \A q \in Commands \ {p} : job'[q] = job[q]
    BY <1>4 DEF TypeOK
  <2>2. j.cmd = "create"
    OBVIOUS
  <2> HIDE DEF j
  <2>3. \A q \in Commands :
          job'[q] = job[q] \/ "expire" \notin {job[q].cmd, job'[q].cmd}
    BY <1>4, <2>1, <2>2 DEF NoJob
  <2> QED
    BY <2>3, DoomedSame
<1>13. Store!Begin(n)
  <2>1. retention' = retention
    BY <1>1
  <2> HIDE DEF n, others
  <2> QED
    BY <1>4, <1>7, <1>8, <1>10, <1>11, <1>12, <2>1 DEF Store!Begin, Store!Without
<1> QED
  BY <1>2, <1>13 DEF Store!Next

LEMMA FinishRefines ==
  ASSUME TypeOK, NEW p \in Commands, Finish(p), OpenOf(p),
         \A q \in Commands : Holds(q) /\ Sheds(q)
  PROVE  Store!Next
<1> DEFINE n == job[p].name
<1>1. /\ job[p] \in Making /\ n \in Names /\ job[p].cmd = "create"
      /\ tars[n] \in Tarball
      /\ job' = [job EXCEPT ![p] = [cmd |-> "retain"]]
      /\ UNCHANGED <<retention, begun>>
  BY FinishSteps DEF Goes, TypeOK, Making
<1>7. PICK is \in {"garbled", "short", "whole", "partial"} :
        /\ Finished(p, is) \in Tarball /\ Finished(p, is).is = is
        /\ is = Ends(p) \/ (is = "partial" /\ Ends(p) # "garbled")
        /\ tars' = [tars EXCEPT ![n] = Finished(p, is)]
  BY FinishSteps
<1> DEFINE t == Finished(p, is)
<1>2. tars'[n] = t /\ \A m \in Names \ {n} : tars'[m] = tars[m]
  BY <1>1, <1>7 DEF TypeOK
<1>3. /\ t.is = is /\ t.holds = tars[n].holds
      /\ tars[n].is = "garbled" <=> is = "garbled"
  BY <1>1, <1>7 DEF Finished, Tarball, Ends
<1>4. tars[n].is \in {"partial", "garbled"}
  BY <1>1, NoNameType DEF OpenOf
<1>5. CASE t.is # "whole"
  <2>1. \A m \in Names :
          tars'[m] = tars[m] \/ ("whole" \notin {tars[m].is, tars'[m].is}
                                 /\ tars[m].is # "none" /\ tars'[m].is # "none"
                                 /\ (tars'[m].is = "partial" => tars[m].is = "partial"))
    BY <1>2, <1>3, <1>4, <1>5
  <2> QED
    BY <1>1, <2>1, AbandonStep
<1>6. CASE t.is = "whole"
  <2>1. tars[n].is = "partial"
    BY <1>3, <1>4, <1>6
  <2>2. n \in MadeAlone
    BY <1>1, <2>1 DEF MadeAlone, Made
  <2>3. \A m \in Names \ {n} : m \in Made' <=> m \in Made
    <3>1. /\ job'[p] = [cmd |-> "retain"]
          /\ \A q \in Commands \ {p} : job'[q] = job[q]
      BY <1>1 DEF TypeOK
    <3> QED
      BY <1>1, <3>1, MadeSame
  <2>4. MadeAlone' = MadeAlone \ {n}
    BY <1>2, <1>6, <2>3 DEF MadeAlone
  <2>5. Listed(tars)' = Listed(tars)
    BY <1>2, <1>6, <2>1 DEF Listed
  <2>6. Whole' = Whole \cup {<<n, t.holds>>}
    <3>1. ASSUME NEW b \in Whole' PROVE b \in Whole \/ b = <<n, t.holds>>
      <4>1. PICK m \in Names : tars'[m].is = "whole" /\ b = <<m, tars'[m].holds>>
        BY <3>1 DEF Whole
      <4> QED
        BY <1>2, <4>1 DEF Whole
    <3>2. ASSUME NEW b \in Whole PROVE b \in Whole'
      <4>1. PICK m \in Names : tars[m].is = "whole" /\ b = <<m, tars[m].holds>>
        BY <3>2 DEF Whole
      <4>2. m # n
        BY <2>1, <4>1
      <4> QED
        BY <1>2, <4>1, <4>2 DEF Whole
    <3>3. <<n, t.holds>> \in Whole'
      BY <1>1, <1>2, <1>6 DEF Whole
    <3> HIDE DEF n, t
    <3> QED
      BY <3>1, <3>2, <3>3
  <2>7. t.holds \in [Files -> Content]
    BY <1>7 DEF Tarball
  <2>9. Doomed' = Doomed
    <3>1. /\ job'[p] = [cmd |-> "retain"]
          /\ \A q \in Commands \ {p} : job'[q] = job[q]
      BY <1>1 DEF TypeOK
    <3>2. \A q \in Commands :
            job'[q] = job[q] \/ "expire" \notin {job[q].cmd, job'[q].cmd}
      BY <1>1, <3>1
    <3> QED
      BY <3>2, DoomedSame
  <2>8. Store!Complete(n)
    <3> HIDE DEF n, t
    <3> QED
      BY <1>1, <2>2, <2>4, <2>5, <2>6, <2>7, <2>9 DEF Store!Complete
  <2> QED
    BY <1>1, <2>8 DEF Store!Next
<1> QED
  BY <1>5, <1>6

LEMMA RetainRefines ==
  ASSUME TypeOK, NEW p \in Commands, Retain(p), \A q \in Commands : Holds(q)
  PROVE  Store!Next
<1>1. /\ job[p].cmd = "retain"
      /\ \/ Excess # {} /\ Goes(p, [cmd |-> "expire", doomed |-> Excess])
         \/ Goes(p, NoJob)
      /\ UNCHANGED <<begun, retention, tars>>
  BY RetainSteps DEF Ended
<1>2. \A q \in Commands \ {p} : job'[q] = job[q]
  BY <1>1, GoesAside
<1>3. CASE Goes(p, NoJob)
  <2>1. job'[p] = NoJob
    BY <1>3 DEF Goes, TypeOK
  <2>2. \A q \in Commands : Sheds(q)
    BY <1>2, <2>1 DEF Sheds, NoJob
  <2> QED
    BY <1>1, <2>2, AbandonStep
<1>4. CASE Excess # {} /\ Goes(p, [cmd |-> "expire", doomed |-> Excess])
  <2>1. job'[p] = [cmd |-> "expire", doomed |-> Excess]
    BY <1>4 DEF Goes, TypeOK
  <2>2. Doomed' = Doomed \cup Excess
    <3>1. ASSUME NEW x \in Doomed' PROVE x \in Doomed \cup Excess
      <4>1. PICK q \in Commands : job'[q].cmd = "expire" /\ x \in job'[q].doomed
        BY <3>1 DEF Doomed
      <4>2. CASE q = p
        BY <2>1, <4>1, <4>2
      <4>3. CASE q # p
        BY <1>2, <4>1, <4>3 DEF Doomed
      <4> QED
        BY <4>2, <4>3
    <3>2. ASSUME NEW x \in Doomed PROVE x \in Doomed'
      <4>1. PICK q \in Commands : job[q].cmd = "expire" /\ x \in job[q].doomed
        BY <3>2 DEF Doomed
      <4>2. q # p
        BY <1>1, <4>1
      <4> QED
        BY <1>2, <4>1, <4>2 DEF Doomed
    <3>3. Excess \subseteq Doomed'
      BY <2>1 DEF Doomed
    <3> QED
      BY <3>1, <3>2, <3>3
  <2>3. MadeAlone' = MadeAlone
    <3>1. \A n : n \in Made' <=> n \in Made
      BY <1>1, <1>2, <2>1, MadeSame
    <3> QED
      BY <1>1, <3>1 DEF MadeAlone
  <2>4. Whole' = Whole /\ Listed(tars)' = Listed(tars)
    BY <1>1 DEF Whole, Listed
  <2>5. PICK S \in SUBSET Listed(tars) : S = Excess
    BY DEF Excess
  <2>6. ASSUME NEW n \in S
        PROVE  Cardinality({m \in Listed(tars) \ S : <<n, m>> \in Older}) >= retention
    <3>1. {m \in Listed(tars) \ S : <<n, m>> \in Older} =
          {m \in Listed(tars) \ S : Before(n, m)}
      BY DEF Older, Listed
    <3> QED
      BY <2>5, <3>1, ExcessLeaves
  <2>7. Store!Doom(S)
    <3>1. retention # 0
      BY <1>4 DEF Excess
    <3>2. \A n \in S :
            Store!Cardinality({m \in Listed(tars) \ S : <<n, m>> \in Older})
              >= retention
      BY <2>6, SameCardinality, Zenon
    <3> QED
      BY <1>1, <2>2, <2>3, <2>4, <2>5, <3>1, <3>2, Zenon DEF Store!Doom
  <2> QED
    BY <2>7 DEF Store!Next
<1> QED
  BY <1>1, <1>3, <1>4

LEMMA ExpireRefines ==
  ASSUME TypeOK, NEW p \in Commands, Expire(p),
         \A q \in Commands : Holds(q) /\ Sheds(q)
  PROVE  Store!Next
<1>1. PICK n \in Names, gone \in SUBSET Names :
        /\ job[p] \in Expiring /\ n \in job[p].doomed /\ gone \subseteq {n}
        /\ tars' = [m \in Names |-> IF m \in gone THEN NoTar ELSE tars[m]]
        /\ job' = [Nameless(gone) EXCEPT ![p] = NextJob(job[p].doomed \ {n})]
        /\ UNCHANGED <<begun, retention>>
  BY ExpireSteps
<1>2. CASE gone = {}
  <2>1. \A m \in Names : tars'[m] = tars[m]
    BY <1>1, <1>2
  <2> QED
    BY <1>1, <2>1, AbandonStep
<1>3. CASE gone # {}
  <2>1. gone = {n}
    BY <1>1, <1>3
  <2>2. job[p].cmd = "expire" /\ n \in Doomed
    BY <1>1 DEF Expiring, Doomed
  <2>3. /\ job'[p] = NextJob(job[p].doomed \ {n})
        /\ \A q \in Commands \ {p} : job'[q] = Nameless(gone)[q]
    BY <1>1, NamelessType
  <2>4. \A q \in Commands :
          job'[q] = Nameless(gone)[q] \/ "create" \notin {job[q].cmd, job'[q].cmd}
    BY <2>2, <2>3 DEF NextJob, NoJob
  <2>5. \A m \in Names \ gone : m \in Made' <=> m \in Made
    BY <2>4, MadeNameless
  <2>6. Store!Take(n)
    BY <1>1, <2>1, <2>5, TakeStep
  <2>7. Store!Expire(n)
    BY <1>1, <2>2, <2>6, DoomedSheds DEF Store!Expire
  <2> QED
    BY <2>7 DEF Store!Next
<1> QED
  BY <1>2, <1>3

LEMMA DeleteRefines == ASSUME TypeOK, Delete PROVE Store!Next
<1>1. PICK n \in Listed(tars) :
        /\ tars' = [tars EXCEPT ![n] = NoTar]
        /\ job' = Nameless({n}) /\ begun' = begun + 1 /\ retention' = retention
  BY DEF Delete
<1>2. n \in Names
  BY DEF Listed
<1>3. tars' = [m \in Names |-> IF m \in {n} THEN NoTar ELSE tars[m]]
  BY <1>1 DEF TypeOK
<1>4. \A m \in Names \ {n} : m \in Made' <=> m \in Made
  BY <1>1, MadeNameless
<1>5. Store!Take(n)
  BY <1>2, <1>3, <1>4, TakeStep
<1>7. Doomed' = Doomed
  <2>1. ASSUME NEW q \in Commands
        PROVE  job'[q] = job[q] \/ "expire" \notin {job[q].cmd, job'[q].cmd}
    <3>1. job[q].cmd = "create" => [job[q] EXCEPT !.name = NoName].cmd = "create"
      <4>1. job[q].cmd = "create" => job[q] \in Making
        BY JobType
      <4> QED
        BY <4>1 DEF Making
    <3>2. \/ job'[q] = job[q]
          \/ job[q].cmd = "create" /\ job'[q] = [job[q] EXCEPT !.name = NoName]
      BY <1>1, NamelessAside
    <3> QED
      BY <3>1, <3>2
  <2> QED
    BY <2>1, DoomedSame
<1>6. Store!Delete(n)
  BY <1>1, <1>5, <1>7 DEF Store!Delete
<1> QED
  BY <1>2, <1>6 DEF Store!Next

LEMMA ScheduleRefines == ASSUME TypeOK, Schedule PROVE Store!Next
<1>1. /\ retention' \in Nat /\ UNCHANGED <<tars, job, begun>>
  BY RetentionAssumption DEF Schedule, dirVars, bounds
<1>2. /\ Whole' = Whole /\ Listed(tars)' = Listed(tars) /\ MadeAlone' = MadeAlone
      /\ Doomed' = Doomed
  BY <1>1 DEF Whole, Listed, MadeAlone, Made, Doomed
<1>3. Store!Configure
  BY <1>1, <1>2 DEF Store!Configure
<1> QED
  BY <1>3 DEF Store!Next

\* Each step of Maintenance is one of BackupStore, or none.
LEMMA RefineStep ==
  ASSUME TypeOK, \A r \in Commands : MakingOf(r) /\ OpenOf(r), [Next]_vars
  PROVE  [Store!Next]_Store!vars
<1>1. ASSUME UNCHANGED <<tars, retention, begun, job>>
      PROVE  [Store!Next]_Store!vars
  <2>1. UNCHANGED <<Whole, Listed(tars), MadeAlone, Doomed, retention, begun>>
    BY <1>1 DEF Whole, Listed, MadeAlone, Made, Doomed
  <2> QED
    BY <2>1 DEF Store!vars
<1>2. ASSUME NEW p \in Commands, Create(p) PROVE Store!Next
  BY <1>2, CreateRefines
<1>4. ASSUME NEW p \in Commands, Retain(p), \A r \in Commands : ~Create(r)
      PROVE  Store!Next
  BY <1>4, HoldsAll, RetainRefines
<1>3. CASE \A p \in Commands : ~Create(p) /\ ~Retain(p)
  <2>1. \A q \in Commands : Holds(q) /\ Sheds(q)
    BY <1>3, HoldsAll, ShedsAll
  <2>2. ASSUME UNCHANGED <<tars, retention, begun>> PROVE Store!Next
    BY <2>1, <2>2, AbandonStep
  <2>3. ASSUME NEW p \in Commands, BackupStep(p) PROVE Store!Next
    <3>1. CASE Copy(p)
      <4>1. job[p].cmd = "create" /\ job[p].name \in Names \cup {NoName}
        BY <3>1, JobType DEF Copy, Creating, Making
      <4>2. job[p].name # NoName => tars[job[p].name].is \in {"partial", "garbled"}
        BY <4>1 DEF OpenOf
      <4>3. \A n \in Names :
              tars'[n] = tars[n] \/ ("whole" \notin {tars[n].is, tars'[n].is}
                                     /\ tars[n].is # "none" /\ tars'[n].is # "none"
                                     /\ (tars'[n].is = "partial" => tars[n].is = "partial"))
        BY <3>1, <4>1, <4>2, CopyIs, NoNameType
      <4>4. UNCHANGED <<retention, begun>>
        BY <3>1 DEF Copy, bounds
      <4> QED
        BY <2>1, <4>3, <4>4, AbandonStep
    <3>2. CASE Finish(p)
      BY <2>1, <3>2, FinishRefines
    <3>3. CASE Expire(p)
      BY <2>1, <3>3, ExpireRefines
    <3>4. CASE Header(p) \/ CreateFails(p) \/ RestoreFails(p) \/ Restored(p)
      <4>1. UNCHANGED <<tars, retention, begun>>
        BY <3>4 DEF Header, CreateFails, RestoreFails, Restored, backupVars, tarVars,
                    bounds
      <4> QED
        BY <2>2, <4>1
    <3>5. CASE Restore(p)
      <4>1. PICK dir \in {tars, usb}, n \in Names : Start(p, RestoreOf(dir, n))
        BY <3>5, RestoreStarts
      <4>2. RestoreOf(dir, n).cmd \notin {"create", "expire"}
        BY DEF RestoreOf
      <4>3. UNCHANGED <<tars, retention>>
        BY <3>5 DEF Restore, backupVars, tarVars
      <4> QED
        BY <4>1, <4>2, <4>3, OtherStep
    <3> QED
      BY <1>3, <2>3, <3>1, <3>2, <3>3, <3>4, <3>5 DEF BackupStep
  <2>4. ASSUME NEW p \in Commands, ExtractStep(p) \/ EraseStep(p) PROVE Store!Next
    <3>1. UNCHANGED <<tars, retention, begun>>
      BY <2>4 DEF ExtractStep, Extract, EraseStep, Erase, tarVars, bounds
    <3> QED
      BY <2>2, <3>1
  <2>5. ASSUME NEW p \in Commands, ResetStep(p) PROVE Store!Next
    <3>1. UNCHANGED <<tars, retention>>
      BY <2>5 DEF ResetStep, backupVars, tarVars
    <3>2. CASE Reset(p)
      <4>1. [cmd |-> "reset", rest |-> Erased, clean |-> TRUE].cmd
              \notin {"create", "expire"}
        OBVIOUS
      <4> QED
        BY <3>1, <3>2, <4>1, OtherStep DEF Reset
    <3>3. CASE Mark(p)
      BY <2>2, <3>1, <3>3 DEF Mark, bounds
    <3> QED
      BY <2>5, <3>2, <3>3 DEF ResetStep
  <2>6. CASE Delete \/ Schedule
    BY <2>6, DeleteRefines, ScheduleRefines
  <2>7. CASE Save
    <3>1. UNCHANGED <<tars, retention, begun, job>>
      BY <2>7, SaveSteps
    <3> QED
      BY <1>1, <3>1
  <2>8. CASE Reboot /\ UNCHANGED <<backupVars, resetVars>>
    BY <2>2, <2>8 DEF Reboot, backupVars, tarVars, bounds
  <2>9. CASE UNCHANGED vars
    BY <1>1, <2>9 DEF vars, dirVars, bounds, backupVars, tarVars
  <2> QED
    BY <2>3, <2>4, <2>5, <2>6, <2>7, <2>8, <2>9 DEF Next
<1> QED
  BY <1>2, <1>3, <1>4

\* The backups are a BackupStore: a tarball counts from its end, two creations under
\* one name never count, and when retention looks it counts out only what leaves as
\* many newer names as it is to keep, whatever is deleted or made before it removes
\* them one by one (backup.go:225-262, 598-619).
THEOREM Refinement == Spec => ImplementsBackupStore
<1> DEFINE Inv == TypeOK /\ CopiesInv /\ \A p \in Commands : OpenOf(p)
<1>1. Init => Inv
  <2> SUFFICES ASSUME Init PROVE Inv
    OBVIOUS
  <2>1. /\ \A p \in Commands : job[p] = NoJob
        /\ \A n \in Names : tars[n] = NoTar /\ usb[n] = NoTar
    BY DEF Init, BackupInit, DirInit
  <2>2. Faithful(NoTar)
    BY DEF Faithful, NoTar
  <2> QED
    BY <2>1, <2>2, TypeInit DEF CopiesInv, TarsInv, MakingOf, RestoringOf, OpenOf, NoJob
<1>2. Inv /\ [Next]_vars => Inv'
  BY TypeNext, TarsNext, MakingNext, RestoringNext, OpenNext DEF CopiesInv
<1>3. Init => Store!Init
  BY RefineInit
<1>4. Inv /\ [Next]_vars => [Store!Next]_Store!vars
  BY RefineStep DEF CopiesInv
<1> QED
  BY <1>1, <1>2, <1>3, <1>4, PTL DEF Spec, ImplementsBackupStore, Store!Spec
=============================================================================
