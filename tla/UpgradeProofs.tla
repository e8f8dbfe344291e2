--------------------------- MODULE UpgradeProofs ---------------------------
(***************************************************************************)
(* Proofs about Upgrade, for any set of runs, versions and requests and    *)
(* any bound on faults and kills.                                          *)
(***************************************************************************)
EXTENDS Upgrade, TLAPS

\* The steps of CopyComponent, and the steps after its first defer.
CopySteps ==
  {"stat", "symlink", "mkdtemp", "copy", "stash", "install", "dropPrevious",
   "keepPrevious", "switch", "restore", "unlink"}

\* A run past flock and no other run holds the lock.
LockInv ==
  \A p \in Process : (pc[p] \notin {"idle", "flock"}) <=> (holder = p)

\* A run knows what it was asked for, has a component to copy while it copies,
\* and past the comparison a version to bring.
RunInv ==
  \A p \in Process :
    /\ pc[p] # "idle" => req[p] \in Request
    /\ pc[p] = "flock" => todo[p] # {}
    /\ pc[p] \in CopySteps => todo[p] # {}
    /\ pc[p] \in CopySteps \ {"stat"} => Target(p) # None

LEMMA PutType ==
  ASSUME NEW C, NEW V, NEW E, NEW f \in [C -> [V -> E]],
         NEW c \in C, NEW v \in V, NEW x \in E
  PROVE  [f EXCEPT ![c][v] = x] \in [C -> [V -> E]]
  OBVIOUS

LEMMA PutAt ==
  ASSUME NEW C, NEW V, NEW E, NEW f \in [C -> [V -> E]],
         NEW c \in C, NEW v \in V, NEW x, NEW d \in C, NEW w \in V
  PROVE  [f EXCEPT ![c][v] = x][d][w] = IF d = c /\ w = v THEN x ELSE f[d][w]
  OBVIOUS

LEMMA FirstIn ==
  ASSUME NEW S \in SUBSET Component, S # {}
  PROVE  First(S) \in S
  BY DEF First, Component

LEMMA PartType ==
  ASSUME TypeOK, RunInv, NEW p \in Process, pc[p] \in CopySteps
  PROVE  /\ Part(p) \in Component
         /\ req[p] \in Request
         /\ Target(p) \in Version \cup {None}
         /\ pc[p] # "stat" => Target(p) \in Version
<1>1. todo[p] \in SUBSET Component /\ todo[p] # {} /\ pc[p] # "idle"
  BY DEF TypeOK, RunInv, CopySteps
<1>2. Part(p) \in Component
  BY <1>1, FirstIn DEF Part
<1>3. req[p] \in Request
  BY <1>1 DEF RunInv
<1>4. Target(p) \in Version \cup {None}
  BY <1>2, <1>3 DEF Target, Request
<1>5. QED
  BY <1>2, <1>3, <1>4 DEF RunInv, CopySteps

\* The version p brings is not the one `current` names, or was not recognised.
Replaces(p) ==
  current[Part(p)] # Target(p) \/ <<"stat", Part(p)>> \in dropped

\* What CopyComponent knows while it works on c = Part(p) for v = Target(p):
\* v replaces the version `current` names, current.tmp names v, the directory it
\* is about to rename is complete, and so is the one it has renamed.
CopyInv ==
  \A p \in Process :
    /\ pc[p] \in CopySteps \ {"stat", "restore", "unlink"} =>
         Replaces(p)
    /\ pc[p] \in CopySteps \ {"stat", "symlink", "restore", "unlink"} =>
         pending[Part(p)] = Target(p)
    /\ pc[p] \in {"stash", "install"} => scratch[p] = "complete"
    /\ pc[p] \in {"dropPrevious", "keepPrevious", "switch"} =>
         tree[Part(p)][Target(p)] = "complete"

IInv == TypeOK /\ LockInv /\ RunInv /\ CopyInv /\ CurrentComplete

\* A run at work is alone: every other one has not taken the lock.
LEMMA Alone ==
  ASSUME LockInv, NEW p \in Process, NEW q \in Process, q # p,
         pc[p] \notin {"idle", "flock"}
  PROVE  pc[q] \in {"idle", "flock"}
  BY DEF LockInv

-----------------------------------------------------------------------------
(* Each action preserves the inductive invariant.                          *)

LEMMA StartStep ==
  ASSUME IInv, NEW p \in Process, Start(p)
  PROVE  IInv'
<1> USE DEF IInv
<1>1. PICK r \in Requests : /\ req' = [req EXCEPT ![p] = r]
                            /\ todo' = [todo EXCEPT ![p] = r.parts]
  BY DEF Start
<1>2. r \in Request /\ r.parts \in SUBSET Component /\ r.parts # {}
  BY RequestsAssumption DEF Request
<1>3. TypeOK'
  BY <1>1, <1>2 DEF Start, Goto, TypeOK, Step, root, host, tally
<1>4. LockInv'
  BY <1>1 DEF Start, Goto, TypeOK, LockInv, host
<1>5. RunInv'
  BY <1>1, <1>2 DEF Start, Goto, TypeOK, RunInv, CopySteps, Target, Part, Step
<1>6. CopyInv'
  BY <1>1, <1>2 DEF Start, Goto, TypeOK, CopyInv, CopySteps, Replaces, Target, Part, Step, root
<1>7. CurrentComplete'
  BY DEF Start, CurrentComplete, root
<1>8. QED
  BY <1>3, <1>4, <1>5, <1>6, <1>7

LEMMA GoneStep ==
  ASSUME IInv, NEW P \in SUBSET Process, Gone(P), UNCHANGED <<root, dropped>>,
         unsynced' \in SUBSET (Component \X Version),
         writable' \in BOOLEAN, rebooting' \in BOOLEAN,
         faults' \in 0..MaxFaults, kills' \in 0..MaxKills
  PROVE  IInv'
<1> USE DEF IInv
<1>1. TypeOK'
  BY DEF Gone, TypeOK, root, Extent
<1>2. LockInv'
  BY NoneAssumption DEF Gone, LockInv
<1>3. RunInv'
  BY DEF Gone, RunInv, CopySteps, Target, Part
<1>4. CopyInv'
  BY DEF Gone, CopyInv, CopySteps, Replaces, Target, Part, root
<1>5. CurrentComplete'
  BY DEF CurrentComplete, root
<1>6. QED
  BY <1>1, <1>2, <1>3, <1>4, <1>5

LEMMA LockStep ==
  ASSUME IInv, NEW p \in Process, Lock(p)
  PROVE  IInv'
<1>1. CASE holder # None
  BY <1>1, GoneStep DEF Lock, IInv, TypeOK, tally
<1>2. CASE holder = None
  <2> USE DEF IInv
  <2>1. /\ UNCHANGED <<root, unsynced, writable, rebooting, dropped, tally>>
        /\ UNCHANGED <<req, todo, scratch, stashed, copied>>
        /\ holder' = p
        /\ pc' = [pc EXCEPT ![p] = "stat"]
        /\ pc[p] = "flock"
    BY <1>2 DEF Lock, Goto
  <2>2. TypeOK'
    BY <2>1 DEF TypeOK, Step, root, tally
  <2>3. LockInv'
    BY <1>2, <2>1, NoneAssumption DEF LockInv, TypeOK
  <2>4. RunInv'
    BY <2>1 DEF RunInv, CopySteps, Target, Part, TypeOK
  <2>5. CopyInv'
    BY <2>1 DEF CopyInv, CopySteps, Replaces, Target, Part, TypeOK, root
  <2>6. CurrentComplete'
    BY <2>1 DEF CurrentComplete, root
  <2>7. QED
    BY <2>2, <2>3, <2>4, <2>5, <2>6
<1>3. QED
  BY <1>1, <1>2

\* What Return does: the component is taken off the list, and a run with an
\* empty list is past CopyComponent.
LEMMA ReturnTo ==
  ASSUME TypeOK, RunInv, NEW p \in Process, pc[p] \in CopySteps, Return(p)
  PROVE  /\ todo' \in [Process -> SUBSET Component]
         /\ pc' \in [Process -> Step \cup {"idle"}]
         /\ pc'[p] \in {"stat", "sync"}
         /\ pc'[p] = "stat" => todo'[p] # {}
         /\ \A q \in Process \ {p} : pc'[q] = pc[q] /\ todo'[q] = todo[q]
<1>1. Part(p) \in todo[p]
  BY FirstIn DEF Part, TypeOK, RunInv, CopySteps
<1>2. QED
  BY <1>1 DEF Return, Goto, TypeOK, Step

\* A run that returns from CopyComponent, or goes from the comparison to the
\* first system call that changes the disk: current and tree stay.
LEMMA ReturnStep ==
  ASSUME IInv, NEW p \in Process, pc[p] \in CopySteps, Return(p),
         UNCHANGED <<current, previous, tree, aside, unsynced, holder,
                     rebooting, req, stashed, copied>>,
         pending' \in [Component -> Version \cup {None}],
         scratch' \in [Process -> Extent],
         dropped' \in SUBSET (Unchecked \X Component), dropped \subseteq dropped',
         writable' \in BOOLEAN, faults' \in 0..MaxFaults, kills' \in 0..MaxKills
  PROVE  IInv'
<1> USE DEF IInv
<1>1. /\ todo' \in [Process -> SUBSET Component]
      /\ pc' \in [Process -> Step \cup {"idle"}]
      /\ pc'[p] \in {"stat", "sync"}
      /\ pc'[p] = "stat" => todo'[p] # {}
      /\ \A q \in Process \ {p} : pc'[q] = pc[q] /\ todo'[q] = todo[q]
  BY ReturnTo
<1>2. \A q \in Process \ {p} : pc'[q] \in {"idle", "flock"}
  BY <1>1, Alone DEF CopySteps
<1>3. TypeOK'
  BY <1>1 DEF TypeOK
<1>4. LockInv'
  BY <1>1 DEF LockInv, CopySteps
<1>5. RunInv'
  <2>1. pc[p] # "idle"
    BY DEF CopySteps
  <2>2. QED
    BY <1>1, <1>2, <2>1 DEF RunInv, CopySteps
<1>6. CopyInv'
  BY <1>1, <1>2 DEF CopyInv, CopySteps
<1>7. CurrentComplete'
  BY DEF CurrentComplete
<1>8. QED
  BY <1>3, <1>4, <1>5, <1>6, <1>7

LEMMA FaultType ==
  ASSUME TypeOK, Fault
  PROVE  faults' \in 0..MaxFaults /\ kills' \in 0..MaxKills
  BY BoundsAssumption DEF Fault, TypeOK

LEMMA DropType ==
  ASSUME TypeOK, NEW p \in Process, Part(p) \in Component,
         NEW call \in Unchecked, Drop(p, call)
  PROVE  /\ dropped' \in SUBSET (Unchecked \X Component)
         /\ dropped \subseteq dropped'
         /\ <<call, Part(p)>> \in dropped'
         /\ faults' \in 0..MaxFaults /\ kills' \in 0..MaxKills
  BY FaultType DEF Drop, TypeOK

\* What is brought is not what `current` names, or was not recognised.
LEMMA StatStep ==
  ASSUME IInv, NEW p \in Process, Stat(p)
  PROVE  IInv'
<1>0. pc[p] = "stat" /\ pc[p] \in CopySteps /\ Part(p) \in Component
  BY PartType DEF Stat, CopySteps, IInv
<1>1. CASE Return(p)
  <2>1. /\ UNCHANGED <<root, unsynced, holder, rebooting, req, scratch, stashed, copied>>
        /\ UNCHANGED <<writable, dropped>>
        /\ faults' \in 0..MaxFaults /\ kills' \in 0..MaxKills
    <3>1. ~ Begin(p)
      BY <1>0, <1>1, ReturnTo DEF Begin, Goto, IInv, TypeOK
    <3>2. QED
      BY <3>1, FaultType DEF Stat, IInv, TypeOK, tally
  <2>2. QED
    BY <1>0, <1>1, <2>1, ReturnStep DEF IInv, TypeOK, root
<1>2. CASE ~Return(p)
  <2> USE DEF IInv
  <2>1. /\ UNCHANGED <<root, unsynced, holder, rebooting, req, todo, scratch,
                       stashed, copied>>
        /\ writable' \in BOOLEAN
        /\ pc' = [pc EXCEPT ![p] = "symlink"]
        /\ Target(p) # None
        /\ dropped' \in SUBSET (Unchecked \X Component)
        /\ dropped \subseteq dropped'
        /\ faults' \in 0..MaxFaults /\ kills' \in 0..MaxKills
        /\ ~UpToDate(p) \/ <<"stat", Part(p)>> \in dropped'
    <3>1. req[p].remount \in BOOLEAN
      BY <1>0, PartType DEF Request
    <3>2. Begin(p)
      BY <1>2 DEF Stat
    <3>3. CASE ~UpToDate(p) /\ UNCHANGED <<dropped, tally>>
      BY <3>1, <3>2, <3>3 DEF Stat, Begin, Goto, TypeOK, UpToDate, tally
    <3>4. CASE UpToDate(p) /\ Target(p) # None /\ Drop(p, "stat")
      BY <1>0, <3>1, <3>2, <3>4, DropType DEF Stat, Begin, Goto, TypeOK, Unchecked
    <3>5. QED
      BY <1>2, <3>3, <3>4 DEF Stat
  <2>2. /\ Target(p) \in Version
        /\ current[Part(p)] # Target(p) \/ <<"stat", Part(p)>> \in dropped'
    <3>1. Target(p) \in Version
      BY <1>0, <2>1, PartType
    <3>2. CASE ~UpToDate(p) /\ current[Part(p)] = Target(p)
      <4>1. tree[Part(p)][current[Part(p)]] = "absent"
        BY <3>1, <3>2, NoneAssumption DEF Resolves, UpToDate
      <4>2. <<"stat", Part(p)>> \in dropped
        BY <1>0, <3>1, <3>2, <4>1, NoneAssumption DEF CurrentComplete
      <4>3. QED
        BY <2>1, <3>1, <4>2
    <3>3. QED
      BY <2>1, <3>1, <3>2
  <2>3. TypeOK'
    BY <2>1 DEF TypeOK, Step, root
  <2>4. LockInv'
    BY <1>0, <2>1 DEF LockInv, TypeOK
  <2>5. RunInv'
    BY <1>0, <2>1, <2>2, NoneAssumption DEF RunInv, CopySteps, Target, Part, TypeOK
  <2>6. CopyInv'
    <3>1. \A q \in Process \ {p} : pc'[q] \in {"idle", "flock"}
      BY <1>0, <2>1, Alone DEF TypeOK, CopySteps
    <3>2. Part(p)' = Part(p) /\ Target(p)' = Target(p) /\ pc'[p] = "symlink"
      BY <2>1 DEF Part, Target, TypeOK
    <3>3. Replaces(p)'
      BY <2>1, <2>2, <3>2 DEF Replaces, root
    <3>4. QED
      BY <3>1, <3>2, <3>3 DEF CopyInv, CopySteps
  <2>7. CurrentComplete'
    BY <2>1 DEF CurrentComplete, root
  <2>8. QED
    BY <2>3, <2>4, <2>5, <2>6, <2>7
<1>3. QED
  BY <1>1, <1>2

LEMMA SymlinkStep ==
  ASSUME IInv, NEW p \in Process, Symlink(p)
  PROVE  IInv'
<1>0. pc[p] = "symlink" /\ pc[p] \in CopySteps
  BY DEF Symlink, CopySteps
<1>1. Part(p) \in Component /\ Target(p) \in Version
  BY <1>0, PartType DEF IInv
<1>2. CASE Return(p)
  <2>1. UNCHANGED <<current, previous, tree, aside, unsynced, writable, holder,
                    rebooting, req, scratch, stashed, copied, dropped>>
    BY DEF Symlink, host
  <2>2. pending' \in [Component -> Version \cup {None}]
    BY <1>1 DEF Symlink, IInv, TypeOK
  <2>3. faults' \in 0..MaxFaults /\ kills' \in 0..MaxKills
    BY FaultType DEF Symlink, IInv, TypeOK, tally
  <2>4. QED
    BY <1>0, <1>2, <2>1, <2>2, <2>3, ReturnStep DEF IInv, TypeOK
<1>3. CASE ~Return(p)
  <2> USE DEF IInv
  <2>1. /\ UNCHANGED <<current, previous, tree, aside, host, req, todo, scratch,
                       stashed, copied, dropped, tally>>
        /\ pending' = [pending EXCEPT ![Part(p)] = Target(p)]
        /\ pc' = [pc EXCEPT ![p] = "mkdtemp"]
    BY <1>3 DEF Symlink, Goto
  <2>2. TypeOK'
    BY <1>1, <2>1 DEF TypeOK, Step, host, tally
  <2>3. LockInv'
    BY <1>0, <2>1 DEF LockInv, TypeOK, host
  <2>4. RunInv'
    BY <1>0, <2>1 DEF RunInv, CopySteps, Target, Part, TypeOK
  <2>5. CopyInv'
    <3>1. \A q \in Process \ {p} : pc'[q] \in {"idle", "flock"}
      BY <1>0, <2>1, Alone DEF TypeOK, CopySteps
    <3>2. Part(p)' = Part(p) /\ Target(p)' = Target(p) /\ pc'[p] = "mkdtemp"
      BY <2>1 DEF Part, Target, TypeOK
    <3>3. pending'[Part(p)] = Target(p) /\ Replaces(p)'
      BY <1>0, <1>1, <2>1, <3>2 DEF TypeOK, CopyInv, CopySteps, Replaces
    <3>4. QED
      BY <3>1, <3>2, <3>3 DEF CopyInv, CopySteps
  <2>6. CurrentComplete'
    BY <2>1 DEF CurrentComplete
  <2>7. QED
    BY <2>2, <2>3, <2>4, <2>5, <2>6
<1>4. QED
  BY <1>2, <1>3

\* A step of p inside CopyComponent, after the comparison: p keeps its
\* component and its version, the others have not taken the lock.
LEMMA Onward ==
  ASSUME IInv, NEW p \in Process, pc[p] \in CopySteps \ {"stat"},
         NEW s \in CopySteps \ {"stat"}, Goto(p, s),
         UNCHANGED <<req, todo, holder>>
  PROVE  /\ pc' \in [Process -> Step \cup {"idle"}]
         /\ pc'[p] = s
         /\ \A q \in Process \ {p} : pc'[q] \in {"idle", "flock"}
         /\ Part(p)' = Part(p) /\ Part(p) \in Component
         /\ Target(p)' = Target(p) /\ Target(p) \in Version
         /\ LockInv'
         /\ RunInv'
<1> USE DEF IInv
<1>1. pc' \in [Process -> Step \cup {"idle"}] /\ pc'[p] = s
  BY DEF Goto, TypeOK, CopySteps, Step
<1>2. \A q \in Process \ {p} : pc'[q] = pc[q] /\ pc'[q] \in {"idle", "flock"}
  BY Alone DEF Goto, TypeOK, CopySteps
<1>3. Part(p)' = Part(p) /\ Target(p)' = Target(p)
  BY DEF Part, Target
<1>4. Part(p) \in Component /\ Target(p) \in Version
  BY PartType
<1>5. LockInv'
  BY <1>1, <1>2 DEF LockInv, CopySteps
<1>6. RunInv'
  BY <1>1, <1>2, <1>3 DEF RunInv, CopySteps
<1>7. QED
  BY <1>1, <1>2, <1>3, <1>4, <1>5, <1>6

LEMMA MkdTempStep ==
  ASSUME IInv, NEW p \in Process, MkdTemp(p)
  PROVE  IInv'
<1> USE DEF IInv
<1>1. PICK s \in {"copy", "unlink"} : Goto(p, s)
  BY DEF MkdTemp
<1>2. /\ pc[p] = "mkdtemp"
      /\ UNCHANGED <<root, host, req, todo, stashed, copied, dropped>>
      /\ scratch' \in [Process -> Extent]
      /\ faults' \in 0..MaxFaults /\ kills' \in 0..MaxKills
  BY FaultType DEF MkdTemp, TypeOK, Extent, tally
<1>3. /\ pc' \in [Process -> Step \cup {"idle"}]
      /\ pc'[p] = s
      /\ \A q \in Process \ {p} : pc'[q] \in {"idle", "flock"}
      /\ Part(p)' = Part(p) /\ Target(p)' = Target(p)
      /\ LockInv' /\ RunInv'
  BY <1>1, <1>2, Onward DEF CopySteps, host
<1>4. TypeOK'
  BY <1>2, <1>3 DEF TypeOK, root, host
<1>5. CopyInv'
  BY <1>2, <1>3 DEF CopyInv, CopySteps, Replaces, root
<1>6. CurrentComplete'
  BY <1>2 DEF CurrentComplete, root
<1>7. QED
  BY <1>3, <1>4, <1>5, <1>6

LEMMA CopyTreeStep ==
  ASSUME IInv, NEW p \in Process, CopyTree(p)
  PROVE  IInv'
<1> USE DEF IInv
<1>1. PICK s \in {"stash", "unlink"} :
        Goto(p, s) /\ (s = "stash" => scratch'[p] = "complete")
  BY DEF CopyTree, TypeOK
<1>2. /\ pc[p] = "copy"
      /\ UNCHANGED <<root, host, req, todo, stashed, copied, dropped>>
      /\ scratch' \in [Process -> Extent]
      /\ faults' \in 0..MaxFaults /\ kills' \in 0..MaxKills
  BY FaultType DEF CopyTree, TypeOK, Extent, tally
<1>3. /\ pc' \in [Process -> Step \cup {"idle"}]
      /\ pc'[p] = s
      /\ \A q \in Process \ {p} : pc'[q] \in {"idle", "flock"}
      /\ Part(p)' = Part(p) /\ Target(p)' = Target(p)
      /\ LockInv' /\ RunInv'
  BY <1>1, <1>2, Onward DEF CopySteps, host
<1>4. TypeOK'
  BY <1>2, <1>3 DEF TypeOK, root, host
<1>5. CopyInv'
  BY <1>1, <1>2, <1>3 DEF CopyInv, CopySteps, Replaces, root
<1>6. CurrentComplete'
  BY <1>2 DEF CurrentComplete, root
<1>7. QED
  BY <1>3, <1>4, <1>5, <1>6

\* If the directory that moves to `.old` is the one `current` names, that one was
\* not recognised, and is whole.
LEMMA StashStep ==
  ASSUME IInv, NEW p \in Process, Stash(p)
  PROVE  IInv'
<1> USE DEF IInv
<1>0. PICK s \in {"install", "unlink"} : Goto(p, s)
  BY DEF Stash
<1>1. /\ pc[p] = "stash"
      /\ UNCHANGED <<current, previous, pending, host, req, todo, scratch, copied,
                     dropped>>
      /\ faults' \in 0..MaxFaults /\ kills' \in 0..MaxKills
      /\ stashed' \in [Process -> BOOLEAN]
  BY FaultType DEF Stash, TypeOK, tally
<1>2. /\ pc' \in [Process -> Step \cup {"idle"}]
      /\ pc'[p] = s
      /\ \A q \in Process \ {p} : pc'[q] \in {"idle", "flock"}
      /\ Part(p)' = Part(p) /\ Target(p)' = Target(p)
      /\ Part(p) \in Component /\ Target(p) \in Version
      /\ LockInv' /\ RunInv'
  BY <1>0, <1>1, Onward DEF CopySteps, host
<1>3. tree' \in [Component -> [Version -> Extent]]
  <2>1. tree \in [Component -> [Version -> Extent]] /\ "absent" \in Extent
    BY DEF TypeOK, Extent
  <2>2. [tree EXCEPT ![Part(p)][Target(p)] = "absent"]
          \in [Component -> [Version -> Extent]]
    BY <1>2, <2>1, PutType
  <2>3. QED
    BY <2>1, <2>2 DEF Stash, SetAside
<1>4. aside' \in [Component -> [Version -> Extent]]
  <2>1. /\ aside \in [Component -> [Version -> Extent]]
        /\ tree[Part(p)][Target(p)] \in Extent
    BY <1>2 DEF TypeOK
  <2>2. [aside EXCEPT ![Part(p)][Target(p)] = tree[Part(p)][Target(p)]]
          \in [Component -> [Version -> Extent]]
    BY <1>2, <2>1, PutType
  <2>3. QED
    BY <2>1, <2>2 DEF Stash, SetAside
<1>5. TypeOK'
  BY <1>1, <1>2, <1>3, <1>4 DEF TypeOK, host
<1>6. CopyInv'
  BY <1>1, <1>2 DEF CopyInv, CopySteps, Replaces
<1>7. CurrentComplete'
  <2>1. CASE UNCHANGED <<tree, aside>>
    BY <1>1, <2>1 DEF CurrentComplete
  <2>2. CASE tree[Part(p)][Target(p)] # "absent" /\ SetAside(p)
    <3>1. \A c \in Component, v \in Version :
            IF c = Part(p) /\ v = Target(p)
            THEN tree'[c][v] = "absent" /\ aside'[c][v] = tree[c][v]
            ELSE tree'[c][v] = tree[c][v] /\ aside'[c][v] = aside[c][v]
      BY <1>2, <2>2, PutAt DEF SetAside, TypeOK
    <3>2. current[Part(p)] = Target(p) => <<"stat", Part(p)>> \in dropped
      BY <1>1 DEF CopyInv, CopySteps, Replaces
    <3>3. ASSUME NEW c \in Component, current[c] # None
          PROVE  \/ tree'[c][current[c]] = "complete"
                 \/ /\ <<"stat", c>> \in dropped
                    /\ tree'[c][current[c]] = "absent"
                    /\ aside'[c][current[c]] = "complete"
      <4>1. current[c] \in Version
        BY <3>3 DEF TypeOK
      <4>2. QED
        BY <2>2, <3>1, <3>2, <3>3, <4>1 DEF CurrentComplete
    <3>4. QED
      BY <1>1, <3>3 DEF CurrentComplete
  <2>3. QED
    BY <2>1, <2>2 DEF Stash
<1>8. QED
  BY <1>2, <1>5, <1>6, <1>7

LEMMA InstallStep ==
  ASSUME IInv, NEW p \in Process, Install(p)
  PROVE  IInv'
<1> USE DEF IInv
<1>0. PICK s \in {"dropPrevious", "restore"} :
        /\ Goto(p, s)
        /\ s = "dropPrevious" =>
             tree' = [tree EXCEPT ![Part(p)][Target(p)] = scratch[p]]
        /\ s = "restore" => UNCHANGED tree
  BY DEF Install
<1>1. /\ pc[p] = "install"
      /\ UNCHANGED <<current, previous, pending, aside, writable, holder, rebooting,
                     req, todo, stashed, copied, dropped>>
      /\ faults' \in 0..MaxFaults /\ kills' \in 0..MaxKills
      /\ scratch' \in [Process -> Extent]
      /\ scratch[p] = "complete"
      /\ Replaces(p)
      /\ pending[Part(p)] = Target(p)
  BY FaultType DEF Install, TypeOK, tally, Extent, CopyInv, CopySteps
<1>2. /\ pc' \in [Process -> Step \cup {"idle"}]
      /\ pc'[p] = s
      /\ \A q \in Process \ {p} : pc'[q] \in {"idle", "flock"}
      /\ Part(p)' = Part(p) /\ Target(p)' = Target(p)
      /\ Part(p) \in Component /\ Target(p) \in Version
      /\ LockInv' /\ RunInv'
  BY <1>0, <1>1, Onward DEF CopySteps
<1>3. tree' \in [Component -> [Version -> Extent]]
  <2>1. tree \in [Component -> [Version -> Extent]] /\ scratch[p] \in Extent
    BY DEF TypeOK
  <2>2. QED
    BY <1>0, <1>2, <2>1
<1>4. unsynced' \subseteq Component \X Version
  BY <1>2 DEF Install, TypeOK
<1>5. TypeOK'
  BY <1>1, <1>2, <1>3, <1>4 DEF TypeOK
<1>6. CopyInv'
  <2>1. s = "dropPrevious" => tree'[Part(p)][Target(p)] = "complete"
    BY <1>0, <1>1, <1>2 DEF TypeOK
  <2>2. QED
    BY <1>1, <1>2, <2>1 DEF CopyInv, CopySteps, Replaces
<1>7. CurrentComplete'
  <2>1. CASE UNCHANGED tree
    BY <1>1, <2>1 DEF CurrentComplete
  <2>2. CASE tree' = [tree EXCEPT ![Part(p)][Target(p)] = "complete"]
    <3>1. \A c \in Component, v \in Version :
            tree'[c][v] = IF c = Part(p) /\ v = Target(p) THEN "complete" ELSE tree[c][v]
      BY <1>2, <2>2, PutAt DEF TypeOK
    <3>2. \A c \in Component : current[c] # None => current[c] \in Version
      BY DEF TypeOK
    <3>3. QED
      BY <1>1, <3>1, <3>2 DEF CurrentComplete
  <2>3. QED
    BY <1>0, <1>1, <2>1, <2>2
<1>8. QED
  BY <1>2, <1>5, <1>6, <1>7

\* A step that moves `previous` and nothing else on the disk.
LEMMA PreviousStep ==
  ASSUME IInv, NEW p \in Process, NEW s \in {"keepPrevious", "switch"}, Goto(p, s),
         pc[p] \in {"dropPrevious", "keepPrevious"},
         UNCHANGED <<current, pending, tree, aside, host, req, todo, scratch,
                     stashed, copied, dropped>>,
         previous' \in [Component -> Version \cup {None}],
         faults' \in 0..MaxFaults, kills' \in 0..MaxKills
  PROVE  IInv'
<1> USE DEF IInv
<1>1. /\ pc' \in [Process -> Step \cup {"idle"}]
      /\ pc'[p] = s
      /\ \A q \in Process \ {p} : pc'[q] \in {"idle", "flock"}
      /\ Part(p)' = Part(p) /\ Target(p)' = Target(p)
      /\ LockInv' /\ RunInv'
  BY Onward DEF CopySteps, host
<1>2. TypeOK'
  BY <1>1 DEF TypeOK, host
<1>3. CopyInv'
  BY <1>1 DEF CopyInv, CopySteps, Replaces
<1>4. CurrentComplete'
  BY DEF CurrentComplete
<1>5. QED
  BY <1>1, <1>2, <1>3, <1>4

LEMMA DropPreviousStep ==
  ASSUME IInv, NEW p \in Process, DropPrevious(p)
  PROVE  IInv'
<1>1. previous' \in [Component -> Version \cup {None}]
  BY DEF DropPrevious, IInv, TypeOK
<1>2. faults' \in 0..MaxFaults /\ kills' \in 0..MaxKills
  BY FaultType DEF DropPrevious, IInv, TypeOK, tally
<1>3. QED
  BY <1>1, <1>2, PreviousStep DEF DropPrevious

LEMMA KeepPreviousStep ==
  ASSUME IInv, NEW p \in Process, KeepPrevious(p)
  PROVE  IInv'
<1>1. previous' \in [Component -> Version \cup {None}]
  <2>1. Part(p) \in Component
    BY PartType DEF KeepPrevious, IInv, CopySteps
  <2>2. QED
    BY <2>1 DEF KeepPrevious, IInv, TypeOK
<1>2. faults' \in 0..MaxFaults /\ kills' \in 0..MaxKills
  BY FaultType DEF KeepPrevious, IInv, TypeOK, tally
<1>3. QED
  BY <1>1, <1>2, PreviousStep DEF KeepPrevious

\* The link moves to the version whose directory was renamed to its name.
LEMMA SwitchStep ==
  ASSUME IInv, NEW p \in Process, Switch(p)
  PROVE  IInv'
<1> USE DEF IInv
<1>1. /\ pc[p] = "switch"
      /\ UNCHANGED <<previous, tree, aside, host, todo, scratch, stashed>>
      /\ pc' = [pc EXCEPT ![p] = "restore"]
      /\ faults' \in 0..MaxFaults /\ kills' \in 0..MaxKills
  BY FaultType DEF Switch, Goto, TypeOK, tally
<1>2. /\ Part(p) \in Component /\ Target(p) \in Version /\ req[p] \in Request
      /\ pending[Part(p)] = Target(p)
      /\ tree[Part(p)][Target(p)] = "complete"
  BY <1>1, PartType DEF CopyInv, CopySteps
<1>3. \/ UNCHANGED <<current, pending, copied, req, dropped>>
      \/ /\ current' = [current EXCEPT ![Part(p)] = Target(p)]
         /\ pending' = [pending EXCEPT ![Part(p)] = None]
         /\ copied' = [copied EXCEPT ![p] = TRUE]
         /\ req' = [req EXCEPT ![p].remount = FALSE]
         /\ dropped' = dropped \ {<<"stat", Part(p)>>}
  BY <1>2 DEF Switch
<1>4. /\ req' \in [Process -> Request \cup {None}]
      /\ req'[p] \in Request
      /\ req'[p].source = req[p].source
      /\ \A q \in Process \ {p} : req'[q] = req[q]
  <2>1. [req[p] EXCEPT !.remount = FALSE] \in Request
    BY <1>2 DEF Request
  <2>2. [req[p] EXCEPT !.remount = FALSE].source = req[p].source
    BY <1>2 DEF Request
  <2>3. req \in [Process -> Request \cup {None}]
    BY DEF TypeOK
  <2>4. QED
    BY <1>2, <1>3, <2>1, <2>2, <2>3
<1>5. Part(p)' = Part(p) /\ Target(p)' = Target(p)
  BY <1>1, <1>4 DEF Part, Target
<1>6. /\ pc' \in [Process -> Step \cup {"idle"}]
      /\ pc'[p] = "restore"
      /\ \A q \in Process \ {p} : pc'[q] = pc[q] /\ pc'[q] \in {"idle", "flock"}
  BY <1>1, Alone DEF TypeOK, Step, CopySteps
<1>7. TypeOK'
  <2>1. current' \in [Component -> Version \cup {None}]
    BY <1>2, <1>3 DEF TypeOK
  <2>2. pending' \in [Component -> Version \cup {None}]
    BY <1>2, <1>3 DEF TypeOK
  <2>3. copied' \in [Process -> BOOLEAN]
    BY <1>3 DEF TypeOK
  <2>4. dropped' \subseteq Unchecked \X Component
    BY <1>3 DEF TypeOK
  <2>5. QED
    BY <1>1, <1>4, <1>6, <2>1, <2>2, <2>3, <2>4 DEF TypeOK, host
<1>8. LockInv'
  BY <1>1, <1>6 DEF LockInv, host
<1>9. RunInv'
  <2>1. Target(p) # None
    BY <1>2, NoneAssumption
  <2>2. todo'[p] # {}
    BY <1>1 DEF RunInv, CopySteps
  <2>3. QED
    BY <1>1, <1>4, <1>5, <1>6, <2>1, <2>2 DEF RunInv, CopySteps
<1>10. CopyInv'
  BY <1>6 DEF CopyInv, CopySteps
<1>11. CurrentComplete'
  <2>1. CASE UNCHANGED <<current, dropped>>
    BY <1>1, <2>1 DEF CurrentComplete
  <2>2. CASE /\ current' = [current EXCEPT ![Part(p)] = Target(p)]
             /\ dropped' = dropped \ {<<"stat", Part(p)>>}
    <3>1. \A c \in Component :
            IF c = Part(p)
            THEN tree'[c][current'[c]] = "complete"
            ELSE /\ current'[c] = current[c]
                 /\ <<"stat", c>> \in dropped => <<"stat", c>> \in dropped'
      BY <1>1, <1>2, <2>2 DEF TypeOK
    <3>2. QED
      BY <1>1, <3>1 DEF CurrentComplete
  <2>3. QED
    BY <1>3, <2>1, <2>2
<1>12. QED
  BY <1>7, <1>8, <1>9, <1>10, <1>11

\* `.old` goes back to a name that nothing has; if that is the one in use, it is
\* whole.
LEMMA RestoreStep ==
  ASSUME IInv, NEW p \in Process, Restore(p)
  PROVE  IInv'
<1> USE DEF IInv
<1>1. /\ pc[p] = "restore"
      /\ Goto(p, "unlink")
      /\ UNCHANGED <<current, previous, pending, host, req, todo, scratch, copied>>
      /\ stashed' \in [Process -> BOOLEAN]
      /\ Part(p) \in Component
      /\ dropped' \in SUBSET (Unchecked \X Component)
      /\ dropped \subseteq dropped'
      /\ faults' \in 0..MaxFaults /\ kills' \in 0..MaxKills
  <2>1. pc[p] = "restore" /\ Part(p) \in Component
    BY PartType DEF Restore, CopySteps
  <2>2. CASE Drop(p, "restore")
    BY <2>1, <2>2, DropType DEF Restore, TypeOK, Unchecked
  <2>3. CASE UNCHANGED <<dropped, tally>>
    BY <2>1, <2>3 DEF Restore, TypeOK, tally
  <2>4. QED
    BY <2>2, <2>3 DEF Restore
<1>2. /\ pc' \in [Process -> Step \cup {"idle"}]
      /\ pc'[p] = "unlink"
      /\ \A q \in Process \ {p} : pc'[q] \in {"idle", "flock"}
      /\ Part(p) \in Component /\ Target(p) \in Version
      /\ LockInv' /\ RunInv'
  BY <1>1, Onward DEF CopySteps, host
<1>3. /\ tree' \in [Component -> [Version -> Extent]]
      /\ aside' \in [Component -> [Version -> Extent]]
  <2>1. /\ tree \in [Component -> [Version -> Extent]]
        /\ aside \in [Component -> [Version -> Extent]]
        /\ aside[Part(p)][Target(p)] \in Extent
        /\ "absent" \in Extent
    BY <1>2 DEF TypeOK, Extent
  <2>2. \/ UNCHANGED <<tree, aside>>
        \/ /\ tree' = [tree EXCEPT ![Part(p)][Target(p)] = aside[Part(p)][Target(p)]]
           /\ aside' = [aside EXCEPT ![Part(p)][Target(p)] = "absent"]
    BY DEF Restore
  <2>3. /\ [tree EXCEPT ![Part(p)][Target(p)] = aside[Part(p)][Target(p)]]
             \in [Component -> [Version -> Extent]]
        /\ [aside EXCEPT ![Part(p)][Target(p)] = "absent"]
             \in [Component -> [Version -> Extent]]
    BY <1>2, <2>1, PutType
  <2>4. QED
    BY <2>1, <2>2, <2>3
<1>4. TypeOK'
  BY <1>1, <1>2, <1>3 DEF TypeOK, host
<1>5. CopyInv'
  BY <1>2 DEF CopyInv, CopySteps
<1>6. CurrentComplete'
  <2>1. CASE UNCHANGED <<tree, aside>>
    BY <1>1, <2>1 DEF CurrentComplete
  <2>2. CASE /\ tree[Part(p)][Target(p)] = "absent"
             /\ tree' = [tree EXCEPT ![Part(p)][Target(p)] = aside[Part(p)][Target(p)]]
             /\ aside' = [aside EXCEPT ![Part(p)][Target(p)] = "absent"]
    <3>1. \A c \in Component, v \in Version :
            IF c = Part(p) /\ v = Target(p)
            THEN tree'[c][v] = aside[c][v]
            ELSE tree'[c][v] = tree[c][v] /\ aside'[c][v] = aside[c][v]
      BY <1>2, <2>2, PutAt DEF TypeOK
    <3>2. \A c \in Component : current[c] # None => current[c] \in Version
      BY DEF TypeOK
    <3>3. QED
      BY <1>1, <2>2, <3>1, <3>2 DEF CurrentComplete
  <2>3. QED
    BY <2>1, <2>2 DEF Restore
<1>7. QED
  BY <1>2, <1>4, <1>5, <1>6

LEMMA UnlinkStep ==
  ASSUME IInv, NEW p \in Process, Unlink(p)
  PROVE  IInv'
<1>1. pc[p] \in CopySteps /\ Return(p)
  BY DEF Unlink, CopySteps
<1>2. Part(p) \in Component
  BY <1>1, PartType DEF IInv
<1>3. /\ pending' \in [Component -> Version \cup {None}]
      /\ scratch' \in [Process -> Extent]
  BY <1>2 DEF Unlink, IInv, TypeOK, Extent
<1>4. /\ dropped' \in SUBSET (Unchecked \X Component)
      /\ dropped \subseteq dropped'
      /\ faults' \in 0..MaxFaults /\ kills' \in 0..MaxKills
  <2>1. CASE Drop(p, "unlink")
    BY <1>2, <2>1, DropType DEF Unchecked, IInv
  <2>2. CASE UNCHANGED <<dropped, tally>>
    BY <2>2 DEF IInv, TypeOK, tally
  <2>3. QED
    BY <2>1, <2>2 DEF Unlink
<1>5. QED
  BY <1>1, <1>3, <1>4, ReturnStep DEF Unlink, IInv, TypeOK, host

LEMMA SyncStep ==
  ASSUME IInv, NEW p \in Process, Sync(p)
  PROVE  IInv'
<1>1. unsynced' \in SUBSET (Component \X Version)
  BY DEF Sync, IInv, TypeOK
<1>2. CASE Gone({p})
  BY <1>1, <1>2, GoneStep DEF Sync, IInv, TypeOK, tally
<1>3. CASE ~Gone({p})
  <2> USE DEF IInv
  <2>1. /\ pc[p] = "sync"
        /\ pc' = [pc EXCEPT ![p] = "reboot"]
        /\ UNCHANGED <<root, writable, rebooting, holder, req, todo, scratch,
                       stashed, copied, dropped, tally>>
    BY <1>3 DEF Sync, Goto
  <2>2. TypeOK'
    BY <1>1, <2>1 DEF TypeOK, Step, root, tally
  <2>3. LockInv'
    BY <2>1 DEF LockInv, TypeOK
  <2>4. RunInv'
    BY <2>1 DEF RunInv, CopySteps, Target, Part, TypeOK
  <2>5. CopyInv'
    BY <2>1 DEF CopyInv, CopySteps, Replaces, Target, Part, TypeOK, root
  <2>6. CurrentComplete'
    BY <2>1 DEF CurrentComplete, root
  <2>7. QED
    BY <2>2, <2>3, <2>4, <2>5, <2>6
<1>4. QED
  BY <1>2, <1>3

LEMMA RebootStep ==
  ASSUME IInv, NEW p \in Process, Reboot(p)
  PROVE  IInv'
  BY GoneStep, FaultType DEF Reboot, IInv, TypeOK, tally

LEMMA KillStep ==
  ASSUME IInv, NEW p \in Process, Kill(p)
  PROVE  IInv'
<1>1. kills' \in 0..MaxKills
  BY BoundsAssumption DEF Kill, IInv, TypeOK
<1>2. QED
  BY <1>1, GoneStep DEF Kill, IInv, TypeOK

LEMMA RestartStep ==
  ASSUME IInv, Restart
  PROVE  IInv'
<1>1. kills' \in 0..MaxKills
  BY BoundsAssumption DEF Restart, IInv, TypeOK
<1>2. QED
  BY <1>1, GoneStep DEF Restart, IInv, TypeOK
-----------------------------------------------------------------------------
(* The invariant holds in every state.                                     *)

LEMMA InitIInv ==
  ASSUME Init
  PROVE  IInv
<1>1. TypeOK
  <2>1. tree \in [Component -> [Version -> Extent]]
    BY DEF Init, Extent
  <2>2. aside \in [Component -> [Version -> Extent]]
    BY DEF Init, Extent
  <2>3. current \in [Component -> Version \cup {None}]
    BY FactoryAssumption DEF Init
  <2>4. /\ pc \in [Process -> Step \cup {"idle"}]
        /\ scratch \in [Process -> Extent]
        /\ faults \in 0..MaxFaults /\ kills \in 0..MaxKills
    BY BoundsAssumption DEF Init, Extent
  <2>5. QED
    BY <2>1, <2>2, <2>3, <2>4 DEF Init, TypeOK
<1>2. LockInv
  BY NoneAssumption DEF Init, LockInv
<1>3. RunInv /\ CopyInv
  BY DEF Init, RunInv, CopyInv, CopySteps
<1>4. CurrentComplete
  BY FactoryAssumption DEF Init, CurrentComplete
<1>5. QED
  BY <1>1, <1>2, <1>3, <1>4 DEF IInv

LEMMA NextIInv ==
  ASSUME IInv, [Next]_vars
  PROVE  IInv'
<1>1. ASSUME NEW p \in Process, Start(p)
      PROVE  IInv'
  BY <1>1, StartStep
<1>2. ASSUME NEW p \in Process, Advance(p)
      PROVE  IInv'
  BY <1>2, LockStep, StatStep, SymlinkStep, MkdTempStep, CopyTreeStep, StashStep,
     InstallStep, DropPreviousStep, KeepPreviousStep, SwitchStep, RestoreStep,
     UnlinkStep, SyncStep, RebootStep
     DEF Advance
<1>3. ASSUME NEW p \in Process, Kill(p)
      PROVE  IInv'
  BY <1>3, KillStep
<1>4. CASE Restart
  BY <1>4, RestartStep
<1>5. CASE UNCHANGED vars
  <2> USE DEF IInv
  <2>1. UNCHANGED <<root, host, runs, dropped, tally>>
    BY <1>5 DEF vars
  <2>2. TypeOK'
    BY <2>1 DEF TypeOK, root, host, runs, tally
  <2>3. LockInv' /\ RunInv'
    BY <2>1 DEF LockInv, RunInv, Target, Part, host, runs
  <2>4. CopyInv' /\ CurrentComplete'
    BY <2>1 DEF CopyInv, Replaces, CurrentComplete, Target, Part, root, runs
  <2>5. QED
    BY <2>2, <2>3, <2>4
<1>6. QED
  BY <1>1, <1>2, <1>3, <1>4, <1>5 DEF Next

\* What a run at each of its steps knows about the disk and the lock holds in
\* every reachable state, however runs, faults and kills interleave.
THEOREM Invariance == Spec => []IInv
<1>1. Init => IInv
  BY InitIInv
<1>2. IInv /\ [Next]_vars => IInv'
  BY NextIInv
<1>3. QED
  BY <1>1, <1>2, PTL DEF Spec

\* Every variable keeps its type.
THEOREM TypeCorrect == Spec => []TypeOK
<1>1. IInv => TypeOK
  BY DEF IInv
<1>2. QED
  BY <1>1, Invariance, PTL

\* The version `current` names is there in full in every state: what boots is
\* never a half-copied directory, a missing one, or one moved to `.old`.
THEOREM CurrentAlwaysComplete == Spec => []CurrentComplete
<1>1. IInv => CurrentComplete
  BY DEF IInv
<1>2. QED
  BY <1>1, Invariance, PTL

\* flock keeps all but one run out of CopyComponent and of the sync and reboot
\* that follow it.
OneAtWork ==
  \A p, q \in Process :
    (pc[p] \notin {"idle", "flock"} /\ pc[q] \notin {"idle", "flock"}) => p = q

THEOREM MutualExclusion == Spec => []OneAtWork
<1>1. IInv => OneAtWork
  BY DEF IInv, LockInv, OneAtWork
<1>2. QED
  BY <1>1, Invariance, PTL
-----------------------------------------------------------------------------
(* Nothing is rebooted unsynced.                                           *)

\* What Return and Gone leave of the control state of every run.
LEMMA ReturnPc ==
  ASSUME TypeOK, NEW p \in Process, Return(p)
  PROVE  /\ pc'[p] # "reboot"
         /\ \A q \in Process \ {p} : pc'[q] = pc[q]
  BY DEF Return, Goto, TypeOK

LEMMA GonePc ==
  ASSUME NEW P \in SUBSET Process, Gone(P)
  PROVE  \A q \in Process : IF q \in P THEN pc'[q] = "idle"
                                        ELSE pc'[q] = pc[q] /\ req'[q] = req[q]
  BY DEF Gone

LEMMA SyncedStep ==
  ASSUME IInv, SyncedBeforeReboot, [Next]_vars
  PROVE  SyncedBeforeReboot'
<1> DEFINE Quiet == /\ unsynced' = unsynced \/ unsynced' = {}
                    /\ \A q \in Process :
                         pc'[q] = "reboot" => pc[q] = "reboot" /\ req'[q] = req[q]
<1>1. Quiet => SyncedBeforeReboot'
  BY DEF SyncedBeforeReboot
<1>2. ASSUME NEW p \in Process, Start(p)
      PROVE  Quiet
  BY <1>2 DEF Start, Goto, IInv, TypeOK, host
<1>3. ASSUME NEW p \in Process, Lock(p)
      PROVE  Quiet
  <2>1. CASE Gone({p})
    BY <1>3, <2>1, GonePc DEF Lock
  <2>2. CASE ~Gone({p})
    BY <1>3, <2>2 DEF Lock, Goto, IInv, TypeOK
  <2>3. QED
    BY <2>1, <2>2
<1>4. ASSUME NEW p \in Process,
             Stat(p) \/ Symlink(p) \/ Unlink(p)
      PROVE  Quiet
  <2>1. UNCHANGED <<unsynced, req>>
    BY <1>4 DEF Stat, Symlink, Unlink, host
  <2>2. CASE Return(p)
    BY <2>1, <2>2, ReturnPc DEF IInv
  <2>3. CASE ~Return(p)
    BY <1>4, <2>1, <2>3 DEF Stat, Begin, Symlink, Unlink, Goto, IInv, TypeOK
  <2>4. QED
    BY <2>2, <2>3
<1>5. ASSUME NEW p \in Process,
             MkdTemp(p) \/ CopyTree(p) \/ Stash(p) \/ DropPrevious(p)
               \/ KeepPrevious(p) \/ Restore(p)
      PROVE  Quiet
  <2>1. UNCHANGED <<unsynced, req>>
    BY <1>5 DEF MkdTemp, CopyTree, Stash, DropPrevious, KeepPrevious, Restore, host
  <2>2. PICK s \in CopySteps : pc' = [pc EXCEPT ![p] = s]
    BY <1>5 DEF MkdTemp, CopyTree, Stash, DropPrevious, KeepPrevious, Restore,
                Goto, CopySteps
  <2>3. QED
    BY <2>1, <2>2 DEF CopySteps, IInv, TypeOK
<1>6. ASSUME NEW p \in Process, Switch(p)
      PROVE  Quiet
  BY <1>6 DEF Switch, Goto, IInv, TypeOK, host
<1>7. ASSUME NEW p \in Process, Install(p) \/ Sync(p)
      PROVE  SyncedBeforeReboot'
  <2>1. pc[p] \notin {"idle", "flock"}
    BY <1>7 DEF Install, Sync
  <2>2. \A q \in Process \ {p} : pc[q] # "reboot"
    BY <2>1, Alone DEF IInv
  <2>3. CASE Install(p)
    <3>1. PICK s \in CopySteps : pc' = [pc EXCEPT ![p] = s]
      BY <2>3 DEF Install, Goto, CopySteps
    <3>2. \A q \in Process : pc'[q] # "reboot"
      BY <2>2, <3>1 DEF IInv, TypeOK, CopySteps
    <3>3. QED
      BY <3>2 DEF SyncedBeforeReboot
  <2>4. CASE Sync(p) /\ Gone({p})
    BY <2>2, <2>4, GonePc DEF SyncedBeforeReboot
  <2>5. CASE Sync(p) /\ ~Gone({p})
    BY <2>2, <2>5 DEF Sync, Goto, IInv, TypeOK, SyncedBeforeReboot
  <2>6. QED
    BY <1>7, <2>3, <2>4, <2>5
<1>8. ASSUME NEW p \in Process, Reboot(p) \/ Kill(p)
      PROVE  Quiet
  BY <1>8, GonePc DEF Reboot, Kill
<1>9. CASE Restart
  BY <1>1, <1>9, GonePc DEF Restart
<1>10. CASE UNCHANGED vars
  BY <1>1, <1>10 DEF vars, host, runs
<1>11. QED
  BY <1>1, <1>2, <1>3, <1>4, <1>5, <1>6, <1>7, <1>8, <1>9, <1>10 DEF Next, Advance

\* A run that is about to reboot after a sync leaves nothing only in the page
\* cache, whatever the runs before it and beside it did.
THEOREM RebootsSynced == Spec => []SyncedBeforeReboot
<1>1. Init => SyncedBeforeReboot
  BY DEF Init, SyncedBeforeReboot
<1>2. IInv /\ SyncedBeforeReboot /\ [Next]_vars => SyncedBeforeReboot'
  BY SyncedStep
<1>3. QED
  BY <1>1, <1>2, Invariance, PTL DEF Spec
-----------------------------------------------------------------------------
(* A version that is to boot does not wait for somebody else's sync.       *)

AllSync == \A r \in Requests : r.sync

\* Run does not change what it was asked for, --sync least of all.
AsksSync == AllSync => \A p \in Process : pc[p] # "idle" => req[p].sync

\* The disk has every version that `current` names, and that was recognised.
OnDisk ==
  \A c \in Component :
    <<c, current[c]>> \in unsynced => <<"stat", c>> \in dropped

\* The window between switch and sync: a run that has switched is at work.
Window == holder # None /\ copied[holder] /\ pc[holder] # "reboot"

LEMMA DurableMeans ==
  CurrentDurable <=> (kills = 0 /\ AllSync => OnDisk \/ Window)
  BY DEF CurrentDurable, AllSync, OnDisk, Window

LEMMA AsksSyncStep ==
  ASSUME IInv, AsksSync, [Next]_vars
  PROVE  AsksSync'
<1> DEFINE Same == \A q \in Process :
                     pc'[q] # "idle" => pc[q] # "idle" /\ req'[q] = req[q]
<1>1. Same => AsksSync'
  BY DEF AsksSync, AllSync
<1>2. ASSUME NEW p \in Process, Start(p)
      PROVE  AsksSync'
  <2>1. PICK r \in Requests : req' = [req EXCEPT ![p] = r]
    BY <1>2 DEF Start
  <2>2. \A q \in Process : q # p => pc'[q] = pc[q] /\ req'[q] = req[q]
    BY <1>2, <2>1 DEF Start, Goto, IInv, TypeOK
  <2>3. req'[p] = r
    BY <2>1 DEF IInv, TypeOK
  <2>4. QED
    BY <2>2, <2>3 DEF AsksSync, AllSync
<1>3. ASSUME NEW p \in Process,
             \/ Lock(p) \/ Stat(p) \/ Symlink(p) \/ MkdTemp(p) \/ CopyTree(p)
             \/ Stash(p) \/ Install(p) \/ DropPrevious(p) \/ KeepPrevious(p)
             \/ Restore(p) \/ Unlink(p) \/ Sync(p) \/ Reboot(p) \/ Kill(p)
      PROVE  AsksSync'
  <2>1. CASE Gone({p})
    BY <1>1, <2>1, GonePc
  <2>2. CASE ~Gone({p})
    <3>1. UNCHANGED req /\ pc[p] # "idle"
      BY <1>3, <2>2 DEF Lock, Stat, Symlink, MkdTemp, CopyTree, Stash, Install,
           DropPrevious, KeepPrevious, Restore, Unlink, Sync, Reboot, Kill
    <3>2. \A q \in Process : q # p => pc'[q] = pc[q]
      BY <1>3, <2>2 DEF Lock, Stat, Symlink, MkdTemp, CopyTree, Stash, Install,
           DropPrevious, KeepPrevious, Restore, Unlink, Sync, Reboot, Kill,
           Begin, Return, Goto, IInv, TypeOK
    <3>3. QED
      BY <1>1, <3>1, <3>2
  <2>3. QED
    BY <2>1, <2>2
<1>4. ASSUME NEW p \in Process, Switch(p)
      PROVE  AsksSync'
  <2>1. pc[p] # "idle" /\ req[p] \in Request
    BY <1>4 DEF Switch, IInv, RunInv
  <2>2. req' \in {req, [req EXCEPT ![p].remount = FALSE]}
    BY <1>4 DEF Switch
  <2>3. req'[p].sync = req[p].sync
    BY <2>1, <2>2 DEF IInv, TypeOK, Request
  <2>4. \A q \in Process : q # p => pc'[q] = pc[q] /\ req'[q] = req[q]
    BY <1>4, <2>2 DEF Switch, Goto, IInv, TypeOK
  <2>5. QED
    BY <2>1, <2>3, <2>4 DEF AsksSync, AllSync
<1>5. CASE Restart
  BY <1>1, <1>5, GonePc DEF Restart
<1>6. CASE UNCHANGED vars
  BY <1>1, <1>6 DEF vars, runs
<1>7. QED
  BY <1>2, <1>3, <1>4, <1>5, <1>6 DEF Next, Advance

\* A step that moves no link and installs nothing, of whoever is at work or of
\* a run that has not taken the lock.
LEMMA DurableKept ==
  ASSUME CurrentDurable, UNCHANGED <<current, unsynced>>, kills' = 0 => kills = 0,
         dropped \subseteq dropped',
         Window => Window'
  PROVE  CurrentDurable'
  BY DurableMeans DEF CurrentDurable, AllSync, OnDisk, Window

LEMMA DurableStep ==
  ASSUME IInv, AsksSync, CurrentDurable, [Next]_vars
  PROVE  CurrentDurable'
<1> DEFINE D == kills' = 0 /\ AllSync => OnDisk' \/ Window'
<1>0. D => CurrentDurable'
  BY DEF CurrentDurable, AllSync, OnDisk, Window
<1>1. faults \in Nat /\ kills \in Nat /\ (Fault \/ UNCHANGED tally => kills' = kills)
  BY BoundsAssumption DEF IInv, TypeOK, Fault, tally
<1>2. ASSUME NEW p \in Process, Start(p) \/ (Lock(p) /\ holder # None)
      PROVE  CurrentDurable'
  <2>1. holder # p
    BY <1>2 DEF Start, Lock, IInv, LockInv
  <2>2. UNCHANGED <<current, unsynced, holder, dropped, kills>>
    BY <1>2, <2>1 DEF Start, Lock, Gone, root, host, tally
  <2>3. holder # None => pc'[holder] = pc[holder] /\ copied'[holder] = copied[holder]
    <3>1. CASE Start(p)
      BY <2>1, <3>1 DEF Start, Goto, IInv, TypeOK
    <3>2. CASE Gone({p})
      BY <2>1, <3>2 DEF Gone, IInv, TypeOK
    <3>3. QED
      BY <1>2, <3>1, <3>2 DEF Lock
  <2>4. QED
    BY <2>2, <2>3, DurableKept DEF Window
<1>3. ASSUME NEW p \in Process, Lock(p), holder = None
      PROVE  CurrentDurable'
  BY <1>3, DurableKept DEF Lock, Window, root, tally
<1>4. ASSUME NEW p \in Process,
             \/ Stat(p) \/ Symlink(p) \/ MkdTemp(p) \/ CopyTree(p) \/ Stash(p)
             \/ DropPrevious(p) \/ KeepPrevious(p) \/ Restore(p) \/ Unlink(p)
      PROVE  CurrentDurable'
  <2>1. /\ UNCHANGED <<current, unsynced, holder, copied>>
        /\ Fault \/ UNCHANGED tally
        /\ dropped \subseteq dropped'
        /\ pc[p] \in CopySteps
    BY <1>4 DEF Stat, Symlink, MkdTemp, CopyTree, Stash, DropPrevious,
                KeepPrevious, Restore, Unlink, Drop, root, host, CopySteps
  <2>2. holder = p
    BY <2>1 DEF IInv, LockInv, CopySteps
  <2>3. pc'[p] # "reboot"
    <3>1. CASE Return(p)
      BY <3>1, ReturnPc DEF IInv
    <3>2. CASE ~Return(p)
      <4>1. PICK s \in CopySteps : Goto(p, s)
        BY <1>4, <3>2 DEF Stat, Begin, Symlink, MkdTemp, CopyTree, Stash, DropPrevious,
                          KeepPrevious, Restore, Unlink, CopySteps
      <4>2. QED
        BY <4>1 DEF Goto, CopySteps, IInv, TypeOK
    <3>3. QED
      BY <3>1, <3>2
  <2>4. QED
    BY <1>1, <2>1, <2>2, <2>3, DurableKept DEF Window
<1>5. ASSUME NEW p \in Process, Install(p)
      PROVE  CurrentDurable'
  <2>1. /\ UNCHANGED <<current, holder, copied, dropped>>
        /\ kills' = kills
        /\ unsynced' \in {unsynced, unsynced \cup {<<Part(p), Target(p)>>}}
    BY <1>1, <1>5 DEF Install
  <2>2. holder = p /\ Replaces(p)
    BY <1>5 DEF Install, IInv, LockInv, CopyInv, CopySteps
  <2>3. pc'[p] # "reboot"
    BY <1>5 DEF Install, Goto, IInv, TypeOK
  <2>4. OnDisk => OnDisk'
    BY <2>1, <2>2 DEF OnDisk, Replaces
  <2>5. QED
    BY <1>0, <2>1, <2>2, <2>3, <2>4, DurableMeans DEF Window
<1>6. ASSUME NEW p \in Process, Switch(p)
      PROVE  CurrentDurable'
  <2>1. /\ UNCHANGED <<holder, unsynced>>
        /\ pc'[p] = "restore"
        /\ holder = p
    BY <1>6 DEF Switch, Goto, host, IInv, TypeOK, LockInv
  <2>2. CASE UNCHANGED <<current, copied, dropped>> /\ Fault
    BY <1>1, <2>1, <2>2, DurableKept DEF Window
  <2>3. CASE copied' = [copied EXCEPT ![p] = TRUE]
    <3>1. Window'
      BY <2>1, <2>3, NoneAssumption DEF Window, IInv, TypeOK
    <3>2. QED
      BY <1>0, <3>1
  <2>4. QED
    BY <1>6, <2>2, <2>3 DEF Switch
<1>7. ASSUME NEW p \in Process, Sync(p)
      PROVE  CurrentDurable'
  <2>1. /\ UNCHANGED <<current, dropped, kills>>
        /\ holder = p /\ pc[p] # "idle"
        /\ unsynced' = IF copied[p] /\ req[p].sync THEN {} ELSE unsynced
    BY <1>7 DEF Sync, root, tally, IInv, LockInv
  <2>2. ASSUME kills' = 0, AllSync
        PROVE  OnDisk'
    <3>1. CASE copied[p]
      BY <2>1, <2>2, <3>1 DEF AsksSync, OnDisk
    <3>2. CASE ~copied[p]
      BY <2>1, <2>2, <3>2, DurableMeans DEF Window, OnDisk
    <3>3. QED
      BY <3>1, <3>2
  <2>3. QED
    BY <1>0, <2>2
<1>8. ASSUME NEW p \in Process, Reboot(p)
      PROVE  CurrentDurable'
  <2>1. /\ UNCHANGED <<current, unsynced, dropped>>
        /\ Fault \/ UNCHANGED tally
        /\ holder = p /\ pc[p] = "reboot"
    BY <1>8 DEF Reboot, root, IInv, LockInv
  <2>2. QED
    BY <1>1, <2>1, DurableKept DEF Window
<1>9. ASSUME NEW p \in Process, Kill(p)
      PROVE  CurrentDurable'
  BY <1>1, <1>9 DEF Kill, CurrentDurable
<1>10. CASE Restart
  BY <1>10 DEF Restart, CurrentDurable
<1>11. CASE UNCHANGED vars
  BY <1>11, DurableKept DEF vars, root, host, runs, tally, Window
<1>12. QED
  BY <1>2, <1>3, <1>4, <1>5, <1>6, <1>7, <1>8, <1>9, <1>10, <1>11 DEF Next, Advance

\* Where every request says --sync and none is killed, what `current` names is
\* on the disk except while the run that moved a link holds the lock and has
\* yet to sync, however many runs, faults and reboots there were.
THEOREM CurrentIsDurable == Spec => []CurrentDurable
<1>1. Init => AsksSync /\ CurrentDurable
  BY DEF Init, AsksSync, CurrentDurable
<1>2. IInv /\ AsksSync /\ CurrentDurable /\ [Next]_vars => AsksSync' /\ CurrentDurable'
  BY AsksSyncStep, DurableStep
<1>3. QED
  BY <1>1, <1>2, Invariance, PTL DEF Spec
-----------------------------------------------------------------------------
(* The deferred calls leave nothing behind.                                *)

\* From its os.Symlink to the removal of current.tmp, and from its rename to
\* `.old` to the rename back.
LinkSteps == CopySteps \ {"stat", "symlink"}
HoldSteps == {"install", "dropPrevious", "keepPrevious", "switch", "restore"}

Holds(p, c, v) ==
  pc[p] \in HoldSteps /\ stashed[p] /\ Part(p) = c /\ Target(p) = v

\* As long as no run was cut short, a current.tmp and a version that exists only
\* as `.old` belong to a run that has yet to execute its deferred calls, or to one
\* whose deferred call failed.
Forgiven(call, c) == <<call, c>> \in dropped

CleanInv ==
  kills = 0 =>
    \A c \in Component :
      /\ pending[c] # None =>
           Forgiven("unlink", c) \/ \E p \in Process : OwnsLink(p, c)
      /\ \A v \in Version :
           (aside[c][v] # "absent" /\ tree[c][v] = "absent") =>
             Forgiven("restore", c) \/ \E p \in Process : Holds(p, c, v)

\* The same, when p is the run at work; and when none has anything to undo.
TidyBut(p) ==
  /\ \A c \in Component :
       pending[c] # None =>
         Forgiven("unlink", c) \/ (c = Part(p) /\ pc[p] \in LinkSteps)
  /\ \A c \in Component, v \in Version :
       (aside[c][v] # "absent" /\ tree[c][v] = "absent") =>
         Forgiven("restore", c) \/ Holds(p, c, v)

Tidy ==
  /\ \A c \in Component : pending[c] # None => Forgiven("unlink", c)
  /\ \A c \in Component, v \in Version :
       (aside[c][v] # "absent" /\ tree[c][v] = "absent") => Forgiven("restore", c)

LEMMA TidyClean ==
  ASSUME Tidy' \/ \E p \in Process : TidyBut(p)'
  PROVE  CleanInv'
  BY DEF Tidy, TidyBut, CleanInv, OwnsLink, LinkSteps, CopySteps

LEMMA CleanTidy ==
  ASSUME IInv, CleanInv, kills = 0, NEW p \in Process, pc[p] \in CopySteps
  PROVE  TidyBut(p) /\ (pc[p] \in {"stat", "symlink"} => Tidy)
<1>1. \A q \in Process \ {p} : pc[q] \in {"idle", "flock"}
  BY Alone DEF IInv, CopySteps
<1>2. \A q \in Process, c \in Component :
        OwnsLink(q, c) => q = p /\ c = Part(p) /\ pc[p] \in LinkSteps
  BY <1>1 DEF OwnsLink, LinkSteps, CopySteps
<1>3. \A q \in Process, c \in Component, v \in Version :
        Holds(q, c, v) => q = p /\ pc[p] \in HoldSteps
  BY <1>1 DEF Holds, HoldSteps
<1>4. QED
  BY <1>2, <1>3 DEF CleanInv, TidyBut, Tidy, LinkSteps, HoldSteps

\* What was forgiven stays so.
LEMMA StillForgiven ==
  ASSUME dropped \subseteq dropped' \/ \E d \in Component : dropped' = dropped \ {<<"stat", d>>}
  PROVE  \A call \in {"restore", "unlink"}, c \in Component :
           Forgiven(call, c) => Forgiven(call, c)'
  BY DEF Forgiven

LEMMA BystanderClean ==
  ASSUME CleanInv, NEW p \in Process, pc[p] \notin LinkSteps,
         \A q \in Process \ {p} : /\ pc'[q] = pc[q] /\ todo'[q] = todo[q]
                                  /\ req'[q] = req[q] /\ stashed'[q] = stashed[q],
         UNCHANGED <<pending, tree, aside, dropped>>,
         kills' = 0 => kills = 0
  PROVE  CleanInv'
<1>1. ASSUME NEW q \in Process, NEW c \in Component, OwnsLink(q, c)
      PROVE  OwnsLink(q, c)'
  BY <1>1 DEF OwnsLink, LinkSteps, CopySteps, Part
<1>2. ASSUME NEW q \in Process, NEW c \in Component, NEW v \in Version,
             Holds(q, c, v)
      PROVE  Holds(q, c, v)'
  BY <1>2 DEF Holds, HoldSteps, LinkSteps, CopySteps, Part, Target
<1>3. QED
  BY <1>1, <1>2 DEF CleanInv, Forgiven

LEMMA CleanStep ==
  ASSUME IInv, CleanInv, [Next]_vars
  PROVE  CleanInv'
<1> USE DEF IInv
<1>1. ASSUME NEW p \in Process, Start(p)
      PROVE  CleanInv'
  BY <1>1, BystanderClean
     DEF Start, Goto, TypeOK, root, tally, LinkSteps, CopySteps
<1>2. ASSUME NEW p \in Process, Lock(p) \/ Sync(p) \/ Reboot(p)
      PROVE  CleanInv'
  <2>1. /\ pc[p] \notin LinkSteps
        /\ UNCHANGED <<pending, tree, aside, dropped, kills>>
    BY <1>2 DEF Lock, Sync, Reboot, Fault, root, tally, LinkSteps, CopySteps
  <2>2. \A q \in Process \ {p} : /\ pc'[q] = pc[q] /\ todo'[q] = todo[q]
                                 /\ req'[q] = req[q] /\ stashed'[q] = stashed[q]
    <3>1. CASE Gone({p})
      BY <3>1 DEF Gone
    <3>2. CASE ~Gone({p})
      <4>1. /\ \E s \in {"stat", "reboot", "done"} : Goto(p, s)
            /\ UNCHANGED <<todo, req, stashed>>
        BY <1>2, <3>2 DEF Lock, Sync, Reboot
      <4>2. QED
        BY <4>1 DEF Goto, TypeOK
    <3>3. QED
      BY <3>1, <3>2
  <2>3. QED
    BY <2>1, <2>2, BystanderClean
<1>3. ASSUME NEW p \in Process, Stat(p) \/ Symlink(p) \/ Unlink(p), kills' = 0
      PROVE  CleanInv'
  <2>1. /\ kills = 0
        /\ pc[p] \in CopySteps
        /\ UNCHANGED <<tree, aside, stashed, req>>
        /\ dropped \subseteq dropped'
    BY <1>3 DEF Stat, Symlink, Unlink, Drop, Fault, CopySteps, root, tally
  <2>2. /\ TidyBut(p) /\ (pc[p] \in {"stat", "symlink"} => Tidy)
        /\ Part(p) \in Component
    BY <2>1, CleanTidy, PartType
  <2>3. \A call \in {"restore", "unlink"}, c \in Component :
          Forgiven(call, c) => Forgiven(call, c)'
    BY <2>1, StillForgiven
  <2>4. CASE Stat(p) \/ (Symlink(p) /\ UNCHANGED pending)
    <3>1. Tidy /\ UNCHANGED pending
      BY <2>2, <2>4 DEF Stat, Symlink, root
    <3>2. Tidy'
      BY <2>1, <2>3, <3>1 DEF Tidy
    <3>3. QED
      BY <3>2, TidyClean
  <2>5. CASE Unlink(p)
    <3>1. pc[p] \notin HoldSteps
      BY <2>5 DEF Unlink, HoldSteps
    <3>2. \A c \in Component, v \in Version :
            (aside'[c][v] # "absent" /\ tree'[c][v] = "absent")
              => Forgiven("restore", c)'
      BY <2>1, <2>2, <2>3, <3>1 DEF TidyBut, Holds
    <3>3. ASSUME NEW c \in Component, pending'[c] # None
          PROVE  Forgiven("unlink", c)'
      <4>1. CASE pending' = [pending EXCEPT ![Part(p)] = None]
        <5>1. c # Part(p) /\ pending[c] # None
          BY <2>2, <3>3, <4>1 DEF TypeOK
        <5>2. QED
          BY <2>2, <2>3, <5>1 DEF TidyBut
      <4>2. CASE Drop(p, "unlink") /\ UNCHANGED pending
        BY <2>2, <2>3, <3>3, <4>2 DEF TidyBut, Drop, Forgiven
      <4>3. QED
        BY <2>5, <4>1, <4>2 DEF Unlink
    <3>4. QED
      BY <3>2, <3>3, TidyClean DEF Tidy
  <2>6. CASE Symlink(p) /\ ~ UNCHANGED pending
    <3>1. /\ pending' = [pending EXCEPT ![Part(p)] = Target(p)]
          /\ pc' = [pc EXCEPT ![p] = "mkdtemp"]
          /\ UNCHANGED <<todo, dropped>>
          /\ Tidy
      BY <2>2, <2>6 DEF Symlink, Goto
    <3>2. Part(p)' = Part(p) /\ pc'[p] = "mkdtemp"
      BY <3>1 DEF Part, TypeOK
    <3>3. TidyBut(p)'
      BY <2>1, <2>2, <2>3, <3>1, <3>2 DEF Tidy, TidyBut, LinkSteps, CopySteps, TypeOK
    <3>4. QED
      BY <3>3, TidyClean
  <2>7. QED
    BY <1>3, <2>4, <2>5, <2>6
<1>4. ASSUME NEW p \in Process, kills' = 0,
             MkdTemp(p) \/ CopyTree(p) \/ Stash(p) \/ Install(p) \/ DropPrevious(p)
               \/ KeepPrevious(p) \/ Switch(p) \/ Restore(p)
      PROVE  CleanInv'
  <2>1. PICK s \in LinkSteps : pc' = [pc EXCEPT ![p] = s]
    BY <1>4 DEF MkdTemp, CopyTree, Stash, Install, DropPrevious, KeepPrevious,
                Switch, Restore, Goto, LinkSteps, CopySteps
  <2>2. /\ kills = 0 /\ pc[p] \in CopySteps /\ pc[p] \in LinkSteps
        /\ todo' = todo
    BY <1>4 DEF MkdTemp, CopyTree, Stash, Install, DropPrevious, KeepPrevious,
                Switch, Restore, Drop, Fault, CopySteps, LinkSteps, tally
  <2>3. TidyBut(p)
    BY <2>2, CleanTidy
  <2>4. /\ pc'[p] = s
        /\ Part(p)' = Part(p) /\ Part(p) \in Component
        /\ Target(p) \in Version
    BY <2>1, <2>2, PartType DEF Part, TypeOK, LinkSteps
  <2>5. Target(p)' = Target(p)
    <3>1. req'[p].source = req[p].source
      <4>1. req \in [Process -> Request \cup {None}] /\ req[p] \in Request
        BY <2>2, PartType DEF TypeOK
      <4>2. req' = req \/ req' = [req EXCEPT ![p].remount = FALSE]
        BY <1>4 DEF MkdTemp, CopyTree, Stash, Install, DropPrevious,
                    KeepPrevious, Switch, Restore
      <4>3. QED
        BY <4>1, <4>2 DEF Request
    <3>2. QED
      BY <2>4, <3>1 DEF Target
  <2>6. \A call \in {"restore", "unlink"}, c \in Component :
          Forgiven(call, c) => Forgiven(call, c)'
    <3>1. \/ dropped \subseteq dropped'
          \/ dropped' = dropped \ {<<"stat", Part(p)>>}
      BY <1>4 DEF MkdTemp, CopyTree, Stash, Install, DropPrevious,
                  KeepPrevious, Switch, Restore, Drop
    <3>2. QED
      BY <2>4, <3>1, StillForgiven
  <2>7. \A c \in Component :
          pending'[c] # None =>
            Forgiven("unlink", c)' \/ (c = Part(p)' /\ pc'[p] \in LinkSteps)
    <3>1. \A c \in Component : pending'[c] # None => pending[c] # None
      BY <1>4, <2>4 DEF MkdTemp, CopyTree, Stash, Install, DropPrevious,
                KeepPrevious, Switch, Restore, root, TypeOK
    <3>2. QED
      BY <2>1, <2>3, <2>4, <2>6, <3>1 DEF TidyBut
  <2>8. ASSUME NEW c \in Component, NEW v \in Version,
               aside'[c][v] # "absent", tree'[c][v] = "absent",
               ~ Forgiven("restore", c)'
        PROVE  Holds(p, c, v)'
    <3>0. ~ Forgiven("restore", c)
      BY <2>8, <2>6
    <3>1. CASE Stash(p)
      <4>1. \/ UNCHANGED <<tree, aside>> /\ pc[p] \notin HoldSteps
            \/ /\ tree' = [tree EXCEPT ![Part(p)][Target(p)] = "absent"]
               /\ aside' = [aside EXCEPT ![Part(p)][Target(p)] =
                                                  tree[Part(p)][Target(p)]]
               /\ stashed' = [stashed EXCEPT ![p] = TRUE]
               /\ pc' = [pc EXCEPT ![p] = "install"]
               /\ pc[p] = "stash"
        BY <3>1 DEF Stash, SetAside, Goto, HoldSteps
      <4>2. c # Part(p) \/ v # Target(p) =>
              aside'[c][v] = aside[c][v] /\ tree'[c][v] = tree[c][v]
        BY <4>1 DEF TypeOK
      <4>3. ~ Holds(p, c, v)
        BY <4>1 DEF Holds, HoldSteps
      <4>4. tree[c][v] = "absent" => aside[c][v] = "absent"
        BY <2>3, <3>0, <4>3 DEF TidyBut
      <4>5. c = Part(p) /\ v = Target(p)
        BY <2>8, <4>2, <4>4
      <4>6. pc'[p] = "install" /\ stashed'[p] = TRUE
        BY <2>8, <4>1, <4>4 DEF TypeOK
      <4>7. QED
        BY <2>4, <2>5, <4>5, <4>6 DEF Holds, HoldSteps
    <3>2. CASE Install(p)
      <4>1. tree[c][v] = "absent"
        <5>1. tree'[c][v] = tree[c][v] \/ tree[c][v] = "absent"
          <6>1. \/ tree' = tree
                \/ /\ tree' = [tree EXCEPT ![Part(p)][Target(p)] = scratch[p]]
                   /\ tree[Part(p)][Target(p)] = "absent"
            BY <3>2 DEF Install
          <6>2. tree \in [Component -> [Version -> Extent]]
            BY DEF TypeOK
          <6>3. QED
            BY <2>4, <6>1, <6>2, PutAt
        <5>2. QED
          BY <2>8, <5>1
      <4>2. UNCHANGED <<aside, stashed>> /\ pc'[p] \in HoldSteps
        BY <2>4, <3>2 DEF Install, Goto, HoldSteps, TypeOK
      <4>3. Holds(p, c, v)
        BY <2>3, <2>8, <3>0, <4>1, <4>2 DEF TidyBut
      <4>4. QED
        BY <2>4, <2>5, <4>2, <4>3 DEF Holds
    <3>3. CASE Restore(p)
      <4>1. /\ tree'[c][v] = tree[c][v] \/ (c = Part(p) /\ v = Target(p))
            /\ aside'[c][v] = aside[c][v] \/ aside'[c][v] = "absent"
        <5>1. \/ UNCHANGED <<tree, aside>>
              \/ /\ tree' = [tree EXCEPT ![Part(p)][Target(p)] =
                                                  aside[Part(p)][Target(p)]]
                 /\ aside' = [aside EXCEPT ![Part(p)][Target(p)] = "absent"]
          BY <3>3 DEF Restore
        <5>2. /\ tree \in [Component -> [Version -> Extent]]
              /\ aside \in [Component -> [Version -> Extent]]
          BY DEF TypeOK
        <5>3. QED
          BY <2>4, <5>1, <5>2, PutAt
      <4>2. c = Part(p) /\ v = Target(p)
        BY <2>3, <2>8, <3>0, <4>1 DEF TidyBut, Holds
      <4>3. aside[c][v] = "absent" \/ stashed[p] \/ tree[c][v] # "absent"
        BY <2>3, <3>0, <4>2 DEF TidyBut, Holds
      <4>4. aside'[c][v] = "absent" \/ tree'[c][v] # "absent"
        <5>1. ~ Drop(p, "restore")
          BY <2>8, <4>2 DEF Drop, Forgiven
        <5>2. QED
          BY <2>4, <3>3, <4>2, <4>3, <5>1 DEF Restore, TypeOK
      <4>5. QED
        BY <2>8, <4>4
    <3>4. CASE MkdTemp(p) \/ CopyTree(p) \/ DropPrevious(p) \/ KeepPrevious(p)
                 \/ Switch(p)
      <4>1. UNCHANGED <<tree, aside, stashed>>
        BY <3>4 DEF MkdTemp, CopyTree, DropPrevious, KeepPrevious, Switch, root
      <4>2. pc[p] \in HoldSteps => pc'[p] \in HoldSteps
        BY <2>4, <3>4 DEF MkdTemp, CopyTree, DropPrevious, KeepPrevious, Switch,
                          Goto, HoldSteps, TypeOK
      <4>3. QED
        BY <2>3, <2>4, <2>5, <2>8, <3>0, <4>1, <4>2 DEF TidyBut, Holds
    <3>5. QED
      BY <1>4, <3>1, <3>2, <3>3, <3>4
  <2>9. TidyBut(p)'
    BY <2>7, <2>8 DEF TidyBut
  <2>10. QED
    BY <2>9, TidyClean
<1>5. ASSUME NEW p \in Process, Kill(p)
      PROVE  CleanInv'
  BY <1>5 DEF Kill, CleanInv, TypeOK
<1>6. CASE Restart
  <2>1. SUFFICES ASSUME kills' = 0
                 PROVE  CleanInv'
    BY DEF CleanInv
  <2>2. Active = {} /\ kills = 0 /\ UNCHANGED <<root, dropped>>
    BY <1>6, <2>1 DEF Restart, TypeOK
  <2>3. \A p \in Process : pc[p] = "idle"
    BY <2>2 DEF Active
  <2>4. Tidy'
    BY <2>2, <2>3 DEF CleanInv, OwnsLink, Holds, HoldSteps, Tidy, Forgiven, root
  <2>5. QED
    BY <2>4, TidyClean
<1>7. CASE UNCHANGED vars
  BY <1>7 DEF vars, root, runs, tally, CleanInv, OwnsLink, Holds, Forgiven, Part, Target
<1>8. QED
  <2>1. CASE kills' = 0
    BY <2>1, <1>1, <1>2, <1>3, <1>4, <1>5, <1>6, <1>7 DEF Next, Advance
  <2>2. CASE kills' # 0
    BY <2>2 DEF CleanInv
  <2>3. QED
    BY <2>1, <2>2

\* However CopyComponent ends, with a component skipped, failed at any call or
\* copied, nobody finds a current.tmp or a version that is only there as `.old`
\* once the lock is free: only a run cut short leaves them.
THEOREM CleanupAlwaysComplete == Spec => []CleanupComplete
<1>1. Init => CleanInv
  BY DEF Init, CleanInv
<1>2. IInv /\ CleanInv /\ [Next]_vars => CleanInv'
  BY CleanStep
<1>3. IInv /\ CleanInv => CleanupComplete
  <2>1. SUFFICES ASSUME IInv, CleanInv, holder = None, kills = 0
                 PROVE  Tidy
    BY DEF CleanupComplete, Tidy, Forgiven
  <2>2. \A p \in Process : pc[p] \in {"idle", "flock"}
    BY <2>1, NoneAssumption DEF IInv, LockInv
  <2>3. QED
    BY <2>1, <2>2 DEF CleanInv, OwnsLink, Holds, HoldSteps, Tidy
<1>4. QED
  BY <1>1, <1>2, <1>3, Invariance, PTL DEF Spec
-----------------------------------------------------------------------------
(* "MaculaOS Previous" boots something.                                    *)

\* The destination's components have a `current` and only they are worked on.
InstalledInv ==
  /\ \A c \in Installed : current[c] \in Version
  /\ \A p \in Process : pc[p] \in LinkSteps => Part(p) \in Installed

\* A fallback is owed for c: there is a `previous`, or c was upgraded.
Owed(c) == previous[c] # None \/ current[c] \notin {None, Factory}
Spared(c) == Owed(c) => Usable(c)

\* While p moves its component's directories and links, the fallback is on its
\* way: it may be the directory that p has just renamed and will replace; then
\* `previous` is gone, and then it names what `current` is about to leave.
Underway(p) ==
  LET c == Part(p) IN
  /\ pc[p] = "install" /\ Owed(c) =>
       /\ previous[c] \notin {None, current[c]}
       /\ previous[c] # Target(p) => tree[c][previous[c]] = "complete"
  /\ pc[p] = "install" => tree[c][Target(p)] = "absent"
  /\ pc[p] = "keepPrevious" => previous[c] = None
  /\ pc[p] = "switch" => previous[c] = current[c]
  /\ pc[p] = "restore" => tree[c][Target(p)] = "complete"

Moving(p, c) == pc[p] \in {"install", "keepPrevious", "switch"} /\ Part(p) = c

\* As long as no call failed and no run was cut short, every component that is
\* owed a fallback has one, or the run that will leave one is at work on it.
FallbackInv ==
  (faults = 0 /\ kills = 0) =>
    /\ \A c \in Component : Spared(c) \/ \E p \in Process : Moving(p, c)
    /\ \A p \in Process : Underway(p)

\* An error is dropped only where a call fails.
DroppedInv == faults = 0 => dropped = {}

LEMMA DroppedStep ==
  ASSUME IInv, DroppedInv, [Next]_vars
  PROVE  DroppedInv'
<1>1. faults \in Nat
  BY BoundsAssumption DEF IInv, TypeOK
<1>2. faults' # 0 \/ (faults' = faults /\ dropped' \subseteq dropped)
  <2>1. ASSUME NEW p \in Process, Start(p) \/ Lock(p) \/ Sync(p) \/ Kill(p)
        PROVE  faults' = faults /\ dropped' = dropped
    BY <2>1 DEF Start, Lock, Sync, Kill, tally
  <2>2. ASSUME NEW p \in Process,
               \/ Stat(p) \/ Symlink(p) \/ MkdTemp(p) \/ CopyTree(p) \/ Stash(p)
               \/ Install(p) \/ Reboot(p)
        PROVE  faults' = faults + 1 \/ (faults' = faults /\ dropped' = dropped)
    BY <2>2 DEF Stat, Symlink, MkdTemp, CopyTree, Stash, Install, Reboot, Drop, Fault,
                tally
  <2>3. ASSUME NEW p \in Process,
               \/ DropPrevious(p) \/ KeepPrevious(p) \/ Switch(p) \/ Restore(p)
               \/ Unlink(p)
        PROVE  faults' = faults + 1 \/ (faults' = faults /\ dropped' \subseteq dropped)
    BY <2>3 DEF DropPrevious, KeepPrevious, Switch, Restore, Unlink, Drop, Fault, tally
  <2>4. CASE Restart \/ UNCHANGED vars
    BY <2>4 DEF Restart, vars, tally
  <2>5. QED
    BY <1>1, <2>1, <2>2, <2>3, <2>4 DEF Next, Advance
<1>3. QED
  BY <1>2 DEF DroppedInv

LEMMA InstalledStep ==
  ASSUME IInv, InstalledInv, [Next]_vars
  PROVE  InstalledInv'
<1> USE DEF IInv
<1> DEFINE Still == /\ UNCHANGED current
                    /\ \A q \in Process : pc'[q] \in LinkSteps =>
                                            pc[q] \in LinkSteps /\ Part(q)' = Part(q)
<1>1. Still => InstalledInv'
  BY DEF InstalledInv
<1>2. ASSUME NEW p \in Process, Start(p)
      PROVE  Still
  BY <1>2 DEF Start, Goto, TypeOK, root, LinkSteps, CopySteps, Part
<1>3. ASSUME NEW p \in Process, Lock(p) \/ Sync(p) \/ Reboot(p) \/ Kill(p)
      PROVE  Still
  <2>1. UNCHANGED current
    BY <1>3 DEF Lock, Sync, Reboot, Kill, root
  <2>2. CASE Gone({p})
    BY <2>1, <2>2 DEF Gone, LinkSteps, CopySteps, Part
  <2>3. CASE ~Gone({p})
    BY <1>3, <2>1, <2>3
       DEF Lock, Sync, Reboot, Kill, Goto, TypeOK, LinkSteps, CopySteps, Part
  <2>4. QED
    BY <2>2, <2>3
<1>4. ASSUME NEW p \in Process, pc[p] \in CopySteps, Return(p), UNCHANGED current
      PROVE  Still
  BY <1>4, ReturnTo DEF LinkSteps, CopySteps, Part
<1>5. ASSUME NEW p \in Process, pc[p] \in LinkSteps, NEW s \in LinkSteps,
             Goto(p, s), UNCHANGED <<current, todo>>
      PROVE  Still
  BY <1>5 DEF Goto, TypeOK, Part, LinkSteps, CopySteps
<1>6. ASSUME NEW p \in Process, Stat(p)
      PROVE  Still
  <2>1. pc[p] \in CopySteps /\ UNCHANGED current
    BY <1>6 DEF Stat, root, CopySteps
  <2>2. CASE Return(p)
    BY <1>4, <2>1, <2>2
  <2>3. CASE ~Return(p)
    BY <1>6, <2>1, <2>3 DEF Stat, Begin, Goto, TypeOK, LinkSteps, CopySteps, Part
  <2>4. QED
    BY <2>2, <2>3
<1>7. ASSUME NEW p \in Process, Symlink(p)
      PROVE  InstalledInv'
  <2>1. pc[p] \in CopySteps /\ UNCHANGED current
    BY <1>7 DEF Symlink, CopySteps
  <2>2. CASE Return(p)
    BY <1>1, <1>4, <2>1, <2>2
  <2>3. CASE ~Return(p)
    <3>1. /\ Part(p) \in Installed
          /\ UNCHANGED todo
          /\ pc' = [pc EXCEPT ![p] = "mkdtemp"]
      BY <1>7, <2>3 DEF Symlink, CanLink, Goto
    <3>2. QED
      BY <2>1, <3>1 DEF InstalledInv, Part, TypeOK
  <2>4. QED
    BY <2>2, <2>3
<1>8. ASSUME NEW p \in Process,
             MkdTemp(p) \/ CopyTree(p) \/ Stash(p) \/ Install(p)
               \/ DropPrevious(p) \/ KeepPrevious(p) \/ Restore(p)
      PROVE  Still
  <2>1. pc[p] \in LinkSteps /\ UNCHANGED <<current, todo>>
    BY <1>8 DEF MkdTemp, CopyTree, Stash, Install, DropPrevious, KeepPrevious,
                Restore, root, LinkSteps, CopySteps
  <2>2. PICK s \in LinkSteps : Goto(p, s)
    BY <1>8 DEF MkdTemp, CopyTree, Stash, Install, DropPrevious, KeepPrevious,
                Restore, LinkSteps, CopySteps
  <2>3. QED
    BY <1>5, <2>1, <2>2
<1>9. ASSUME NEW p \in Process, Unlink(p)
      PROVE  Still
  BY <1>4, <1>9 DEF Unlink, CopySteps
<1>10. ASSUME NEW p \in Process, Switch(p)
       PROVE  InstalledInv'
  <2>1. /\ pc[p] = "switch"
        /\ UNCHANGED todo
        /\ pc' = [pc EXCEPT ![p] = "restore"]
    BY <1>10 DEF Switch, Goto
  <2>2. Part(p) \in Component /\ Target(p) \in Version /\ pending[Part(p)] = Target(p)
    BY <2>1, PartType DEF CopyInv, CopySteps
  <2>3. \A c \in Component : current'[c] \in {current[c], Target(p)}
    BY <1>10, <2>2 DEF Switch, TypeOK
  <2>4. \A c \in Installed : current'[c] \in Version
    BY <2>2, <2>3, InstalledAssumption DEF InstalledInv
  <2>5. QED
    BY <2>1, <2>4 DEF InstalledInv, Part, TypeOK, LinkSteps, CopySteps
<1>11. CASE Restart
  BY <1>1, <1>11 DEF Restart, Gone, root, LinkSteps, CopySteps
<1>12. CASE UNCHANGED vars
  BY <1>1, <1>12 DEF vars, root, runs, Part
<1>13. QED
  BY <1>1, <1>2, <1>3, <1>6, <1>7, <1>8, <1>9, <1>10, <1>11, <1>12 DEF Next, Advance

\* What FallbackInv says when p is the run at work, and when it is enough.
LEMMA FallbackAt ==
  ASSUME IInv, FallbackInv, faults = 0, kills = 0,
         NEW p \in Process, pc[p] \in CopySteps
  PROVE  /\ \A c \in Component : Spared(c) \/ Moving(p, c)
         /\ Underway(p)
<1>1. \A q \in Process \ {p} : pc[q] \in {"idle", "flock"}
  BY Alone DEF IInv, CopySteps
<1>2. \A q \in Process, c \in Component : Moving(q, c) => q = p
  BY <1>1 DEF Moving
<1>3. QED
  BY <1>2 DEF FallbackInv

LEMMA FallbackBy ==
  ASSUME NEW p \in Process,
         \A q \in Process \ {p} : pc'[q] \in {"idle", "flock"},
         \A c \in Component : Spared(c)' \/ Moving(p, c)',
         Underway(p)'
  PROVE  FallbackInv'
<1>1. \A q \in Process \ {p} : Underway(q)'
  BY DEF Underway
<1>2. QED
  BY <1>1 DEF FallbackInv

\* A step of a run that is not moving links, and does not begin to.
LEMMA BystanderFallback ==
  ASSUME FallbackInv, NEW p \in Process,
         UNCHANGED <<current, previous, tree>>,
         faults' = 0 /\ kills' = 0 => faults = 0 /\ kills = 0,
         pc[p] \notin {"install", "keepPrevious", "switch"},
         pc'[p] \notin {"install", "keepPrevious", "switch", "restore"},
         \A q \in Process \ {p} : pc'[q] = pc[q] /\ req'[q] = req[q]
                                                 /\ todo'[q] = todo[q]
  PROVE  FallbackInv'
<1>1. \A q \in Process, c \in Component : Moving(q, c) => Moving(q, c)'
  BY DEF Moving, Part
<1>2. ASSUME NEW q \in Process, Underway(q)
      PROVE  Underway(q)'
  <2>1. CASE q = p
    BY <2>1 DEF Underway
  <2>2. CASE q # p
    BY <1>2, <2>2 DEF Underway, Part, Target, Owed
  <2>3. QED
    BY <2>1, <2>2
<1>3. \A c \in Component : Spared(c) => Spared(c)'
  BY DEF Spared, Owed, Usable
<1>4. QED
  BY <1>1, <1>2, <1>3 DEF FallbackInv

\* Only the directory of the version to bring moves: `previous` may name it,
\* `current` does not.
LEMMA StashFallback ==
  ASSUME IInv, FallbackInv, DroppedInv, faults = 0, kills = 0, faults' = 0,
         NEW p \in Process, Stash(p)
  PROVE  FallbackInv'
<1> USE DEF IInv
<1>1. /\ pc[p] = "stash" /\ pc[p] \in CopySteps
      /\ UNCHANGED <<current, previous, req, todo, holder>>
      /\ current[Part(p)] # Target(p)
  BY DEF Stash, CopySteps, CopyInv, Replaces, DroppedInv, host
<1>2. /\ \A c \in Component : Spared(c)
      /\ Part(p) \in Component /\ Target(p) \in Version
  BY <1>1, FallbackAt, PartType DEF Moving
<1>3. PICK s \in {"install", "unlink"} :
        /\ Goto(p, s)
        /\ s = "unlink" => UNCHANGED tree
        /\ s = "install" => tree'[Part(p)][Target(p)] = "absent"
  <2>1. ~ Fault
    BY BoundsAssumption DEF Fault, TypeOK
  <2>2. QED
    BY <1>2, <2>1 DEF Stash, SetAside, TypeOK
<1>4. /\ pc'[p] = s
      /\ \A q \in Process \ {p} : pc'[q] \in {"idle", "flock"}
      /\ Part(p)' = Part(p) /\ Target(p)' = Target(p)
  BY <1>1, <1>3, Onward DEF CopySteps
<1>5. \A c \in Component, v \in Version :
        ~(c = Part(p) /\ v = Target(p)) => tree'[c][v] = tree[c][v]
  BY <1>2 DEF Stash, SetAside, TypeOK
<1>6. ASSUME NEW c \in Component, c # Part(p) \/ s = "unlink"
      PROVE  Spared(c)'
  <2>1. Owed(c)' = Owed(c)
    BY <1>1 DEF Owed
  <2>2. previous[c] \in Version \cup {None}
    BY DEF TypeOK
  <2>3. Usable(c) => Usable(c)'
    BY <1>1, <1>3, <1>5, <1>6, <2>2 DEF Usable
  <2>4. QED
    BY <1>2, <2>1, <2>3 DEF Spared
<1>7. s = "install" => \A c \in Component : c = Part(p) => Moving(p, c)'
  BY <1>4 DEF Moving
<1>8. Underway(p)'
  <2>1. ASSUME s = "install", Owed(Part(p))
        PROVE  /\ previous[Part(p)] \notin {None, current[Part(p)]}
               /\ previous[Part(p)] # Target(p) =>
                    tree'[Part(p)][previous[Part(p)]] = "complete"
    <3>1. Usable(Part(p))
      BY <1>2, <2>1 DEF Spared
    <3>2. previous[Part(p)] \in Version
      BY <1>2, <3>1 DEF Usable, TypeOK
    <3>3. QED
      BY <1>2, <1>5, <3>1, <3>2 DEF Usable
  <2>2. Owed(Part(p))' <=> Owed(Part(p))
    BY <1>1, <1>4 DEF Owed
  <2>3. QED
    BY <1>1, <1>3, <1>4, <2>1, <2>2 DEF Underway
<1>9. \A c \in Component : Spared(c)' \/ Moving(p, c)'
  BY <1>3, <1>6, <1>7
<1>10. QED
  BY <1>4, <1>8, <1>9, FallbackBy

\* The renamed directory is whole: the version that `previous` named, if it was
\* that one, is there again.
LEMMA InstallFallback ==
  ASSUME IInv, FallbackInv, faults = 0, kills = 0, faults' = 0,
         NEW p \in Process, Install(p)
  PROVE  FallbackInv'
<1> USE DEF IInv
<1>1. /\ pc[p] = "install" /\ pc[p] \in CopySteps
      /\ UNCHANGED <<current, previous, req, todo, holder>>
      /\ Goto(p, "dropPrevious")
      /\ tree' = [tree EXCEPT ![Part(p)][Target(p)] = scratch[p]]
      /\ scratch[p] = "complete"
  <2>1. tree[Part(p)][Target(p)] = "absent"
    BY FallbackAt DEF Install, CopySteps, Underway
  <2>2. ~ Fault
    BY DEF Fault, TypeOK
  <2>3. QED
    BY <2>1, <2>2 DEF Install, CopySteps, CopyInv
<1>2. /\ \A c \in Component : Spared(c) \/ c = Part(p)
      /\ Underway(p)
      /\ Part(p) \in Component /\ Target(p) \in Version
  BY <1>1, FallbackAt, PartType DEF Moving
<1>3. /\ pc'[p] = "dropPrevious"
      /\ \A q \in Process \ {p} : pc'[q] \in {"idle", "flock"}
  BY <1>1, Onward DEF CopySteps
<1>4. \A c \in Component, v \in Version :
        tree'[c][v] = IF c = Part(p) /\ v = Target(p) THEN "complete" ELSE tree[c][v]
  BY <1>1, <1>2 DEF TypeOK
<1>5. ASSUME NEW c \in Component, Owed(c)
      PROVE  Usable(c)'
  <2>1. /\ previous[c] \notin {None, current[c]}
        /\ (c = Part(p) /\ previous[c] = Target(p)) \/ tree[c][previous[c]] = "complete"
    BY <1>1, <1>2, <1>5 DEF Underway, Spared, Usable
  <2>2. previous[c] \in Version
    BY <2>1 DEF TypeOK
  <2>3. tree'[c][previous[c]] = "complete"
    BY <1>4, <2>1, <2>2
  <2>4. QED
    BY <1>1, <2>1, <2>3 DEF Usable
<1>6. \A c \in Component : Spared(c)'
  BY <1>1, <1>5 DEF Spared, Owed
<1>7. Underway(p)'
  BY <1>3 DEF Underway
<1>8. QED
  BY <1>3, <1>6, <1>7, FallbackBy

\* `previous` goes, then it takes what `current` names; other components keep
\* theirs.
LEMMA PreviousFallback ==
  ASSUME IInv, FallbackInv, faults = 0, kills = 0, faults' = 0,
         NEW p \in Process, DropPrevious(p) \/ KeepPrevious(p)
  PROVE  FallbackInv'
<1> USE DEF IInv
<1>1. PICK s \in {"keepPrevious", "switch"} :
        /\ Goto(p, s)
        /\ s = "keepPrevious" => previous' = [previous EXCEPT ![Part(p)] = None]
        /\ s = "switch" =>
             /\ pc[p] = "keepPrevious"
             /\ previous' = [previous EXCEPT ![Part(p)] =
                               IF @ = None THEN current[Part(p)] ELSE @]
  BY DEF DropPrevious, KeepPrevious, Fault
<1>2. /\ pc[p] \in {"dropPrevious", "keepPrevious"} /\ pc[p] \in CopySteps
      /\ UNCHANGED <<current, tree, req, todo, holder>>
  BY DEF DropPrevious, KeepPrevious, CopySteps, host
<1>3. /\ \A c \in Component : Spared(c) \/ c = Part(p)
      /\ Underway(p)
      /\ Part(p) \in Component
  BY <1>2, FallbackAt, PartType DEF Moving
<1>4. /\ pc'[p] = s
      /\ \A q \in Process \ {p} : pc'[q] \in {"idle", "flock"}
      /\ Part(p)' = Part(p)
  BY <1>1, <1>2, Onward DEF CopySteps
<1>5. \A c \in Component : c # Part(p) => previous'[c] = previous[c]
  BY <1>1, <1>3 DEF TypeOK
<1>6. \A c \in Component : c # Part(p) => Spared(c)'
  BY <1>2, <1>3, <1>5 DEF Spared, Owed, Usable
<1>7. Moving(p, Part(p))'
  BY <1>4 DEF Moving
<1>8. s = "keepPrevious" => previous'[Part(p)] = None
  BY <1>1, <1>3 DEF TypeOK
<1>9. s = "switch" => previous'[Part(p)] = current'[Part(p)]
  BY <1>1, <1>2, <1>3 DEF TypeOK, Underway
<1>10. Underway(p)'
  BY <1>4, <1>8, <1>9 DEF Underway
<1>11. QED
  BY <1>4, <1>6, <1>7, <1>10, FallbackBy

\* `current` leaves the version `previous` names, which is there in full.
LEMMA SwitchFallback ==
  ASSUME IInv, InstalledInv, FallbackInv, DroppedInv, faults = 0, kills = 0, faults' = 0,
         NEW p \in Process, Switch(p)
  PROVE  FallbackInv'
<1> USE DEF IInv
<1>1. /\ pc[p] = "switch" /\ pc[p] \in CopySteps /\ pc[p] \in LinkSteps
      /\ UNCHANGED <<previous, tree, todo>>
      /\ pc' = [pc EXCEPT ![p] = "restore"]
      /\ current' = [current EXCEPT ![Part(p)] = pending[Part(p)]]
      /\ req' = [req EXCEPT ![p].remount = FALSE]
  BY DEF Switch, Goto, Fault, CopySteps, LinkSteps
<1>2. /\ pending[Part(p)] = Target(p)
      /\ current[Part(p)] # Target(p)
      /\ tree[Part(p)][Target(p)] = "complete"
      /\ Part(p) \in Component /\ req[p] \in Request
  BY <1>1, PartType DEF CopyInv, CopySteps, Replaces, DroppedInv
<1>3. /\ \A c \in Component : Spared(c) \/ c = Part(p)
      /\ previous[Part(p)] = current[Part(p)]
  BY <1>1, FallbackAt DEF Moving, Underway
<1>4. /\ \A q \in Process \ {p} : pc'[q] \in {"idle", "flock"}
      /\ pc'[p] = "restore"
  BY <1>1, Alone DEF CopySteps, TypeOK
<1>5. current[Part(p)] \in Version /\ current[Part(p)] # None
  BY <1>1, NoneAssumption DEF InstalledInv
<1>6. tree[Part(p)][current[Part(p)]] = "complete"
  BY <1>2, <1>5 DEF CurrentComplete, DroppedInv
<1>7. Usable(Part(p))'
  <2>1. current'[Part(p)] = Target(p) /\ previous'[Part(p)] = current[Part(p)]
    BY <1>1, <1>2, <1>3 DEF TypeOK
  <2>2. /\ previous'[Part(p)] \notin {None, current'[Part(p)]}
        /\ tree'[Part(p)][previous'[Part(p)]] = "complete"
    BY <1>1, <1>2, <1>5, <1>6, <2>1
  <2>3. QED
    BY <1>1, <2>2 DEF Usable, Part
<1>8. \A c \in Component : c # Part(p) => Spared(c)'
  <2>1. \A c \in Component : c # Part(p) => current'[c] = current[c]
    BY <1>1 DEF TypeOK
  <2>2. QED
    BY <1>1, <1>3, <2>1 DEF Spared, Owed, Usable
<1>9. Part(p)' = Part(p) /\ Target(p)' = Target(p)
  <2>1. req'[p].source = req[p].source
    BY <1>1, <1>2 DEF TypeOK, Request
  <2>2. QED
    BY <1>1, <2>1 DEF Part, Target
<1>10. Underway(p)'
  BY <1>1, <1>2, <1>4, <1>9 DEF Underway
<1>11. \A c \in Component : Spared(c)'
  BY <1>1, <1>7, <1>8 DEF Spared, Part, Usable
<1>12. QED
  BY <1>4, <1>10, <1>11, FallbackBy

LEMMA FallbackStep ==
  ASSUME IInv, InstalledInv, DroppedInv, FallbackInv, [Next]_vars
  PROVE  FallbackInv'
<1> USE DEF IInv
<1>0. CASE ~(faults' = 0 /\ kills' = 0)
  BY <1>0 DEF FallbackInv
<1> SUFFICES ASSUME faults' = 0, kills' = 0
             PROVE  FallbackInv'
  BY <1>0
<1>1. ASSUME NEW p \in Process, Start(p)
      PROVE  FallbackInv'
  BY <1>1, BystanderFallback DEF Start, Goto, TypeOK, root, tally
<1>2. ASSUME NEW p \in Process, Lock(p) \/ Sync(p) \/ Reboot(p) \/ Kill(p)
      PROVE  FallbackInv'
  <2>1. /\ pc[p] \in {"flock", "sync", "reboot"} \/ kills' = kills + 1
        /\ UNCHANGED <<current, previous, tree>>
    BY <1>2 DEF Lock, Sync, Reboot, Kill, root
  <2>2. kills \in Nat /\ faults \in Nat
    BY BoundsAssumption DEF TypeOK
  <2>3. /\ pc[p] \in {"flock", "sync", "reboot"}
        /\ faults = 0 /\ kills = 0
    BY <1>2, <2>1, <2>2 DEF Lock, Sync, Reboot, Kill, Fault, tally
  <2>4. /\ pc'[p] \notin {"install", "keepPrevious", "switch", "restore"}
        /\ \A q \in Process \ {p} : pc'[q] = pc[q] /\ req'[q] = req[q]
                                                   /\ todo'[q] = todo[q]
    <3>1. CASE Gone({p})
      BY <3>1 DEF Gone
    <3>2. CASE ~Gone({p})
      BY <1>2, <3>2 DEF Lock, Sync, Reboot, Kill, Goto, TypeOK
    <3>3. QED
      BY <3>1, <3>2
  <2>5. QED
    BY <2>1, <2>3, <2>4, BystanderFallback
<1>3. ASSUME NEW p \in Process, Stat(p) \/ Symlink(p) \/ Unlink(p)
      PROVE  FallbackInv'
  <2>1. /\ pc[p] \in {"stat", "symlink", "unlink"}
        /\ UNCHANGED <<current, previous, tree, req>>
    BY <1>3 DEF Stat, Symlink, Unlink, root
  <2>2. faults = 0 /\ kills = 0
    BY <1>3, BoundsAssumption DEF Stat, Symlink, Unlink, Drop, Fault, tally, TypeOK
  <2>3. /\ pc'[p] \notin {"install", "keepPrevious", "switch", "restore"}
        /\ \A q \in Process \ {p} : pc'[q] = pc[q] /\ todo'[q] = todo[q]
    <3>1. CASE Return(p)
      BY <2>1, <3>1, ReturnTo DEF CopySteps
    <3>2. CASE ~Return(p)
      BY <1>3, <3>2 DEF Stat, Begin, Symlink, Unlink, Goto, TypeOK
    <3>3. QED
      BY <3>1, <3>2
  <2>4. QED
    BY <2>1, <2>2, <2>3, BystanderFallback
<1>4. ASSUME NEW p \in Process, MkdTemp(p) \/ CopyTree(p)
      PROVE  FallbackInv'
  <2>1. /\ pc[p] \in {"mkdtemp", "copy"}
        /\ UNCHANGED <<current, previous, tree, req, todo>>
    BY <1>4 DEF MkdTemp, CopyTree, root
  <2>2. faults = 0 /\ kills = 0
    BY <1>4, BoundsAssumption DEF MkdTemp, CopyTree, Fault, tally, TypeOK
  <2>3. PICK s \in {"copy", "stash", "unlink"} : Goto(p, s)
    BY <1>4 DEF MkdTemp, CopyTree
  <2>4. QED
    BY <2>1, <2>2, <2>3, BystanderFallback DEF Goto, TypeOK
<1>5. ASSUME NEW p \in Process,
             Stash(p) \/ Install(p) \/ DropPrevious(p) \/ KeepPrevious(p) \/ Switch(p)
      PROVE  FallbackInv'
  <2>1. faults = 0 /\ kills = 0
    BY <1>5, BoundsAssumption
       DEF Stash, Install, DropPrevious, KeepPrevious, Switch, Fault, tally, TypeOK
  <2>2. QED
    BY <1>5, <2>1, StashFallback, InstallFallback, PreviousFallback, SwitchFallback
<1>6. ASSUME NEW p \in Process, Restore(p)
      PROVE  FallbackInv'
  <2>1. /\ pc[p] = "restore" /\ pc[p] \in CopySteps
        /\ UNCHANGED <<current, previous, req, todo, tally>>
        /\ pc' = [pc EXCEPT ![p] = "unlink"]
    <3>1. ~ Drop(p, "restore")
      BY BoundsAssumption DEF Drop, Fault, TypeOK
    <3>2. QED
      BY <1>6, <3>1 DEF Restore, Goto, CopySteps
  <2>2. tree[Part(p)][Target(p)] = "complete"
    BY <2>1, FallbackAt DEF tally, Underway
  <2>3. UNCHANGED tree
    BY <1>6, <2>2 DEF Restore
  <2>4. QED
    BY <2>1, <2>3, BystanderFallback DEF TypeOK, tally
<1>7. CASE Restart
  <2>1. /\ \A q \in Process : pc[q] = "idle" /\ pc'[q] = "idle"
        /\ UNCHANGED <<current, previous, tree, tally>>
    BY <1>7, BoundsAssumption DEF Restart, Active, Gone, root, tally, TypeOK
  <2>2. \A c \in Component : Spared(c)
    BY <2>1 DEF FallbackInv, Moving, tally
  <2>3. \A q \in Process : Underway(q)'
    BY <2>1 DEF Underway
  <2>4. QED
    BY <2>1, <2>2, <2>3 DEF FallbackInv, Spared, Owed, Usable
<1>8. CASE UNCHANGED vars
  BY <1>8 DEF vars, root, runs, tally, FallbackInv, Spared, Owed, Usable, Moving,
              Underway, Part, Target
<1>9. QED
  BY <1>1, <1>2, <1>3, <1>4, <1>5, <1>6, <1>7, <1>8 DEF Next, Advance

\* Between runs, when no call failed and no run was cut short, an upgraded
\* component has a complete version other than `current` behind `previous`:
\* CopyComponent hands the old `current` over before it moves the link, and a
\* version it brings back is whole again before `previous` lets go of it.
THEOREM FallbackStays == Spec => []FallbackUsable
<1>1. Init => InstalledInv /\ DroppedInv /\ FallbackInv
  BY FactoryAssumption, InstalledAssumption
     DEF Init, InstalledInv, DroppedInv, FallbackInv, Spared, Owed, Underway, LinkSteps, CopySteps
<1>2. IInv /\ InstalledInv /\ [Next]_vars => InstalledInv'
  BY InstalledStep
<1>3. IInv /\ DroppedInv /\ [Next]_vars => DroppedInv'
  BY DroppedStep
<1>4. IInv /\ InstalledInv /\ DroppedInv /\ FallbackInv /\ [Next]_vars => FallbackInv'
  BY FallbackStep
<1>5. IInv /\ FallbackInv => FallbackUsable
  <2>1. SUFFICES ASSUME IInv, FallbackInv, holder = None, faults = 0, kills = 0
                 PROVE  \A c \in Component : Spared(c)
    BY DEF FallbackUsable, Spared, Owed
  <2>2. \A q \in Process : pc[q] \in {"idle", "flock"}
    BY <2>1, NoneAssumption DEF IInv, LockInv
  <2>3. QED
    BY <2>1, <2>2 DEF FallbackInv, Moving
<1>6. QED
  BY <1>1, <1>2, <1>3, <1>4, <1>5, Invariance, PTL DEF Spec
-----------------------------------------------------------------------------
(* Upgrade implements AtomicActivation, and what a killed or a repeated     *)
(* upgrade leaves behind stays: from the invariant above, step by step.     *)

\* The maps `whole` and `kept` of the refinement.
Fulls(place) == [c \in Component |-> Full(place, c)]

LEMMA TreeGains ==
  ASSUME tree \in [Component -> [Version -> Extent]], NEW c \in Component,
         NEW v \in Version, tree' = [tree EXCEPT ![c][v] = "complete"]
  PROVE  Fulls(tree)' = [Fulls(tree) EXCEPT ![c] = @ \cup {v}]
<1> DEFINE S == Full(tree, c) \cup {v}
<1>1. \A d \in Component, w \in Version :
        tree'[d][w] = IF d = c /\ w = v THEN "complete" ELSE tree[d][w]
  OBVIOUS
<1>2. \A d \in Component : Full(tree, d)' = IF d = c THEN S ELSE Full(tree, d)
  BY <1>1 DEF Full
<1>3. Fulls(tree)' = [d \in Component |-> IF d = c THEN S ELSE Full(tree, d)]
  BY <1>2, Zenon DEF Fulls
<1>4. [Fulls(tree) EXCEPT ![c] = S]
        = [d \in Component |-> IF d = c THEN S ELSE Full(tree, d)]
  BY DEF Fulls
<1>5. Fulls(tree)[c] = Full(tree, c)
  BY DEF Fulls
<1>6. QED
  BY <1>3, <1>4, <1>5

LEMMA TreeLoses ==
  ASSUME tree \in [Component -> [Version -> Extent]], NEW c \in Component,
         NEW v \in Version, NEW x, x # "complete", tree' = [tree EXCEPT ![c][v] = x]
  PROVE  Fulls(tree)' = [Fulls(tree) EXCEPT ![c] = @ \ {v}]
<1> DEFINE S == Full(tree, c) \ {v}
<1>1. \A d \in Component, w \in Version :
        tree'[d][w] = IF d = c /\ w = v THEN x ELSE tree[d][w]
  OBVIOUS
<1>2. \A d \in Component : Full(tree, d)' = IF d = c THEN S ELSE Full(tree, d)
  BY <1>1 DEF Full
<1>3. Fulls(tree)' = [d \in Component |-> IF d = c THEN S ELSE Full(tree, d)]
  BY <1>2, Zenon DEF Fulls
<1>4. [Fulls(tree) EXCEPT ![c] = S]
        = [d \in Component |-> IF d = c THEN S ELSE Full(tree, d)]
  BY DEF Fulls
<1>5. Fulls(tree)[c] = Full(tree, c)
  BY DEF Fulls
<1>6. QED
  BY <1>3, <1>4, <1>5

LEMMA AsideGains ==
  ASSUME aside \in [Component -> [Version -> Extent]], NEW c \in Component,
         NEW v \in Version, aside' = [aside EXCEPT ![c][v] = "complete"]
  PROVE  Fulls(aside)' = [Fulls(aside) EXCEPT ![c] = @ \cup {v}]
<1> DEFINE S == Full(aside, c) \cup {v}
<1>1. \A d \in Component, w \in Version :
        aside'[d][w] = IF d = c /\ w = v THEN "complete" ELSE aside[d][w]
  OBVIOUS
<1>2. \A d \in Component : Full(aside, d)' = IF d = c THEN S ELSE Full(aside, d)
  BY <1>1 DEF Full
<1>3. Fulls(aside)' = [d \in Component |-> IF d = c THEN S ELSE Full(aside, d)]
  BY <1>2, Zenon DEF Fulls
<1>4. [Fulls(aside) EXCEPT ![c] = S]
        = [d \in Component |-> IF d = c THEN S ELSE Full(aside, d)]
  BY DEF Fulls
<1>5. Fulls(aside)[c] = Full(aside, c)
  BY DEF Fulls
<1>6. QED
  BY <1>3, <1>4, <1>5

LEMMA AsideLoses ==
  ASSUME aside \in [Component -> [Version -> Extent]], NEW c \in Component,
         NEW v \in Version, NEW x, x # "complete", aside' = [aside EXCEPT ![c][v] = x]
  PROVE  Fulls(aside)' = [Fulls(aside) EXCEPT ![c] = @ \ {v}]
<1> DEFINE S == Full(aside, c) \ {v}
<1>1. \A d \in Component, w \in Version :
        aside'[d][w] = IF d = c /\ w = v THEN x ELSE aside[d][w]
  OBVIOUS
<1>2. \A d \in Component : Full(aside, d)' = IF d = c THEN S ELSE Full(aside, d)
  BY <1>1 DEF Full
<1>3. Fulls(aside)' = [d \in Component |-> IF d = c THEN S ELSE Full(aside, d)]
  BY <1>2, Zenon DEF Fulls
<1>4. [Fulls(aside) EXCEPT ![c] = S]
        = [d \in Component |-> IF d = c THEN S ELSE Full(aside, d)]
  BY DEF Fulls
<1>5. Fulls(aside)[c] = Full(aside, c)
  BY DEF Fulls
<1>6. QED
  BY <1>3, <1>4, <1>5

LEMMA RefineInit ==
  ASSUME Init
  PROVE  Abstract!Init
<1> DEFINE Shipped == [c \in Component |-> IF c \in Installed THEN Factory ELSE None]
<1>1. current = Shipped /\ previous = [c \in Component |-> None]
  BY DEF Init
<1>2. ASSUME NEW c \in Component
      PROVE  Full(tree, c) = {Shipped[c]} \ {None} /\ Full(aside, c) = {}
  <2>1. Full(aside, c) = {}
    BY DEF Init, Full
  <2>2. CASE c \in Installed
    <3>1. \A v \in Version : tree[c][v] = "complete" <=> v = Factory
      BY <2>2 DEF Init
    <3>2. QED
      BY <2>1, <2>2, <3>1, FactoryAssumption, NoneAssumption DEF Full
  <2>3. CASE c \notin Installed
    <3>1. \A v \in Version : tree[c][v] = "absent"
      BY <2>3 DEF Init
    <3>2. QED
      BY <2>1, <2>3, <3>1 DEF Full
  <2>4. QED
    BY <2>2, <2>3
<1>3. {c \in Component : <<"stat", c>> \in dropped} = {}
  BY DEF Init
<1>4. QED
  BY <1>1, <1>2, <1>3 DEF Abstract!Init

Mistaken == {c \in Component : <<"stat", c>> \in dropped}

\* A step that changes neither link nor a directory nor what was mistaken.
LEMMA Stutter ==
  ASSUME UNCHANGED <<current, previous, tree, aside>>, UNCHANGED Mistaken
  PROVE  UNCHANGED Abstract!vars
  BY DEF Abstract!vars, Full, Mistaken

\* The failed stat of the destination is Mistake.
LEMMA MistakeStep ==
  ASSUME IInv, NEW p \in Process, Stat(p)
  PROVE  [Abstract!Next]_(Abstract!vars)
<1>1. UNCHANGED <<current, previous, tree, aside>> /\ Part(p) \in Component
  BY PartType DEF Stat, root, IInv, CopySteps
<1>2. CASE UNCHANGED dropped
  BY <1>1, <1>2, Stutter DEF Mistaken
<1>3. CASE Drop(p, "stat")
  <2> PICK c \in Component : c = Part(p)
    BY <1>1
  <2>1. Mistaken' = Mistaken \cup {c}
    BY <1>1, <1>3 DEF Mistaken, Drop
  <2>2. Abstract!Mistake(c)
    BY <1>1, <2>1 DEF Abstract!Mistake, Full, Mistaken
  <2>3. QED
    BY <2>2 DEF Abstract!Next
<1>4. QED
  BY <1>2, <1>3 DEF Stat

\* A whole directory is renamed to `.old`: SetAside.  One that is not is nobody's.
LEMMA StashRefines ==
  ASSUME IInv, NEW p \in Process, Stash(p)
  PROVE  [Abstract!Next]_(Abstract!vars)
<1>0. Part(p) \in Component /\ Target(p) \in Version
  BY PartType DEF Stash, IInv, CopySteps
<1> PICK c \in Component, v \in Version : c = Part(p) /\ v = Target(p)
  BY <1>0
<1>1. UNCHANGED <<current, previous, dropped>>
  BY DEF Stash
<1>2. CASE UNCHANGED <<tree, aside>>
  BY <1>1, <1>2, Stutter DEF Mistaken
<1>3. CASE aside[c][v] = "absent" /\ SetAside(p)
  <2>1. /\ tree \in [Component -> [Version -> Extent]]
        /\ aside \in [Component -> [Version -> Extent]]
        /\ tree[c][v] \in Extent /\ "absent" \in Extent
    BY <1>1 DEF IInv, TypeOK, Extent
  <2>2. /\ Fulls(tree)' = [Fulls(tree) EXCEPT ![c] = @ \ {v}]
        /\ Fulls(aside)' = [Fulls(aside) EXCEPT ![c] =
                              IF tree[c][v] = "complete" THEN @ \cup {v} ELSE @ \ {v}]
    <3>0. "absent" # "complete"
      OBVIOUS
    <3> PICK x : x = tree[c][v]
      OBVIOUS
    <3>1. /\ tree' = [tree EXCEPT ![c][v] = "absent"]
          /\ aside' = [aside EXCEPT ![c][v] = x]
      BY <1>3 DEF SetAside
    <3>2. Fulls(tree)' = [Fulls(tree) EXCEPT ![c] = @ \ {v}]
      BY <2>1, <3>0, <3>1, TreeLoses, Zenon
    <3>3. x = "complete" => Fulls(aside)' = [Fulls(aside) EXCEPT ![c] = @ \cup {v}]
      BY <2>1, <3>1, AsideGains, Zenon
    <3>4. x # "complete" => Fulls(aside)' = [Fulls(aside) EXCEPT ![c] = @ \ {v}]
      BY <2>1, <3>1, AsideLoses, Zenon
    <3>5. QED
      BY <3>2, <3>3, <3>4
  <2>3. v \notin Full(aside, c) /\ (v \in Full(tree, c) <=> tree[c][v] = "complete")
    BY <1>1, <1>3 DEF Full
  <2>4. CASE tree[c][v] = "complete"
    <3>1. v # current[c] \/ c \in Mistaken
      BY <1>1 DEF Stash, IInv, CopyInv, CopySteps, Replaces, Mistaken
    <3>2. Abstract!SetAside(c, v)
      BY <1>1, <2>2, <2>3, <2>4, <3>1
      DEF Abstract!SetAside, Abstract!Replaceable, Fulls, Mistaken
    <3>3. QED
      BY <1>1, <3>2 DEF Abstract!Next
  <2>5. CASE tree[c][v] # "complete"
    <3>1. Full(tree, c) \ {v} = Full(tree, c) /\ Full(aside, c) \ {v} = Full(aside, c)
      BY <2>3, <2>5
    <3>2. Fulls(tree)' = Fulls(tree) /\ Fulls(aside)' = Fulls(aside)
      BY <1>1, <2>2, <2>5, <3>1 DEF Fulls
    <3>3. QED
      BY <1>1, <3>2 DEF Abstract!vars, Fulls
  <2>6. QED
    BY <2>4, <2>5
<1>4. QED
  BY <1>2, <1>3 DEF Stash

\* A copied version takes its name: Provide.
LEMMA InstallRefines ==
  ASSUME IInv, NEW p \in Process, Install(p)
  PROVE  [Abstract!Next]_(Abstract!vars)
<1>0. Part(p) \in Component /\ Target(p) \in Version
  BY PartType DEF Install, IInv, CopySteps
<1> PICK c \in Component, v \in Version : c = Part(p) /\ v = Target(p)
  BY <1>0
<1>1. /\ UNCHANGED <<current, previous, aside, dropped>>
      /\ scratch[p] = "complete"
  BY PartType DEF Install, IInv, CopySteps, CopyInv
<1>2. CASE UNCHANGED tree
  BY <1>1, <1>2, Stutter DEF Mistaken
<1>3. CASE tree[c][v] = "absent" /\ tree' = [tree EXCEPT ![c][v] = "complete"]
  <2>0. tree \in [Component -> [Version -> Extent]] /\ "complete" \in Extent
    BY DEF IInv, TypeOK, Extent
  <2>1. Fulls(tree)' = [Fulls(tree) EXCEPT ![c] = @ \cup {v}]
    BY <1>3, <2>0, TreeGains, Zenon
  <2>2. v \notin Full(tree, c)
    BY <1>3 DEF Full
  <2>3. Abstract!Provide(c, v)
    BY <1>1, <2>1, <2>2 DEF Abstract!Provide, Fulls, Full
  <2>4. QED
    BY <1>1, <2>3 DEF Abstract!Next
<1>4. QED
  BY <1>1, <1>2, <1>3 DEF Install

\* `.old` gets its name back: PutBack, if it is whole.
LEMMA RestoreRefines ==
  ASSUME IInv, NEW p \in Process, Restore(p)
  PROVE  [Abstract!Next]_(Abstract!vars)
<1>0. Part(p) \in Component /\ Target(p) \in Version
  BY PartType DEF Restore, IInv, CopySteps
<1> PICK c \in Component, v \in Version : c = Part(p) /\ v = Target(p)
  BY <1>0
<1>1. UNCHANGED <<current, previous>> /\ UNCHANGED Mistaken
  BY DEF Restore, Drop, Mistaken
<1>2. CASE UNCHANGED <<tree, aside>>
  BY <1>1, <1>2, Stutter
<1>3. CASE /\ tree[c][v] = "absent"
           /\ tree' = [tree EXCEPT ![c][v] = aside[c][v]]
           /\ aside' = [aside EXCEPT ![c][v] = "absent"]
  <2>1. /\ tree \in [Component -> [Version -> Extent]]
        /\ aside \in [Component -> [Version -> Extent]]
        /\ aside[c][v] \in Extent /\ "absent" \in Extent
    BY <1>1 DEF IInv, TypeOK, Extent
  <2>2. /\ Fulls(tree)' = [Fulls(tree) EXCEPT ![c] =
                             IF aside[c][v] = "complete" THEN @ \cup {v} ELSE @ \ {v}]
        /\ Fulls(aside)' = [Fulls(aside) EXCEPT ![c] = @ \ {v}]
    <3>0. "absent" # "complete"
      OBVIOUS
    <3> PICK x : x = aside[c][v]
      OBVIOUS
    <3>1. /\ tree' = [tree EXCEPT ![c][v] = x]
          /\ aside' = [aside EXCEPT ![c][v] = "absent"]
      BY <1>3
    <3>2. Fulls(aside)' = [Fulls(aside) EXCEPT ![c] = @ \ {v}]
      BY <2>1, <3>0, <3>1, AsideLoses, Zenon
    <3>3. x = "complete" => Fulls(tree)' = [Fulls(tree) EXCEPT ![c] = @ \cup {v}]
      BY <2>1, <3>1, TreeGains, Zenon
    <3>4. x # "complete" => Fulls(tree)' = [Fulls(tree) EXCEPT ![c] = @ \ {v}]
      BY <2>1, <3>1, TreeLoses, Zenon
    <3>5. QED
      BY <3>2, <3>3, <3>4
  <2>3. v \notin Full(tree, c) /\ (v \in Full(aside, c) <=> aside[c][v] = "complete")
    BY <1>1, <1>3 DEF Full
  <2>4. CASE aside[c][v] = "complete"
    <3>1. Abstract!PutBack(c, v)
      BY <1>1, <2>2, <2>3, <2>4 DEF Abstract!PutBack, Fulls, Mistaken
    <3>2. QED
      BY <1>1, <3>1 DEF Abstract!Next
  <2>5. CASE aside[c][v] # "complete"
    <3>1. Full(tree, c) \ {v} = Full(tree, c) /\ Full(aside, c) \ {v} = Full(aside, c)
      BY <2>3, <2>5
    <3>2. Fulls(tree)' = Fulls(tree) /\ Fulls(aside)' = Fulls(aside)
      BY <1>1, <2>2, <2>5, <3>1 DEF Fulls
    <3>3. QED
      BY <1>1, <3>2 DEF Abstract!vars, Fulls, Mistaken
  <2>6. QED
    BY <2>4, <2>5
<1>4. QED
  BY <1>2, <1>3 DEF Restore

LEMMA LinkStep ==
  ASSUME IInv, NEW p \in Process,
         DropPrevious(p) \/ KeepPrevious(p) \/ Switch(p)
  PROVE  [Abstract!Next]_(Abstract!vars)
<1>1. /\ UNCHANGED <<tree, aside>>
      /\ pc[p] \in CopySteps /\ pc[p] # "stat"
  BY DEF DropPrevious, KeepPrevious, Switch, CopySteps
<1>2. Part(p) \in Component /\ Target(p) \in Version
  BY <1>1, PartType DEF IInv
<1>3. UNCHANGED Fulls(tree) /\ UNCHANGED Fulls(aside)
  BY <1>1 DEF Fulls, Full
<1>4. CASE UNCHANGED <<current, previous, dropped>>
  BY <1>1, <1>4, Stutter DEF Mistaken
<1>5. CASE DropPrevious(p) /\ ~ UNCHANGED <<current, previous, dropped>>
  <2>1. /\ UNCHANGED <<current, dropped>>
        /\ previous' = [previous EXCEPT ![Part(p)] = None]
    BY <1>5 DEF DropPrevious
  <2>2. Abstract!Forget(Part(p))
    BY <1>3, <2>1 DEF Abstract!Forget, Fulls, Mistaken
  <2>3. QED
    BY <1>2, <2>2 DEF Abstract!Next
<1>6. CASE KeepPrevious(p) /\ ~ UNCHANGED <<current, previous, dropped>>
  <2>1. UNCHANGED <<current, dropped>>
    BY <1>6 DEF KeepPrevious
  <2>2. previous' = [previous EXCEPT ![Part(p)] =
                       IF @ = None THEN current[Part(p)] ELSE @]
    BY <1>6, <2>1 DEF KeepPrevious
  <2>3. previous[Part(p)] = None
    BY <1>2, <1>6, <2>1, <2>2 DEF IInv, TypeOK
  <2>4. Abstract!Remember(Part(p))
    BY <1>3, <2>1, <2>2, <2>3 DEF Abstract!Remember, Fulls, Mistaken
  <2>5. QED
    BY <1>2, <2>4 DEF Abstract!Next
<1>7. CASE Switch(p) /\ ~ UNCHANGED <<current, previous, dropped>>
  <2> PICK c \in Component, v \in Version : c = Part(p) /\ v = Target(p)
    BY <1>2
  <2>1. /\ pending[c] = v
        /\ v # current[c] \/ c \in Mistaken
        /\ tree[c][v] = "complete"
    BY <1>7 DEF Switch, IInv, CopyInv, CopySteps, Replaces, Mistaken
  <2>2. /\ UNCHANGED previous
        /\ current' = [current EXCEPT ![c] = v]
        /\ dropped' = dropped \ {<<"stat", c>>}
    BY <1>7, <2>1 DEF Switch
  <2>3. v \in Full(tree, c)
    BY <2>1 DEF Full
  <2>4. Mistaken' = Mistaken \ {c}
    BY <2>2 DEF Mistaken
  <2>5. Abstract!Activate(c, v)
    BY <1>3, <2>1, <2>2, <2>3, <2>4
    DEF Abstract!Activate, Abstract!Replaceable, Fulls, Mistaken
  <2>6. QED
    BY <2>5 DEF Abstract!Next
<1>8. QED
  BY <1>4, <1>5, <1>6, <1>7

\* Every other step leaves links and complete versions alone.
LEMMA RefineStep ==
  ASSUME IInv, [Next]_vars
  PROVE  [Abstract!Next]_(Abstract!vars)
<1>1. ASSUME NEW p \in Process,
             \/ Start(p) \/ Lock(p) \/ Symlink(p) \/ MkdTemp(p)
             \/ CopyTree(p) \/ Unlink(p) \/ Sync(p) \/ Reboot(p) \/ Kill(p)
      PROVE  UNCHANGED Abstract!vars
  <2>1. UNCHANGED <<current, previous, tree, aside>> /\ UNCHANGED Mistaken
    BY <1>1 DEF Start, Lock, Symlink, MkdTemp, CopyTree, Unlink, Drop, Sync,
                Reboot, Kill, root, Mistaken
  <2>2. QED
    BY <2>1, Stutter
<1>2. CASE Restart \/ UNCHANGED vars
  <2>1. UNCHANGED <<current, previous, tree, aside>> /\ UNCHANGED Mistaken
    BY <1>2 DEF Restart, vars, root, Mistaken
  <2>2. QED
    BY <2>1, Stutter
<1>3. QED
  BY <1>1, <1>2, MistakeStep, StashRefines, InstallRefines, RestoreRefines, LinkStep
  DEF Next, Advance

\* To whoever reads the links, an upgrade is a series of atomic activations of
\* complete versions, however its system calls interleave with faults, kills,
\* reboots and other runs.
THEOREM Refinement == Spec => ImplementsAtomicActivation
<1>1. Init => Abstract!Init
  BY RefineInit
<1>2. IInv /\ [Next]_vars => [Abstract!Next]_(Abstract!vars)
  BY RefineStep
<1>3. QED
  BY <1>1, <1>2, Invariance, PTL DEF Spec, ImplementsAtomicActivation, Abstract!Spec
-----------------------------------------------------------------------------
(* An orphaned current.tmp blocks its component for good.                  *)

\* A step of p that keeps its component, or takes p out of the steps in which
\* a run owns a link, gives no run a link it did not have.
LEMMA NoNewOwner ==
  ASSUME TypeOK, NEW c \in Component, Orphan(c), NEW p \in Process,
         \A q \in Process \ {p} :
           pc'[q] = "idle" \/ (pc'[q] = pc[q] /\ todo'[q] = todo[q]),
         pc'[p] \in LinkSteps => Part(p)' # c,
         pending'[c] = pending[c], current'[c] = current[c]
  PROVE  Orphan(c)' /\ current'[c] = current[c]
<1>1. ASSUME NEW q \in Process
      PROVE  ~ OwnsLink(q, c)'
  <2>1. CASE q = p
    BY <2>1 DEF OwnsLink, LinkSteps, CopySteps
  <2>2. CASE q # p
    BY <2>2 DEF Orphan, OwnsLink, Part
  <2>3. QED
    BY <2>1, <2>2
<1>2. QED
  BY <1>1 DEF Orphan

LEMMA OrphanStep ==
  ASSUME IInv, Next, NEW c \in Component, Orphan(c)
  PROVE  Orphan(c)' /\ current'[c] = current[c]
<1> USE DEF IInv
<1>1. ASSUME NEW p \in Process, pc[p] \in LinkSteps
      PROVE  Part(p) # c /\ Part(p) \in Component
  BY <1>1, PartType DEF Orphan, OwnsLink, LinkSteps, CopySteps
<1>2. ASSUME NEW p \in Process,
             Start(p) \/ Lock(p) \/ Sync(p) \/ Reboot(p) \/ Kill(p)
      PROVE  Orphan(c)' /\ current'[c] = current[c]
  <2>1. UNCHANGED <<pending, current>>
    BY <1>2 DEF Start, Lock, Sync, Reboot, Kill, root
  <2>2. CASE Gone({p})
    BY <2>1, <2>2, NoNewOwner DEF Gone, LinkSteps, CopySteps
  <2>3. CASE ~Gone({p})
    <3>1. /\ pc' \in {[pc EXCEPT ![p] = "flock"], [pc EXCEPT ![p] = "stat"],
                      [pc EXCEPT ![p] = "reboot"]}
          /\ \A q \in Process \ {p} : todo'[q] = todo[q]
      BY <1>2, <2>3 DEF Start, Lock, Sync, Reboot, Kill, Goto, TypeOK
    <3>2. QED
      BY <2>1, <3>1, NoNewOwner DEF TypeOK, LinkSteps, CopySteps
  <2>4. QED
    BY <2>2, <2>3
<1>3. ASSUME NEW p \in Process, Stat(p) \/ Symlink(p) \/ Unlink(p)
      PROVE  Orphan(c)' /\ current'[c] = current[c]
  <2>1. /\ pc[p] \in CopySteps
        /\ UNCHANGED current
        /\ Part(p) \in Component
    BY <1>3, PartType DEF Stat, Symlink, Unlink, CopySteps, root
  <2>2. pending'[c] = pending[c]
    <3>1. CASE Stat(p)
      BY <3>1 DEF Stat, root
    <3>2. CASE Symlink(p)
      BY <2>1, <3>2 DEF Symlink, CanLink, Orphan, TypeOK
    <3>3. CASE Unlink(p)
      BY <1>1, <3>3 DEF Unlink, LinkSteps, CopySteps, TypeOK
    <3>4. QED
      BY <1>3, <3>1, <3>2, <3>3
  <2>3. CASE Return(p)
    BY <2>1, <2>2, <2>3, ReturnTo, NoNewOwner DEF LinkSteps, CopySteps
  <2>4. CASE Stat(p) /\ ~Return(p)
    BY <2>1, <2>2, <2>4, NoNewOwner
       DEF Stat, Begin, Goto, TypeOK, LinkSteps, CopySteps
  <2>5. CASE Symlink(p) /\ ~Return(p)
    <3>1. Part(p) # c /\ todo' = todo /\ pc' = [pc EXCEPT ![p] = "mkdtemp"]
      BY <2>5 DEF Symlink, CanLink, Goto, Orphan
    <3>2. Part(p)' = Part(p)
      BY <3>1 DEF Part
    <3>3. QED
      BY <2>1, <2>2, <3>1, <3>2, NoNewOwner DEF TypeOK
  <2>6. QED
    BY <1>3, <2>3, <2>4, <2>5 DEF Unlink
<1>4. ASSUME NEW p \in Process,
             \/ MkdTemp(p) \/ CopyTree(p) \/ Stash(p) \/ Install(p)
             \/ DropPrevious(p) \/ KeepPrevious(p) \/ Switch(p) \/ Restore(p)
      PROVE  Orphan(c)' /\ current'[c] = current[c]
  <2>1. /\ pc[p] \in LinkSteps
        /\ UNCHANGED todo
        /\ \E s \in LinkSteps : Goto(p, s)
    BY <1>4 DEF MkdTemp, CopyTree, Stash, Install, DropPrevious, KeepPrevious,
                Switch, Restore, LinkSteps, CopySteps
  <2>2. Part(p)' # c
    BY <1>1, <2>1 DEF Part
  <2>3. pending'[c] = pending[c] /\ current'[c] = current[c]
    BY <1>1, <1>4, <2>1 DEF MkdTemp, CopyTree, Stash, Install, DropPrevious,
                            KeepPrevious, Switch, Restore, root, TypeOK
  <2>4. QED
    BY <2>1, <2>2, <2>3, NoNewOwner DEF Goto, TypeOK
<1>5. CASE Restart
  BY <1>5 DEF Restart, Gone, Orphan, OwnsLink, root
<1>6. QED
  BY <1>2, <1>3, <1>4, <1>5 DEF Next, Advance

\* Once a killed run has left its current.tmp, no run, retry or reboot removes
\* it or moves `current` of that component.
THEOREM OrphanBlocksUpgrade == Spec => OrphanBlocks
<1>1. IInv /\ [Next]_vars =>
        [\A c \in Component : Orphan(c) => Orphan(c)' /\ current'[c] = current[c]]_vars
  BY OrphanStep
<1>2. QED
  BY <1>1, Invariance, PTL DEF Spec, OrphanBlocks
-----------------------------------------------------------------------------
(* A version with a `.old` beside it can never be activated again.         *)

ActivateSteps == {"dropPrevious", "keepPrevious", "switch"}

\* A step of p that changes neither c's directories of v nor `current`, and
\* after which p is not about to install or activate v.
LEMMA StaysFrozen ==
  ASSUME TypeOK, NEW c \in Component, NEW v \in Version, Frozen(c, v),
         NEW p \in Process,
         \A q \in Process \ {p} :
           \/ pc'[q] \in {"idle", "flock"}
           \/ pc'[q] = pc[q] /\ todo'[q] = todo[q] /\ req'[q] = req[q],
         pc'[p] \in ActivateSteps => ~ (Part(p)' = c /\ Target(p)' = v),
         tree'[c][v] = tree[c][v], aside'[c][v] = aside[c][v],
         current'[c] # v
  PROVE  Frozen(c, v)'
<1>1. ASSUME NEW q \in Process, pc'[q] \in ActivateSteps
      PROVE  ~ (Part(q)' = c /\ Target(q)' = v)
  <2>1. CASE q = p
    BY <1>1, <2>1
  <2>2. CASE q # p
    BY <1>1, <2>2 DEF Frozen, Part, Target, ActivateSteps
  <2>3. QED
    BY <2>1, <2>2
<1>2. QED
  BY <1>1 DEF Frozen, ActivateSteps

LEMMA FrozenStep ==
  ASSUME IInv, Next, NEW c \in Component, NEW v \in Version, Frozen(c, v)
  PROVE  Frozen(c, v)'
<1> USE DEF IInv
<1>1. ASSUME NEW p \in Process, pc[p] \in ActivateSteps
      PROVE  Part(p) # c \/ Target(p) # v
  BY <1>1 DEF Frozen, ActivateSteps
<1>2. ASSUME NEW p \in Process,
             Start(p) \/ Lock(p) \/ Sync(p) \/ Reboot(p) \/ Kill(p)
      PROVE  Frozen(c, v)'
  <2>1. UNCHANGED <<current, tree, aside>>
    BY <1>2 DEF Start, Lock, Sync, Reboot, Kill, root
  <2>2. CASE Gone({p})
    BY <2>1, <2>2, StaysFrozen DEF Gone, Frozen, ActivateSteps
  <2>3. CASE ~Gone({p})
    <3>1. /\ pc' \in {[pc EXCEPT ![p] = "flock"], [pc EXCEPT ![p] = "stat"],
                      [pc EXCEPT ![p] = "reboot"]}
          /\ \A q \in Process \ {p} : todo'[q] = todo[q] /\ req'[q] = req[q]
      BY <1>2, <2>3 DEF Start, Lock, Sync, Reboot, Kill, Goto, TypeOK
    <3>2. /\ pc'[p] \notin ActivateSteps
          /\ \A q \in Process \ {p} : pc'[q] = pc[q]
      BY <3>1 DEF TypeOK, ActivateSteps
    <3>3. current'[c] # v
      BY <2>1 DEF Frozen
    <3>4. QED
      BY <2>1, <3>1, <3>2, <3>3, StaysFrozen
  <2>4. QED
    BY <2>2, <2>3
<1>3. ASSUME NEW p \in Process, Stat(p) \/ Symlink(p) \/ Unlink(p)
      PROVE  Frozen(c, v)'
  <2>1. /\ pc[p] \in CopySteps
        /\ UNCHANGED <<current, tree, aside, req>>
    BY <1>3 DEF Stat, Symlink, Unlink, CopySteps, root
  <2>2. CASE Return(p)
    BY <2>1, <2>2, ReturnTo, StaysFrozen DEF Frozen, ActivateSteps
  <2>3. CASE ~Return(p)
    <3>1. /\ pc' \in {[pc EXCEPT ![p] = "symlink"], [pc EXCEPT ![p] = "mkdtemp"]}
          /\ todo' = todo
      BY <1>3, <2>3 DEF Stat, Begin, Symlink, Unlink, Goto
    <3>2. /\ pc'[p] \notin ActivateSteps
          /\ \A q \in Process \ {p} : pc'[q] = pc[q]
      BY <3>1 DEF TypeOK, ActivateSteps
    <3>3. current'[c] # v
      BY <2>1 DEF Frozen
    <3>4. QED
      BY <2>1, <3>1, <3>2, <3>3, StaysFrozen
  <2>4. QED
    BY <2>2, <2>3
<1>4. ASSUME NEW p \in Process, NEW s \in CopySteps \ {"stat"}, Goto(p, s),
             pc[p] \in CopySteps \ {"stat"},
             UNCHANGED <<req, todo, holder>>,
             s \in ActivateSteps => (Part(p) # c \/ Target(p) # v),
             tree'[c][v] = tree[c][v], aside'[c][v] = aside[c][v], UNCHANGED current
      PROVE  Frozen(c, v)'
  BY <1>4, Onward, StaysFrozen DEF Frozen
<1>5. ASSUME NEW p \in Process,
             MkdTemp(p) \/ CopyTree(p) \/ DropPrevious(p) \/ KeepPrevious(p)
      PROVE  Frozen(c, v)'
  <2>1. /\ UNCHANGED <<req, todo, holder, tree, aside, current>>
        /\ pc[p] \in CopySteps \ {"stat"}
    BY <1>5 DEF MkdTemp, CopyTree, DropPrevious, KeepPrevious, CopySteps, root, host
  <2>2. \E s \in CopySteps \ {"stat"} :
          Goto(p, s) /\ (s \in ActivateSteps => pc[p] \in ActivateSteps)
    BY <1>5 DEF MkdTemp, CopyTree, DropPrevious, KeepPrevious, CopySteps, ActivateSteps
  <2>3. QED
    BY <1>1, <1>4, <2>1, <2>2
<1>6. ASSUME NEW p \in Process, Stash(p) \/ Install(p) \/ Restore(p)
      PROVE  Frozen(c, v)'
  <2>1. /\ UNCHANGED <<req, todo, holder, current>>
        /\ pc[p] \in CopySteps \ {"stat"}
    BY <1>6 DEF Stash, Install, Restore, CopySteps, host
  <2>2. Part(p) \in Component /\ Target(p) \in Version
    BY <2>1, PartType
  <2>3. tree \in [Component -> [Version -> Extent]]
        /\ aside \in [Component -> [Version -> Extent]]
    BY DEF TypeOK
  <2>4. CASE Part(p) = c /\ Target(p) = v
    <3>1. /\ \E s \in {"install", "restore", "unlink"} : Goto(p, s)
          /\ UNCHANGED <<tree, aside>>
      BY <1>6, <2>4 DEF Stash, Install, Restore, Frozen
    <3>2. QED
      BY <1>4, <2>1, <3>1 DEF CopySteps, ActivateSteps
  <2>5. CASE Part(p) # c \/ Target(p) # v
    <3>1. PICK s \in CopySteps \ {"stat"} : Goto(p, s)
      BY <1>6 DEF Stash, Install, Restore, CopySteps
    <3>2. /\ \/ UNCHANGED tree
             \/ \E x \in Extent : tree' = [tree EXCEPT ![Part(p)][Target(p)] = x]
          /\ \/ UNCHANGED aside
             \/ \E x \in Extent : aside' = [aside EXCEPT ![Part(p)][Target(p)] = x]
      <4>1. /\ "absent" \in Extent
            /\ scratch[p] \in Extent
            /\ aside[Part(p)][Target(p)] \in Extent
            /\ tree[Part(p)][Target(p)] \in Extent
        BY <2>2 DEF Extent, TypeOK
      <4>2. QED
        BY <1>6, <4>1 DEF Stash, SetAside, Install, Restore
    <3>3. tree'[c][v] = tree[c][v]
      BY <2>2, <2>3, <2>5, <3>2, PutAt
    <3>4. aside'[c][v] = aside[c][v]
      BY <2>2, <2>3, <2>5, <3>2, PutAt
    <3>5. QED
      BY <1>4, <2>1, <2>5, <3>1, <3>3, <3>4
  <2>6. QED
    BY <2>4, <2>5
<1>7. ASSUME NEW p \in Process, Switch(p)
      PROVE  Frozen(c, v)'
  <2>1. /\ UNCHANGED <<tree, aside, todo>>
        /\ pc' = [pc EXCEPT ![p] = "restore"]
        /\ \A q \in Process \ {p} : req'[q] = req[q]
    BY <1>7 DEF Switch, Goto, root, TypeOK
  <2>2. Part(p) # c \/ pending[Part(p)] # v
    BY <1>1, <1>7 DEF Switch, CopyInv, CopySteps, ActivateSteps
  <2>3. current'[c] # v
    BY <1>7, <2>2 DEF Switch, Frozen, TypeOK
  <2>4. QED
    BY <2>1, <2>3, StaysFrozen DEF TypeOK, ActivateSteps
<1>8. CASE Restart
  BY <1>8 DEF Restart, Gone, Frozen, root
<1>9. QED
  BY <1>2, <1>3, <1>5, <1>6, <1>7, <1>8 DEF Next, Advance

\* A version that has been activated over an earlier copy of itself and then
\* replaced is never activated again: nothing removes its `.old`.
THEOREM FrozenStays == Spec => FrozenForever
<1>1. IInv /\ [Next]_vars =>
        [\A c \in Component, v \in Version : Frozen(c, v) => Frozen(c, v)']_vars
  BY FrozenStep
<1>2. QED
  BY <1>1, Invariance, PTL DEF Spec, FrozenForever
=============================================================================
