--------------------------- MODULE EnteringProofs ---------------------------
(***************************************************************************)
(* Proofs about Entering, for any set of processes, devices and entries of *)
(* the root, and for any programs, marker and buffer.                      *)
(***************************************************************************)
EXTENDS Entering, FiniteSetTheorems, TLAPS

-----------------------------------------------------------------------------
(* The types of the search *)

LEMMA MarkerLength == Len(Marker) \in Nat \ {0}
  BY MarkerAssumption

LEMMA ProgramLength == ASSUME NEW p \in Programs PROVE Len(p) \in Nat
<1>1. p \in Seq(Bytes)
  BY ProgramsAssumption
<1> QED
  BY <1>1

SearchRange ==
  /\ Len(program) \in Nat /\ offset \in Nat /\ ahead \in Nat /\ found \in Nat /\ start \in Nat
  /\ offset + ahead <= Len(program) /\ found <= Len(Marker) - 1
  /\ ahead <= Buffer /\ start <= Len(program)

LEMMA SearchNumbers ==
  ASSUME program \in Programs
  PROVE  SearchTypeOK <=> SearchRange /\ result \in {"none", "image", "failed", "missing"}
<1>1. Len(program) \in Nat
  BY ProgramLength
<1>2. Len(Marker) \in Nat \ {0} /\ Buffer \in Nat
  BY MarkerLength, BufferAssumption
<1> QED
  BY <1>1, <1>2 DEF SearchTypeOK, SearchRange

LEMMA SearchTypeInit == SearchInit => SearchTypeOK
<1> SUFFICES ASSUME SearchInit PROVE SearchTypeOK
  OBVIOUS
<1>1. Len(program) \in Nat
  BY ProgramLength DEF SearchInit
<1>2. SearchRange
  BY <1>1, MarkerLength, BufferAssumption DEF SearchInit, SearchRange
<1> QED
  BY <1>2, SearchNumbers DEF SearchInit

LEMMA SearchTypeStep == SearchTypeOK /\ [SearchNext]_searchVars => SearchTypeOK'
<1> SUFFICES ASSUME SearchTypeOK, [SearchNext]_searchVars PROVE SearchTypeOK'
  OBVIOUS
<1>1. program \in Programs /\ program' = program
  BY DEF SearchTypeOK, SearchNext, Read, Match, Mismatch, searchVars
<1>2. SearchRange
  BY <1>1, SearchNumbers
<1>3. SearchRange'
  <2> USE <1>1, <1>2, MarkerLength, BufferAssumption DEF SearchRange
  <2>1. CASE Read
    BY <2>1 DEF Read
  <2>2. CASE Match
    BY <2>2 DEF Match
  <2>3. CASE Mismatch
    BY <2>3 DEF Mismatch
  <2>4. CASE UNCHANGED searchVars
    BY <2>4 DEF searchVars
  <2> QED
    BY <2>1, <2>2, <2>3, <2>4 DEF SearchNext
<1>4. result' \in {"none", "image", "failed", "missing"}
  BY DEF SearchTypeOK, SearchNext, Read, Match, Mismatch, searchVars
<1>5. (program \in Programs)'
  BY <1>1
<1> QED
  BY <1>3, <1>4, <1>5, <1>1, MarkerLength, BufferAssumption DEF SearchTypeOK, SearchRange

-----------------------------------------------------------------------------
(* Types *)

LEMMA TypeInit == Init => TypeOK
<1> SUFFICES ASSUME Init PROVE TypeOK
  OBVIOUS
<1>1. RelocateTypeOK
  <2>1. stage \in Stages /\ ram \in BOOLEAN /\ marked \in BOOLEAN
    BY DEF Init, RelocateInit, Stages
  <2>2. old \subseteq Entries /\ new \subseteq Entries /\ moved \subseteq Entries
    BY DEF Init, RelocateInit
  <2>3. moveFaults \in 0 .. MaxMoveFaults
    BY RelocateAssumption DEF Init, RelocateInit
  <2> QED
    BY <2>1, <2>2, <2>3 DEF RelocateTypeOK
<1>2. EnterTypeOK
  BY DEF Init, EnterInit, EnterTypeOK
<1>3. SearchTypeOK
  BY SearchTypeInit DEF Init
<1> QED
  BY <1>1, <1>2, <1>3 DEF TypeOK

LEMMA MoveType == RelocateTypeOK /\ [RelocateNext]_moveVars => RelocateTypeOK'
<1> SUFFICES ASSUME RelocateTypeOK, [RelocateNext]_moveVars PROVE RelocateTypeOK'
  OBVIOUS
<1> USE RelocateAssumption DEF RelocateTypeOK, Stages, MoveFault
<1>1. CASE Decide
  BY <1>1 DEF Decide
<1>2. CASE CopyDirs
  BY <1>2 DEF CopyDirs
<1>3. CASE MoveFile
  BY <1>3 DEF MoveFile, Entries
<1>4. CASE DeleteRest
  BY <1>4 DEF DeleteRest
<1>5. CASE Reexec
  BY <1>5 DEF Reexec
<1>6. CASE MoveFails
  BY <1>6 DEF MoveFails
<1>7. CASE UNCHANGED moveVars
  BY <1>7 DEF moveVars
<1> QED
  BY <1>1, <1>2, <1>3, <1>4, <1>5, <1>6, <1>7 DEF RelocateNext

\* A process that attaches or mounts a device, or whose goroutine runs, has one;
\* there is no goroutine before it is attached.
MineInv ==
  \A p \in Enters :
    /\ step[p] \in {"attach", "mount"} \/ asks[p] # "none" => mine[p] \in Devices
    /\ step[p] \in {"start", "attach"} => asks[p] = "none"

EnterInv == EnterTypeOK /\ MineInv

LEMMA EnterType ==
  ASSUME EnterInv, NEW p \in Enters, Enter(p) PROVE EnterInv'
<1> USE DEF EnterInv, EnterTypeOK, MineInv, Goto, Asking, Clear, Quits, Unasked, devVars
<1>1. CASE GetFree(p)
  BY <1>1 DEF GetFree
<1>2. CASE Bind(p)
  BY <1>2 DEF Bind
<1>3. CASE EnterFails(p)
  BY <1>3 DEF EnterFails
<1>4. CASE Attach(p)
  <2>1. mine[p] \in Devices
    BY <1>4 DEF Attach
  <2>2. file' \in [Devices -> Enters \cup {None}]
    BY <1>4, <2>1 DEF Attach
  <2>3. beaten \in BOOLEAN
    OBVIOUS
  <2>4. beaten' \in BOOLEAN
    BY <1>4, <2>3 DEF Attach
  <2>5. asks' \in [Enters -> {"none", "asleep", "info", "failed", "done"}]
    BY <1>4 DEF Attach
  <2>6. \A q \in Enters : q # p => asks'[q] = asks[q] /\ step'[q] = step[q]
    BY <1>4 DEF Attach
  <2> QED
    BY <1>4, <2>1, <2>2, <2>4, <2>5, <2>6 DEF Attach
<1>5. CASE GetInfo(p)
  BY <1>5 DEF GetInfo
<1>12. CASE SetInfo(p)
  <2>1. file' \in [Devices -> Enters \cup {None}] /\ auto' \subseteq Devices
    BY <1>12 DEF SetInfo
  <2>2. late \in BOOLEAN
    OBVIOUS
  <2>3. late' \in BOOLEAN
    BY <1>12, <2>2 DEF SetInfo
  <2>4. asks' \in [Enters -> {"none", "asleep", "info", "failed", "done"}]
    BY <1>12 DEF SetInfo
  <2>5. \A q \in Enters : asks'[q] # "none" => asks[q] # "none"
    BY <1>12 DEF SetInfo
  <2>7. UNCHANGED <<users, step, first, mine, root, beaten, stale, lost>>
    BY <1>12 DEF SetInfo
  <2>8. MineInv'
    BY <2>5, <2>7
  <2>9. EnterTypeOK'
    <3> HIDE DEF Clear, Asking, MineInv
    <3> QED
      BY <2>1, <2>3, <2>4, <2>7
  <2> HIDE DEF MineInv, EnterTypeOK
  <2> QED
    BY <2>8, <2>9
<1>6. CASE Detach(p)
  <2>1. file' \in [Devices -> Enters \cup {None}] /\ auto' \subseteq Devices
    BY <1>6 DEF Detach
  <2>2. stale \in BOOLEAN
    OBVIOUS
  <2>3. stale' \in BOOLEAN
    BY <1>6, <2>2 DEF Detach
  <2>4. lost' \subseteq Enters
    BY <1>6 DEF Detach
  <2>5. asks' \in [Enters -> {"none", "asleep", "info", "failed", "done"}]
    BY <1>6 DEF Detach
  <2>6. /\ step' = [step EXCEPT ![p] = "gone"]
        /\ \A q \in Enters : asks'[q] # "none" => asks[q] # "none"
        /\ UNCHANGED <<users, first, mine, root, beaten, late>>
    BY <1>6 DEF Detach
  <2>7. MineInv'
    BY <2>6
  <2>8. EnterTypeOK'
    <3> HIDE DEF Clear, Asking, MineInv
    <3> QED
      BY <2>1, <2>3, <2>4, <2>5, <2>6
  <2> HIDE DEF MineInv, EnterTypeOK
  <2> QED
    BY <2>7, <2>8
<1>7. CASE Gone(p)
  BY <1>7 DEF Gone
<1>8. CASE MountImage(p)
  BY <1>8 DEF MountImage
<1>9. CASE Pivot(p)
  BY <1>9 DEF Pivot
<1>10. CASE ChildEnds(p)
  BY <1>10 DEF ChildEnds, Leaves
<1>11. CASE Killed(p)
  BY <1>11 DEF Killed, Leaves
<1> QED
  BY <1>1, <1>2, <1>3, <1>4, <1>5, <1>6, <1>7, <1>8, <1>9, <1>10, <1>11, <1>12
     DEF Enter

AllInv == RelocateTypeOK /\ EnterInv /\ SearchTypeOK

\* What a step of the whole is to its parts.
LEMMA NextMoves == [Next]_vars => [RelocateNext]_moveVars
  BY DEF Next, vars

LEMMA NextSearches == [Next]_vars => [SearchNext]_searchVars
  BY DEF Next, vars

LEMMA NextEnters ==
  ASSUME [Next]_vars PROVE UNCHANGED enterVars \/ \E p \in Enters : Enter(p)
  BY DEF Next, vars

LEMMA AllNext == AllInv /\ [Next]_vars => AllInv'
<1> SUFFICES ASSUME AllInv, [Next]_vars PROVE AllInv'
  OBVIOUS
<1>1. RelocateTypeOK'
  BY MoveType, NextMoves DEF AllInv
<1>2. SearchTypeOK'
  BY SearchTypeStep, NextSearches DEF AllInv
<1>3. EnterInv'
  <2>1. CASE UNCHANGED enterVars
    BY <2>1 DEF AllInv, EnterInv, EnterTypeOK, MineInv, enterVars, devVars
  <2>2. ASSUME NEW p \in Enters, Enter(p) PROVE EnterInv'
    BY <2>2, EnterType DEF AllInv
  <2> QED
    BY <2>1, <2>2, NextEnters
<1> QED
  BY <1>1, <1>2, <1>3 DEF AllInv

LEMMA AllAlways == Spec => []AllInv
<1>1. Init => AllInv
  BY TypeInit DEF Init, EnterInit, TypeOK, AllInv, EnterInv, MineInv
<1> QED
  BY <1>1, AllNext, PTL DEF Spec

\* Every variable of Entering stays in its type.
THEOREM TypeCorrect == Spec => []TypeOK
<1>1. AllInv => TypeOK
  BY DEF AllInv, EnterInv, TypeOK
<1> QED
  BY <1>1, AllAlways, PTL

-----------------------------------------------------------------------------
(* The move of the root *)

\* What the walk came past is in the new root, and all of it is when the walk is
\* over and when /init starts once more.
MoveInv ==
  /\ old \cup new = Entries
  /\ new = moved
  /\ stage = "exec" \/ marked => new = Entries
  /\ ram /\ stage = "done" => new = Entries
  /\ IsFiniteSet(old \cap new \cap Regular)
  /\ Cardinality(old \cap new \cap Regular) <= moveFaults

LEMMA MoveInit == Init => MoveInv
  BY FS_EmptySet, RelocateAssumption DEF Init, RelocateInit, MoveInv, Entries

\* What is held twice does not grow when the set of it does not.
LEMMA FewerTwice ==
  ASSUME NEW S, IsFiniteSet(S), NEW T, T \subseteq S, NEW n \in Nat, Cardinality(S) <= n
  PROVE  IsFiniteSet(T) /\ Cardinality(T) <= n
<1>1. IsFiniteSet(T) /\ Cardinality(T) <= Cardinality(S)
  BY FS_Subset
<1>2. Cardinality(T) \in Nat /\ Cardinality(S) \in Nat
  BY <1>1, FS_CardinalityType
<1> QED
  BY <1>1, <1>2

LEMMA MoveNext ==
  RelocateTypeOK /\ MoveInv /\ [RelocateNext]_moveVars => MoveInv'
<1> SUFFICES ASSUME RelocateTypeOK, MoveInv, [RelocateNext]_moveVars PROVE MoveInv'
  OBVIOUS
<1> DEFINE Twice == old \cap new \cap Regular
<1>t. moveFaults \in Nat
  BY RelocateAssumption DEF RelocateTypeOK
<1>1. CASE Decide
  BY <1>1 DEF Decide, MoveInv
<1>2. CASE CopyDirs
  BY <1>2 DEF CopyDirs, MoveInv
<1>3. CASE MoveFile
  <2>1. PICK e \in Entries \ moved :
          /\ new' = new \cup {e} /\ moved' = moved \cup {e}
          /\ \/ e \in Regular /\ old' = old \ {e} /\ UNCHANGED moveFaults
             \/ e \in Regular /\ UNCHANGED old /\ MoveFault
             \/ e \in Special /\ UNCHANGED <<old, moveFaults>>
    BY <1>3 DEF MoveFile
  <2>2. stage = "move" /\ UNCHANGED <<stage, ram, marked>>
    BY <1>3 DEF MoveFile
  <2>3. old' \cup new' = Entries /\ new' = moved'
    BY <2>1 DEF MoveInv
  <2>4. stage' = "exec" \/ marked' => new' = Entries
    BY <2>1, <2>2 DEF MoveInv
  <2>5. IsFiniteSet(Twice') /\ Cardinality(Twice') <= moveFaults'
    <3>1. CASE e \in Regular /\ old' = old \ {e} /\ UNCHANGED moveFaults
      <4>1. Twice' \subseteq Twice
        BY <2>1, <3>1
      <4> QED
        BY <4>1, <3>1, <1>t, FewerTwice DEF MoveInv
    <3>2. CASE e \in Regular /\ UNCHANGED old /\ MoveFault
      <4>1. Twice' \subseteq Twice \cup {e} /\ moveFaults' = moveFaults + 1
        BY <2>1, <3>2 DEF MoveFault
      <4>2. /\ IsFiniteSet(Twice \cup {e})
            /\ Cardinality(Twice \cup {e}) \in {Cardinality(Twice), Cardinality(Twice) + 1}
        BY FS_AddElement DEF MoveInv
      <4>3. Cardinality(Twice) \in Nat /\ Cardinality(Twice) <= moveFaults
        BY FS_CardinalityType DEF MoveInv
      <4>4. Cardinality(Twice \cup {e}) <= moveFaults + 1 /\ moveFaults + 1 \in Nat
        BY <4>2, <4>3, <1>t
      <4> QED
        BY <4>1, <4>2, <4>4, FewerTwice
    <3>3. CASE e \in Special /\ UNCHANGED <<old, moveFaults>>
      <4>1. Twice' \subseteq Twice
        BY <2>1, <3>3, RelocateAssumption
      <4> QED
        BY <4>1, <3>3, <1>t, FewerTwice DEF MoveInv
    <3> QED
      BY <2>1, <3>1, <3>2, <3>3
  <2> QED
    BY <2>2, <2>3, <2>4, <2>5 DEF MoveInv
<1>4. CASE DeleteRest
  <2>1. moved = Entries /\ new = Entries /\ new' = Entries /\ moved' = Entries
    BY <1>4 DEF DeleteRest, MoveInv
  <2>2. old' \subseteq old /\ Twice' \subseteq Twice /\ stage' = "exec"
    BY <1>4 DEF DeleteRest
  <2>3. moveFaults' \in Nat /\ moveFaults <= moveFaults'
    BY <1>4, <1>t DEF DeleteRest, MoveFault
  <2>4. IsFiniteSet(Twice') /\ Cardinality(Twice') <= moveFaults
    BY <2>2, <1>t, FewerTwice DEF MoveInv
  <2>5. Cardinality(Twice') <= moveFaults'
    BY <2>3, <2>4, <1>t, FS_CardinalityType
  <2> QED
    BY <2>1, <2>2, <2>4, <2>5 DEF MoveInv
<1>5. CASE Reexec
  BY <1>5 DEF Reexec, MoveInv
<1>6. CASE MoveFails
  BY <1>6, <1>t, FS_CardinalityType DEF MoveFails, MoveFault, MoveInv
<1>7. CASE UNCHANGED moveVars
  BY <1>7 DEF moveVars, MoveInv
<1> QED
  BY <1>1, <1>2, <1>3, <1>4, <1>5, <1>6, <1>7 DEF RelocateNext

\* At no time is an entry of the initial root in neither file system, who goes on
\* from the new one has them all, and no more regular files are held twice than
\* removals failed (transferroot.go:97-197).
THEOREM WholeMoved == Spec => []MovesWhole
<1>1. TypeOK /\ MoveInv /\ [Next]_vars => MoveInv'
  BY MoveNext DEF Next, vars, TypeOK
<1>2. MoveInv => MovesWhole
  BY DEF MoveInv, MovesWhole
<1> QED
  BY <1>1, <1>2, MoveInit, TypeCorrect, PTL DEF Spec

-----------------------------------------------------------------------------
(* Loop devices *)

\* Who a device is attached for has it for its own, since its attach call.  The
\* kernel clears a device when its last user leaves, if it was asked to; and who is
\* neither process 1 nor ended too early is alive with its goroutine, or has asked.
DeviceInv ==
  /\ \A p \in first : asks[p] = "none"
  /\ \A d \in Devices :
       /\ d \in auto => users[d] # {} /\ file[d] # None
       /\ file[d] # None =>
            /\ mine[file[d]] = d
            /\ step[file[d]] \in {"mount", "pivot", "init", "exit", "gone"}
            /\ \/ file[d] \in first \cup lost \/ d \in auto
               \/ asks[file[d]] \in {"asleep", "info", "failed"}
            /\ asks[file[d]] # "none" => step[file[d]] # "gone"

LEMMA DeviceNext ==
  ASSUME EnterInv, DeviceInv, NEW p \in Enters, Enter(p) PROVE DeviceInv'
<1> USE NamesAssumption
    DEF EnterInv, EnterTypeOK, MineInv, DeviceInv, Goto, Asking, Clear, Quits, Unasked,
        devVars
<1>1. CASE GetFree(p)
  BY <1>1 DEF GetFree
<1>2. CASE Bind(p)
  BY <1>2 DEF Bind
<1>3. CASE EnterFails(p)
  <2>1. CASE UNCHANGED <<file, lost>>
    BY <1>3, <2>1 DEF EnterFails
  <2>2. CASE /\ step[p] = "attach" /\ file[mine[p]] = None
             /\ file' = [file EXCEPT ![mine[p]] = p] /\ lost' = lost \cup {p}
    <3>1. \A d \in Devices : file[d] # p
      BY <2>2
    <3>2. asks[p] = "none" /\ mine[p] \in Devices
      BY <2>2
    <3> QED
      BY <1>3, <2>2, <3>1, <3>2 DEF EnterFails
  <2> QED
    BY <1>3, <2>1, <2>2 DEF EnterFails
<1>4. CASE Attach(p)
  BY <1>4 DEF Attach
<1>5. CASE GetInfo(p)
  BY <1>5 DEF GetInfo
<1>12. CASE SetInfo(p)
  BY <1>12 DEF SetInfo
<1>6. CASE Detach(p)
  BY <1>6 DEF Detach
<1>7. CASE Gone(p)
  BY <1>7 DEF Gone
<1>8. CASE MountImage(p)
  BY <1>8 DEF MountImage
<1>9. CASE Pivot(p)
  BY <1>9 DEF Pivot
<1>10. CASE ChildEnds(p)
  BY <1>10 DEF ChildEnds, Leaves
<1>11. CASE Killed(p)
  BY <1>11 DEF Killed, Leaves
<1> QED
  BY <1>1, <1>2, <1>3, <1>4, <1>5, <1>6, <1>7, <1>8, <1>9, <1>10, <1>11, <1>12
     DEF Enter

LEMMA DeviceAlways == Spec => []DeviceInv
<1>1. Init => DeviceInv
  BY DEF Init, EnterInit, DeviceInv
<1>2. AllInv /\ DeviceInv /\ [Next]_vars => DeviceInv'
  <2> SUFFICES ASSUME AllInv, DeviceInv, [Next]_vars PROVE DeviceInv'
    OBVIOUS
  <2>1. CASE UNCHANGED enterVars
    BY <2>1 DEF DeviceInv, enterVars, devVars
  <2>2. ASSUME NEW p \in Enters, Enter(p) PROVE DeviceInv'
    BY <2>2, DeviceNext DEF AllInv
  <2> QED
    BY <2>1, <2>2 DEF Next, vars
<1> QED
  BY <1>1, <1>2, AllAlways, PTL DEF Spec

\* A device whose process is gone is free or will be when its last user leaves; not
\* that of process 1, nor of who ended undetached before the kernel was asked for it
\* (enter.go:117-140).
THEOREM DevicesReturn == Spec => []NothingLeaks
<1>1. AllInv /\ DeviceInv => NothingLeaks
  BY DEF AllInv, EnterInv, EnterTypeOK, DeviceInv, NothingLeaks
<1> QED
  BY <1>1, AllAlways, DeviceAlways, PTL

-----------------------------------------------------------------------------
(* The root of a process *)

Benign == ~beaten /\ ~late /\ ~stale

\* Unless one of the three hazards came true, nobody takes the device away from a
\* process that is to mount it, or whose goroutine has not asked for it.
Holds == {"asleep", "info", "failed"}
Waits(p) == asks[p] \in Holds \/ step[p] = "mount"

RootInv ==
  Benign =>
    \A p \in Enters :
      /\ root[p] \in {None, p}
      /\ step[p] = "mount" => p \in first \/ asks[p] \in Holds
      /\ Waits(p) => file[mine[p]] = p /\ mine[p] \notin auto

LEMMA RootNext ==
  ASSUME EnterInv, DeviceInv, RootInv, NEW p \in Enters, Enter(p) PROVE RootInv'
<1> USE NamesAssumption
    DEF EnterInv, EnterTypeOK, MineInv, DeviceInv, RootInv, Benign, Holds, Waits, Goto,
        Asking, Clear, Quits, Unasked, devVars
<1>1. CASE GetFree(p)
  BY <1>1 DEF GetFree
<1>2. CASE Bind(p)
  BY <1>2 DEF Bind
<1>3. CASE EnterFails(p)
  BY <1>3 DEF EnterFails
<1>4. CASE Attach(p)
  BY <1>4 DEF Attach
<1>5. CASE GetInfo(p)
  BY <1>5 DEF GetInfo
<1>12. CASE SetInfo(p)
  <2>1. CASE Asking(p, "failed") /\ UNCHANGED <<file, auto, late>>
    BY <1>12, <2>1 DEF SetInfo
  <2>2. CASE /\ file[mine[p]] # None /\ Clear(mine[p]) /\ Asking(p, "done")
             /\ late' = (late \/ step[p] = "mount")
    <3> SUFFICES ASSUME ~beaten', ~late', ~stale' PROVE RootInv'
      OBVIOUS
    <3>1. /\ ~beaten /\ ~late /\ ~stale /\ step[p] # "mount" /\ asks[p] = "info"
          /\ UNCHANGED <<users, step, first, mine, root>>
      BY <1>12, <2>2 DEF SetInfo
    <3>2. file[mine[p]] = p
      BY <3>1
    <3>3. \A q \in Enters : q # p /\ Waits(q) => mine[q] # mine[p]
      BY <3>1, <3>2
    <3>4. \A q \in Enters : Waits(q)' => Waits(q) /\ q # p
      BY <2>2, <3>1
    <3>5. \A d \in Devices : d # mine[p] => file'[d] = file[d] /\ (d \in auto' <=> d \in auto)
      BY <2>2
    <3>6. \A q \in Enters : Waits(q)' => file'[mine'[q]] = q /\ mine'[q] \notin auto'
      BY <3>1, <3>3, <3>4, <3>5
    <3>7. \A q \in Enters : step'[q] = "mount" => q \in first' \/ asks'[q] \in Holds
      BY <2>2, <3>1
    <3> QED
      BY <3>1, <3>6, <3>7
  <2> QED
    BY <1>12, <2>1, <2>2 DEF SetInfo
<1>6. CASE Detach(p)
  <2> SUFFICES ASSUME ~beaten', ~late', ~stale' PROVE RootInv'
    OBVIOUS
  <2>1. /\ ~beaten /\ ~late /\ step[p] = "exit" /\ mine[p] \in Devices
        /\ UNCHANGED <<users, first, mine, root>>
        /\ asks' = [asks EXCEPT ![p] = "none"] /\ step' = [step EXCEPT ![p] = "gone"]
    BY <1>6 DEF Detach
  <2>2. \A q \in Enters : Waits(q)' => Waits(q) /\ q # p
    BY <2>1
  <2>3. \A q \in Enters :
          (step[q] = "mount" => q \in first \/ asks[q] \in Holds)
            => (step'[q] = "mount" => q \in first' \/ asks'[q] \in Holds)
    BY <2>1
  <2>4. CASE UNCHANGED <<file, auto, stale>>
    <3>1. ~stale
      BY <2>4
    <3> QED
      BY <2>1, <2>2, <2>3, <2>4, <3>1
  <2>5. CASE Clear(mine[p]) /\ stale' = (stale \/ file[mine[p]] \notin {None, p})
    <3>1. ~stale /\ file[mine[p]] \in {None, p}
      BY <2>5
    <3>2. \A q \in Enters : q # p /\ Waits(q) => mine[q] # mine[p]
      BY <2>1, <3>1
    <3>3. \A d \in Devices : d # mine[p] => file'[d] = file[d] /\ (d \in auto' <=> d \in auto)
      BY <2>5
    <3>4. \A q \in Enters : Waits(q)' => file'[mine'[q]] = q /\ mine'[q] \notin auto'
      BY <2>1, <2>2, <3>1, <3>2, <3>3
    <3> QED
      BY <2>1, <2>3, <3>1, <3>4
  <2> QED
    BY <1>6, <2>4, <2>5 DEF Detach
<1>7. CASE Gone(p)
  BY <1>7 DEF Gone
<1>8. CASE MountImage(p)
  BY <1>8 DEF MountImage
<1>9. CASE Pivot(p)
  BY <1>9 DEF Pivot
<1>10. CASE ChildEnds(p)
  BY <1>10 DEF ChildEnds, Leaves
<1>11. CASE Killed(p)
  BY <1>11 DEF Killed, Leaves
<1> QED
  BY <1>1, <1>2, <1>3, <1>4, <1>5, <1>6, <1>7, <1>8, <1>9, <1>10, <1>11, <1>12
     DEF Enter

\* A process has its own image as its root, or none, unless losetup.Attach hid that
\* it attached nothing, a device was not mounted after three seconds, or one was detached
\* that was another's by then (enter.go:113-132).
THEOREM OwnRoot == Spec => []RootIsMine
<1>1. Init => RootInv
  BY DEF Init, EnterInit, RootInv, Holds, Waits
<1>2. AllInv /\ DeviceInv /\ RootInv /\ [Next]_vars => RootInv'
  <2> SUFFICES ASSUME AllInv, DeviceInv, RootInv, [Next]_vars PROVE RootInv'
    OBVIOUS
  <2>1. CASE UNCHANGED enterVars
    BY <2>1 DEF RootInv, Benign, Holds, Waits, enterVars, devVars
  <2>2. ASSUME NEW p \in Enters, Enter(p) PROVE RootInv'
    BY <2>2, RootNext DEF AllInv
  <2> QED
    BY <2>1, <2>2 DEF Next, vars
<1>3. RootInv => RootIsMine
  BY DEF RootInv, Benign, RootIsMine
<1> QED
  BY <1>1, <1>2, <1>3, AllAlways, DeviceAlways, PTL DEF Spec

-----------------------------------------------------------------------------
(* The search of the image *)

\* While it goes on, what it has counted is there, and of a clean marker that began
\* before the place reached it has counted all that is before it.
Counted == Ends(found, offset)

Passing ==
  \A i \in 1 .. Len(program) :
    Clean(i) /\ i - Len(Marker) <= offset =>
      offset < i /\ found = offset - (i - Len(Marker))

SearchInv == (result = "none" => Counted /\ Passing) /\ MarkerBefore /\ FirstMarker

LEMMA SearchBegins == SearchInit => SearchInv
<1> SUFFICES ASSUME SearchInit PROVE SearchInv
  OBVIOUS
<1>1. result = "none" /\ offset = 0 /\ found = 0 /\ Len(program) \in Nat
      /\ Len(Marker) \in Nat \ {0}
  BY ProgramLength, MarkerLength DEF SearchInit
<1>2. Counted
  BY <1>1 DEF Counted, Ends
<1>3. Passing
  <2> SUFFICES ASSUME NEW i \in 1 .. Len(program), Clean(i), i - Len(Marker) <= offset
               PROVE  offset < i /\ found = offset - (i - Len(Marker))
    BY DEF Passing
  <2>1. Len(Marker) <= i
    BY <1>1 DEF Clean, Ends
  <2> QED
    BY <2>1, <1>1
<1> QED
  BY <1>1, <1>2, <1>3 DEF SearchInv, MarkerBefore, FirstMarker

\* One byte more, or none of them.
LEMMA EndsMore ==
  ASSUME NEW n \in Nat, NEW i \in Nat, Ends(n, i), program[i + 1] = Marker[n + 1]
  PROVE  Ends(n + 1, i + 1)
<1> SUFFICES ASSUME NEW j \in 1 .. n + 1 PROVE program[i + 1 - (n + 1) + j] = Marker[j]
  BY DEF Ends
<1>1. CASE j = n + 1
  <2>1. i + 1 - (n + 1) + j = i + 1
    BY <1>1 DEF Ends
  <2> QED
    BY <2>1, <1>1
<1>2. CASE j # n + 1
  <2>1. j \in 1 .. n /\ i + 1 - (n + 1) + j = i - n + j
    BY <1>2
  <2> QED
    BY <2>1 DEF Ends
<1> QED
  BY <1>1, <1>2

\* What is Passing at the next byte: where a clean marker begins nothing is counted.
LEMMA PassingStep ==
  ASSUME SearchTypeOK, Counted, Passing, NEW i \in 1 .. Len(program), Clean(i),
         i - Len(Marker) <= offset
  PROVE  /\ offset < i /\ found = offset - (i - Len(Marker))
         /\ offset < Len(program)
         /\ program[offset + 1] = Marker[found + 1]
<1>1. offset < i /\ found = offset - (i - Len(Marker))
  BY DEF Passing
<1>2. Len(Marker) \in Nat /\ Len(program) \in Nat /\ offset \in Nat /\ found \in Nat
  BY SearchNumbers, MarkerLength DEF SearchTypeOK, SearchRange
<1>3. found + 1 \in 1 .. Len(Marker) /\ i - Len(Marker) + (found + 1) = offset + 1
  BY <1>1, <1>2
<1>4. program[i - Len(Marker) + (found + 1)] = Marker[found + 1]
  BY <1>3 DEF Clean, Ends
<1> QED
  BY <1>1, <1>2, <1>3, <1>4

\* A clean marker cannot have ended already, and has if the search comes to its end.
LEMMA SearchStep == SearchTypeOK /\ SearchInv /\ [SearchNext]_searchVars => SearchInv'
<1> SUFFICES ASSUME SearchTypeOK, SearchInv, [SearchNext]_searchVars PROVE SearchInv'
  OBVIOUS
<1>0. /\ program' = program
      /\ Len(program) \in Nat /\ Len(Marker) \in Nat \ {0}
      /\ offset \in Nat /\ ahead \in Nat /\ found \in Nat /\ start \in Nat
      /\ offset + ahead <= Len(program) /\ found <= Len(Marker) - 1
  BY SearchNumbers, MarkerLength DEF SearchTypeOK, SearchRange, SearchNext, Read, Match, Mismatch, searchVars
<1>p. /\ \A n, i : Ends(n, i)' <=> Ends(n, i)
      /\ \A i : Clean(i)' <=> Clean(i)
  BY <1>0 DEF Ends, Clean
<1>1. CASE Read
  <2>1. result = "none" /\ found' = found /\ offset' = offset /\ start' = start
    BY <1>1 DEF Read
  <2>2. Counted' /\ Passing'
    BY <2>1, <1>0, <1>p DEF SearchInv, Counted, Passing
  <2>3. MarkerBefore'
    BY <1>1 DEF Read, MarkerBefore
  <2>4. ASSUME result' = "missing", NEW i \in 1 .. Len(program) PROVE ~Clean(i)
    <3>1. offset = Len(program)
      BY <1>1, <2>4, <2>1 DEF Read
    <3>2. ~(offset < i) /\ i - Len(Marker) <= offset
      BY <3>1, <1>0
    <3> QED
      BY <3>2, <2>1 DEF SearchInv, Passing
  <2>5. result' # "image"
    BY <1>1 DEF Read
  <2>6. FirstMarker'
    BY <2>4, <2>5, <1>p, <1>0 DEF FirstMarker
  <2> QED
    BY <2>2, <2>3, <2>6 DEF SearchInv
<1>2. CASE Match
  <2>0. /\ result = "none" /\ program[offset + 1] = Marker[found + 1]
        /\ Counted /\ Passing
        /\ offset + 1 <= Len(program)
    BY <1>2, <1>0 DEF Match, SearchInv
  <2>1. Ends(found + 1, offset + 1)
    BY <2>0, <1>0, EndsMore DEF Counted
  <2>2. CASE found + 1 = Len(Marker)
    <3>1. result' = "image" /\ start' = offset + 1
      BY <1>2, <2>2 DEF Match
    <3>2. MarkerBefore'
      BY <3>1, <2>1, <2>2, <1>p DEF MarkerBefore
    <3>3. ASSUME NEW i \in 1 .. offset, Clean(i) PROVE FALSE
      <4>1. i \in 1 .. Len(program) /\ ~(offset < i) /\ i - Len(Marker) <= offset
        BY <3>3, <2>0, <1>0
      <4> QED
        BY <4>1, <3>3, <2>0 DEF Passing
    <3>4. FirstMarker'
      BY <3>1, <3>3, <1>p, <1>0 DEF FirstMarker
    <3> QED
      BY <3>1, <3>2, <3>4 DEF SearchInv
  <2>3. CASE found + 1 # Len(Marker)
    <3>1. result' = "none" /\ found' = found + 1 /\ offset' = offset + 1
      BY <1>2, <2>3, <2>0 DEF Match
    <3>2. Counted'
      BY <3>1, <2>1, <1>p DEF Counted
    <3>3. ASSUME NEW i \in 1 .. Len(program), Clean(i), i - Len(Marker) <= offset + 1
          PROVE  offset + 1 < i /\ found + 1 = offset + 1 - (i - Len(Marker))
      <4>1. CASE i - Len(Marker) <= offset
        <5>1. offset < i /\ found = offset - (i - Len(Marker))
          BY <4>1, <3>3, <2>0, PassingStep
        <5> QED
          BY <5>1, <2>3, <1>0
      <4>2. CASE i - Len(Marker) = offset + 1
        <5>1. found + 1 \in 1 .. Len(Marker) - 1
          BY <2>3, <1>0
        <5> QED
          BY <5>1, <4>2, <2>1, <3>3 DEF Clean
      <4> QED
        BY <4>1, <4>2, <3>3, <1>0
    <3>4. Passing'
      BY <3>1, <3>3, <1>p, <1>0 DEF Passing
    <3> QED
      BY <3>1, <3>2, <3>4 DEF SearchInv, MarkerBefore, FirstMarker
  <2> QED
    BY <2>2, <2>3
<1>3. CASE Mismatch
  <2>0. /\ result = "none" /\ result' = "none"
        /\ program[offset + 1] # Marker[found + 1]
        /\ found' = 0 /\ offset' = offset + 1
        /\ Counted /\ Passing
    BY <1>3 DEF Mismatch, SearchInv
  <2>1. Counted'
    BY <2>0, <1>0 DEF Counted, Ends
  <2>2. ASSUME NEW i \in 1 .. Len(program), Clean(i), i - Len(Marker) <= offset + 1
        PROVE  offset + 1 < i /\ 0 = offset + 1 - (i - Len(Marker))
    <3>1. ~(i - Len(Marker) <= offset)
      BY <2>2, <2>0, PassingStep
    <3> QED
      BY <3>1, <2>2, <1>0
  <2>3. Passing'
    BY <2>0, <2>2, <1>p, <1>0 DEF Passing
  <2> QED
    BY <2>0, <2>1, <2>3 DEF SearchInv, MarkerBefore, FirstMarker
<1>4. CASE UNCHANGED searchVars
  BY <1>4, <1>p DEF searchVars, SearchInv, Counted, Passing, MarkerBefore, FirstMarker
<1> QED
  BY <1>1, <1>2, <1>3, <1>4 DEF SearchNext

\* Whatever the program and the marker are and however it was read, what is mounted
\* follows a marker, and the first marker without a beginning of one right before it
\* is found, at the latest (enter.go:187-209).
THEOREM ImageIsFound == Spec => []ImageFound
<1>1. Init => SearchInv
  BY SearchBegins DEF Init
<1>2. AllInv /\ SearchInv /\ [Next]_vars => SearchInv'
  BY NextSearches, SearchStep DEF AllInv
<1>3. SearchInv => ImageFound
  BY DEF SearchInv, ImageFound
<1> QED
  BY <1>1, <1>2, <1>3, AllAlways, PTL DEF Spec

=============================================================================
