----------------------------- MODULE BootProofs -----------------------------
(* The safety of the first boots, for every set of disks and requests and   *)
(* any number of power losses and failing commands.                         *)
EXTENDS Boot, TLAPS

Running == Booting \cup {"rescue", "local"}

-----------------------------------------------------------------------------
(* What is on the disk while it is installed and started.                   *)

\* What tar has still to write, what it has written, and what it left out.
UnpackInv ==
  /\ pc \in {"partition", "mkfs"} => rest = Payload
  /\ pc = "unpack" =>
       /\ labelled
       /\ \A x \in {"kernel", "bin"} : x \in rest \/ tree[x] = "complete" \/ x \in holes
  /\ pc \in {"takeover", "poweroff", "grub"} =>
       /\ labelled
       /\ \A x \in {"kernel", "bin"} : tree[x] = "complete" \/ x \in holes

\* Who runs follows from what the firmware starts.
LoaderInv ==
  /\ pc = "host" => loader = "foreign"
  /\ pc \in {"medium", "partition", "mkfs"} => loader = "none"
  /\ pc \in {"unpack", "takeover", "poweroff", "grub"} => loader \in {"none", "foreign"}
  /\ pc = "finish" => loader = "macula"
  /\ pc \in Running => loader \in {"macula", "net"}

LoadedInv ==
  /\ loader = "foreign" => foreign = "complete"
  /\ loader = "macula" => labelled /\ (tree["kernel"] = "complete" \/ "kernel" \in holes)
  /\ loader \in {"macula", "net"} => tree["bin"] \in {"absent", "complete"} \/ "bin" \in holes

\* setup_macula's copy is whole before it gets its name.
CopyInv ==
  /\ pc \in {"copy", "move"} => tree["bin"] = "absent"
  /\ pc = "move" => tree["tmp"] = "complete"

DiskInv == UnpackInv /\ LoaderInv /\ LoadedInv /\ CopyInv

LEMMA DiskInit == Init => TypeOK /\ DiskInv
<1> SUFFICES ASSUME Init PROVE TypeOK /\ DiskInv
  OBVIOUS
<1>1. PICK d \in Disks :
        /\ loader = d.loader /\ foreign = d.foreign /\ sbin = d.sbin
        /\ init = d.init /\ labelled = d.labelled /\ data = d.data
  BY DEF Init
<1>2. d \in Disk
  BY DisksAssumption
<1>3. TypeOK
  <2> USE <1>1, <1>2
  <2>1. labelled \in BOOLEAN /\ loader \in Loader /\ foreign \in Extent /\ sbin \in Sbin
    BY DEF Disk, Loader, Extent, Sbin
  <2>2. init \in InitLink /\ data \subseteq {"old", "user"}
    BY DEF Disk, InitLink
  <2>3. tree \in [Piece -> Extent] /\ link \in BOOLEAN
    BY DEF Init, Extent
  <2>4. marks \subseteq Marker /\ rest \subseteq Payload /\ holes \subseteq Payload
    BY DEF Init
  <2>5. req \in Request
    BY DEF Init, NoRequest, Request
  <2>6. pc \in Place /\ asked \in BOOLEAN
    BY DEF Init, Place
  <2>7. crashes \in 0..MaxCrashes /\ faults \in 0..MaxFaults
    BY BoundsAssumption DEF Init
  <2> QED
    BY <2>1, <2>2, <2>3, <2>4, <2>5, <2>6, <2>7 DEF TypeOK
<1>4. UnpackInv /\ LoaderInv /\ LoadedInv /\ CopyInv
  BY <1>1, <1>2
  DEF Init, Disk, Loader, Piece, UnpackInv, LoaderInv, LoadedInv, CopyInv, Running, Booting
<1> QED
  BY <1>3, <1>4 DEF DiskInv

\* Every step keeps the types.
LEMMA TypeNext == TypeOK /\ [Next]_vars => TypeOK'
<1> SUFFICES ASSUME TypeOK, [Next]_vars PROVE TypeOK'
  OBVIOUS
<1> USE BoundsAssumption, RequestsAssumption
<1> USE DEF TypeOK, disk, place, files, old, inst, Goto, Place, Installing, Booting,
            Piece, Payload, Extent, Loader, Marker, Sbin, InitLink
<1>1. CASE PowerOn
  BY <1>1 DEF PowerOn
<1>2. CASE Crash
  BY <1>2 DEF Crash
<1>3. CASE Reset
  BY <1>3 DEF Reset
<1>4. CASE Start
  <2>1. (labelled \in BOOLEAN)'
    BY <1>4 DEF Start, Request
  <2>2. (pc \in Place)'
    BY <1>4 DEF Start, Request
  <2>3. (req \in Request)'
    BY <1>4 DEF Start, Request
  <2>4. (rest \subseteq Payload)'
    BY <1>4 DEF Start, Request
  <2>5. UNCHANGED <<loader, tree, link, holes, foreign, sbin, init, data, marks, asked, crashes, faults>>
    BY <1>4 DEF Start, Request
  <2> QED
    BY <2>1, <2>2, <2>3, <2>4, <2>5
<1>5. CASE Partition
  BY <1>5 DEF Partition
<1>6. CASE Mkfs
  BY <1>6 DEF Mkfs
<1>7. CASE Unpack
  <2>1. (tree \in [Piece -> Extent])'
    BY <1>7 DEF Unpack, Fault
  <2>2. (link \in BOOLEAN)'
    BY <1>7 DEF Unpack, Fault
  <2>3. (rest \subseteq Payload)'
    BY <1>7 DEF Unpack, Fault
  <2>4. (holes \subseteq Payload)'
    BY <1>7 DEF Unpack, Fault
  <2>6. (faults \in 0..MaxFaults)'
    BY <1>7 DEF Unpack, Fault
  <2>5. UNCHANGED <<labelled, loader, foreign, sbin, init, data, marks, pc, req, asked, crashes>>
    BY <1>7 DEF Unpack, Fault
  <2> QED
    BY <2>1, <2>2, <2>3, <2>4, <2>5, <2>6
<1>8. CASE WriteMarkers
  <2>1. (marks \subseteq Marker)'
    BY <1>8 DEF WriteMarkers
  <2>2. (pc \in Place)'
    BY <1>8 DEF WriteMarkers
  <2>3. UNCHANGED <<labelled, loader, tree, link, holes, foreign, sbin, init, data, req, rest, asked, crashes, faults>>
    BY <1>8 DEF WriteMarkers
  <2> QED
    BY <2>1, <2>2, <2>3
<1>9. CASE InstallGrub
  BY <1>9 DEF InstallGrub
<1>10. CASE Finish
  BY <1>10 DEF Finish
<1>11. CASE Abort
  BY <1>11 DEF Abort, Fault
<1>12. CASE Mount
  BY <1>12 DEF Mount, BinFound
<1>13. CASE Copy
  BY <1>13 DEF Copy
<1>14. CASE Move
  BY <1>14 DEF Move
<1>15. CASE Link
  BY <1>15 DEF Link
<1>16. CASE SetupInit
  BY <1>16 DEF SetupInit, MayResolve, Resolves, Stranded, AfterLinks, BinFound
<1>17. CASE Claim
  <2>1. (marks \subseteq Marker)'
    BY <1>17 DEF Claim, Fault
  <2>2. (pc \in Place)'
    BY <1>17 DEF Claim, Fault
  <2>3. (faults \in 0..MaxFaults)'
    BY <1>17 DEF Claim, Fault
  <2>4. UNCHANGED <<labelled, loader, tree, link, holes, foreign, sbin, init, data, req, rest, asked, crashes>>
    BY <1>17 DEF Claim, Fault
  <2> QED
    BY <2>1, <2>2, <2>3, <2>4
<1>18. CASE UnlinkSbin
  BY <1>18 DEF UnlinkSbin, Fault
<1>19. CASE Clear
  BY <1>19 DEF Clear, Fault
<1>20. CASE Release
  <2>1. (marks \subseteq Marker)'
    BY <1>20 DEF Release, Fault
  <2>2. (pc \in Place)'
    BY <1>20 DEF Release, Fault
  <2>3. (faults \in 0..MaxFaults)'
    BY <1>20 DEF Release, Fault
  <2>4. UNCHANGED <<labelled, loader, tree, link, holes, foreign, sbin, init, data, req, rest, asked, crashes>>
    BY <1>20 DEF Release, Fault
  <2> QED
    BY <2>1, <2>2, <2>3, <2>4
<1>21. CASE Empty
  <2>1. (data \subseteq {"old", "user"})'
    BY <1>21 DEF Empty, Fault
  <2>2. (pc \in Place)'
    BY <1>21 DEF Empty, Fault
  <2>3. (faults \in 0..MaxFaults)'
    BY <1>21 DEF Empty, Fault
  <2>4. UNCHANGED <<labelled, loader, tree, link, holes, foreign, sbin, init, marks, req, rest, asked, crashes>>
    BY <1>21 DEF Empty, Fault
  <2> QED
    BY <2>1, <2>2, <2>3, <2>4
<1>22. CASE Leave
  <2>1. (marks \subseteq Marker)'
    BY <1>22 DEF Leave, Fault
  <2>2. (pc \in Place)'
    BY <1>22 DEF Leave, Fault
  <2>3. (faults \in 0..MaxFaults)'
    BY <1>22 DEF Leave, Fault
  <2>4. UNCHANGED <<labelled, loader, tree, link, holes, foreign, sbin, init, data, req, rest, asked, crashes>>
    BY <1>22 DEF Leave
  <2> QED
    BY <2>1, <2>2, <2>3, <2>4
<1>23. CASE Wipe
  <2>1. (data \subseteq {"old", "user"})'
    BY <1>23 DEF Wipe, Fault
  <2>2. (marks \subseteq Marker)'
    BY <1>23 DEF Wipe, Fault
  <2>3. (pc \in Place)'
    BY <1>23 DEF Wipe, Fault
  <2>4. (faults \in 0..MaxFaults)'
    BY <1>23 DEF Wipe, Fault
  <2>5. UNCHANGED <<labelled, loader, tree, link, holes, foreign, sbin, init, req, rest, asked, crashes>>
    BY <1>23 DEF Wipe, Fault
  <2> QED
    BY <2>1, <2>2, <2>3, <2>4, <2>5
<1>24. CASE Unmark
  BY <1>24 DEF Unmark
<1>25. CASE Pivot
  <2>1. pc' \in {"local", "rescue"} /\ UNCHANGED <<labelled, loader, tree, link, holes, foreign, sbin,
          init, data, marks, req, rest, crashes, faults>>
    BY <1>25 DEF Pivot
  <2>2. \/ asked' = (marks \cap {"ephemeral", "takeover"} # {})
        \/ asked' = asked
    BY <1>25, Zenon DEF Pivot
  <2>3. (marks \cap {"ephemeral", "takeover"} # {}) \in BOOLEAN
    OBVIOUS
  <2>4. asked' \in BOOLEAN
    BY <2>2, <2>3
  <2> QED
    BY <2>1, <2>4
<1>26. CASE Fail
  BY <1>26 DEF Fail, Fault
<1>27. CASE Write
  BY <1>27 DEF Write
<1>28. CASE Ask
  BY <1>28 DEF Ask
<1>29. CASE Reboot
  BY <1>29 DEF Reboot
<1>30. CASE UNCHANGED vars
  BY <1>30 DEF vars
<1> QED
  BY <1>1, <1>2, <1>3, <1>4, <1>5, <1>6, <1>7, <1>8, <1>9, <1>10, <1>11, <1>12,
     <1>13, <1>14, <1>15, <1>16, <1>17, <1>18, <1>19, <1>20, <1>21, <1>22, <1>23, <1>24,
     <1>25, <1>26, <1>27, <1>28, <1>29, <1>30
  DEF Next, Boots

\* Every step keeps the disk in order.
LEMMA DiskNext == TypeOK /\ DiskInv /\ [Next]_vars => DiskInv'
<1> SUFFICES ASSUME TypeOK, DiskInv, [Next]_vars PROVE DiskInv'
  OBVIOUS
<1> USE DEF TypeOK, DiskInv, UnpackInv, LoaderInv, LoadedInv, CopyInv, Running, Booting,
            Installing, Piece, Payload, Extent, Loader,
            disk, place, files, old, inst, Goto
<1>1. CASE PowerOn
  <2>1. /\ loader = "foreign" => pc' = "host"
        /\ loader = "none" => pc' = "medium"
        /\ loader \in {"macula", "net"} => pc' \in {"mount", "rescue"}
    BY <1>1 DEF PowerOn
  <2>2. UNCHANGED <<labelled, loader, tree, link, holes, foreign, rest>>
    BY <1>1 DEF PowerOn
  <2>3. CASE loader = "foreign"
    BY <2>1, <2>2, <2>3
  <2>4. CASE loader = "none"
    BY <2>1, <2>2, <2>4
  <2>5. CASE loader \in {"macula", "net"}
    BY <2>1, <2>2, <2>5
  <2> QED
    BY <2>3, <2>4, <2>5
<1>2. CASE Crash
  BY <1>2 DEF Crash
<1>3. CASE Reset
  BY <1>3 DEF Reset
<1>4. CASE Start
  BY <1>4 DEF Start, Request
<1>5. CASE Partition
  BY <1>5 DEF Partition
<1>6. CASE Mkfs
  BY <1>6 DEF Mkfs
<1>7. CASE Unpack
  BY <1>7 DEF Unpack, Fault
<1>8. CASE WriteMarkers
  BY <1>8 DEF WriteMarkers
<1>9. CASE InstallGrub
  BY <1>9 DEF InstallGrub
<1>10. CASE Finish
  BY <1>10 DEF Finish
<1>11. CASE Abort
  <2>1. /\ loader \in {"none", "foreign"}
        /\ pc' = IF loader = "foreign" THEN "host" ELSE "medium"
    BY <1>11 DEF Abort
  <2>2. UNCHANGED <<labelled, loader, tree, link, holes, foreign, rest>>
    BY <1>11 DEF Abort
  <2> QED
    BY <2>1, <2>2
<1>12. CASE Mount
  BY <1>12 DEF Mount, BinFound
<1>13. CASE Copy
  BY <1>13 DEF Copy
<1>14. CASE Move
  BY <1>14 DEF Move
<1>15. CASE Link
  BY <1>15 DEF Link
<1>16. CASE SetupInit
  BY <1>16 DEF SetupInit, MayResolve, Resolves, Stranded, AfterLinks, BinFound
<1>17. CASE Claim
  BY <1>17 DEF Claim, Fault
<1>18. CASE UnlinkSbin
  BY <1>18 DEF UnlinkSbin, Fault
<1>19. CASE Clear
  BY <1>19 DEF Clear, Fault
<1>20. CASE Release
  BY <1>20 DEF Release, Fault
<1>21. CASE Empty
  BY <1>21 DEF Empty, Fault
<1>22. CASE Leave
  BY <1>22 DEF Leave, Fault
<1>23. CASE Wipe
  BY <1>23 DEF Wipe, Fault
<1>24. CASE Unmark
  BY <1>24 DEF Unmark
<1>25. CASE Pivot
  BY <1>25 DEF Pivot, BinFound
<1>26. CASE Fail
  BY <1>26 DEF Fail, Fault
<1>27. CASE Write
  BY <1>27 DEF Write
<1>28. CASE Ask
  BY <1>28 DEF Ask
<1>29. CASE Reboot
  BY <1>29 DEF Reboot
<1>30. CASE UNCHANGED vars
  BY <1>30 DEF vars
<1> QED
  BY <1>1, <1>2, <1>3, <1>4, <1>5, <1>6, <1>7, <1>8, <1>9, <1>10, <1>11, <1>12,
     <1>13, <1>14, <1>15, <1>16, <1>17, <1>18, <1>19, <1>20, <1>21, <1>22, <1>23, <1>24,
     <1>25, <1>26, <1>27, <1>28, <1>29, <1>30
  DEF Next, Boots

LEMMA DiskSafe == Spec => [](TypeOK /\ DiskInv)
<1>1. TypeOK /\ DiskInv /\ [Next]_vars => (TypeOK /\ DiskInv)'
  BY TypeNext, DiskNext
<1> QED
  BY <1>1, DiskInit, PTL DEF Spec

\* Every variable keeps its type, on every disk and for every bound.
THEOREM TypeCorrect == Spec => []TypeOK
  BY DiskSafe, PTL

\* What the firmware starts is there to be started, whatever was cut short, but
\* for what the tar of the installation could not read (install.sh:133).
THEOREM LoaderSafe == Spec => []LoaderWorks
<1>1. DiskInv => LoaderWorks
  BY DEF DiskInv, LoadedInv, LoaderWorks
<1> QED
  BY <1>1, DiskSafe, PTL

\* The binary that mode-disk:57 finds is whole, whatever was cut short, but for
\* one that the tar of the installation could not read (install.sh:133).
THEOREM BinSafe == Spec => []BinWhole
<1>1. DiskInv => BinWhole
  BY DEF DiskInv, LoadedInv, BinWhole
<1> QED
  BY <1>1, DiskSafe, PTL

-----------------------------------------------------------------------------
(* What the markers remember.                                               *)

Resets == {"factory-reset", "ephemeral"}
Taking == {"claim", "unlinkSbin", "clear", "release", "empty", "leave"}

\* What is certain whenever a first stage gets so far.
StageInv ==
  /\ pc \in {"wipe", "unmark", "pivot", "local"} /\ faults = 0 => "takeover" \notin marks
  /\ pc = "unmark" => data = {}
  /\ pc = "pivot" => "factory-reset" \notin marks

\* Takeover's marker, and then the one it leaves for the next boot, stand for
\* the work that is left.
CleanInv ==
  /\ loader = "net" => ~req.takeover
  /\ pc \in {"poweroff", "grub", "finish"} /\ req.takeover => "takeover" \in marks
  /\ req.takeover /\ faults = 0 =>
       /\ loader = "macula" /\ "takeover" \notin marks =>
            foreign = "absent" /\ ("old" \notin data \/ "factory-reset" \in marks)
       /\ pc \in Taking \ {"claim"} => "factory-reset" \in marks
       /\ pc \in {"release", "empty", "leave"} => foreign = "absent"
       /\ pc \in {"pivot", "local"} => "old" \notin data

\* While there is user data that nobody asked to reset, no marker says so.
UserInv ==
  /\ "user" \in data => loader \in {"macula", "net"}
  /\ "user" \in data /\ ~asked =>
       /\ marks \cap (Resets \cup {"takeover"}) = {}
       /\ pc \notin Taking \cup {"unmark"}
  /\ pc = "local" /\ ~asked => marks \cap (Resets \cup {"takeover"}) = {}

\* A reset that was asked for stays marked until it is done.
FreshInv ==
  asked /\ faults = 0 =>
    /\ loader \in {"macula", "net"}
    /\ marks \cap Resets # {} \/ data = {}
    /\ pc = "local" => marks \cap Resets # {}
    /\ pc = "pivot" => data = {}

MarkInv == StageInv /\ CleanInv /\ UserInv /\ FreshInv

LEMMA MarkInit == Init => MarkInv
<1> SUFFICES ASSUME Init PROVE MarkInv
  OBVIOUS
<1>1. PICK d \in Disks : loader = d.loader /\ data = d.data
  BY DEF Init
<1>2. "user" \notin data
  BY <1>1, DisksAssumption DEF Disk
<1>3. StageInv /\ CleanInv /\ UserInv /\ FreshInv
  BY <1>2 DEF Init, NoRequest, StageInv, CleanInv, UserInv, FreshInv, Resets, Taking
<1> QED
  BY <1>3 DEF MarkInv

LEMMA StageNext == TypeOK /\ DiskInv /\ StageInv /\ [Next]_vars => StageInv'
<1> SUFFICES ASSUME TypeOK, DiskInv, StageInv, [Next]_vars PROVE StageInv'
  OBVIOUS
<1> USE DEF TypeOK, DiskInv, LoaderInv, Running, Booting, Loader, Marker,
            disk, place, files, old, inst, Goto, Resets, Taking, StageInv
<1>1. CASE PowerOn
  BY <1>1 DEF PowerOn
<1>2. CASE Crash
  BY <1>2 DEF Crash
<1>3. CASE Reset
  BY <1>3 DEF Reset
<1>4. CASE Start
  BY <1>4 DEF Start, Request
<1>5. CASE Partition
  BY <1>5 DEF Partition
<1>6. CASE Mkfs
  BY <1>6 DEF Mkfs
<1>7. CASE Unpack
  BY <1>7 DEF Unpack, Fault
<1>8. CASE WriteMarkers
  BY <1>8 DEF WriteMarkers
<1>9. CASE InstallGrub
  BY <1>9 DEF InstallGrub
<1>10. CASE Finish
  BY <1>10 DEF Finish
<1>11. CASE Abort
  BY <1>11 DEF Abort, Fault
<1>12. CASE Mount
  BY <1>12 DEF Mount, BinFound
<1>13. CASE Copy
  BY <1>13 DEF Copy
<1>14. CASE Move
  BY <1>14 DEF Move
<1>15. CASE Link
  BY <1>15 DEF Link
<1>16. CASE SetupInit
  BY <1>16 DEF SetupInit, MayResolve, Resolves, Stranded, AfterLinks, BinFound
<1>17. CASE Claim
  BY <1>17 DEF Claim, Fault
<1>18. CASE UnlinkSbin
  BY <1>18 DEF UnlinkSbin, Fault
<1>19. CASE Clear
  BY <1>19 DEF Clear, Fault
<1>20. CASE Release
  BY <1>20 DEF Release, Fault
<1>21. CASE Empty
  BY <1>21 DEF Empty, Fault
<1>22. CASE Leave
  BY <1>22 DEF Leave, Fault
<1>23. CASE Wipe
  BY <1>23 DEF Wipe, Fault
<1>24. CASE Unmark
  BY <1>24 DEF Unmark
<1>25. CASE Pivot
  BY <1>25 DEF Pivot, BinFound
<1>26. CASE Fail
  BY <1>26 DEF Fail, Fault
<1>27. CASE Write
  BY <1>27 DEF Write
<1>28. CASE Ask
  BY <1>28 DEF Ask
<1>29. CASE Reboot
  BY <1>29 DEF Reboot
<1>30. CASE UNCHANGED vars
  BY <1>30 DEF vars
<1> QED
  BY <1>1, <1>2, <1>3, <1>4, <1>5, <1>6, <1>7, <1>8, <1>9, <1>10, <1>11, <1>12,
     <1>13, <1>14, <1>15, <1>16, <1>17, <1>18, <1>19, <1>20, <1>21, <1>22, <1>23, <1>24,
     <1>25, <1>26, <1>27, <1>28, <1>29, <1>30
  DEF Next, Boots

LEMMA CleanNext == TypeOK /\ DiskInv /\ StageInv /\ CleanInv /\ [Next]_vars => CleanInv'
<1> SUFFICES ASSUME TypeOK, DiskInv, StageInv, CleanInv, [Next]_vars PROVE CleanInv'
  OBVIOUS
<1> USE DEF TypeOK, DiskInv, LoaderInv, Running, Booting, Loader, Marker,
            disk, place, files, old, inst, Goto, Resets, Taking, StageInv, CleanInv
<1>1. CASE PowerOn
  BY <1>1 DEF PowerOn
<1>2. CASE Crash
  BY <1>2 DEF Crash
<1>3. CASE Reset
  BY <1>3 DEF Reset
<1>4. CASE Start
  BY <1>4 DEF Start, Request
<1>5. CASE Partition
  BY <1>5 DEF Partition
<1>6. CASE Mkfs
  BY <1>6 DEF Mkfs
<1>7. CASE Unpack
  BY <1>7 DEF Unpack, Fault
<1>8. CASE WriteMarkers
  BY <1>8 DEF WriteMarkers
<1>9. CASE InstallGrub
  BY <1>9 DEF InstallGrub
<1>10. CASE Finish
  BY <1>10 DEF Finish
<1>11. CASE Abort
  BY <1>11 DEF Abort, Fault
<1>12. CASE Mount
  BY <1>12 DEF Mount, BinFound
<1>13. CASE Copy
  BY <1>13 DEF Copy
<1>14. CASE Move
  BY <1>14 DEF Move
<1>15. CASE Link
  BY <1>15 DEF Link
<1>16. CASE SetupInit
  BY <1>16 DEF SetupInit, MayResolve, Resolves, Stranded, AfterLinks, BinFound
<1>17. CASE Claim
  BY <1>17 DEF Claim, Fault
<1>18. CASE UnlinkSbin
  BY <1>18 DEF UnlinkSbin, Fault
<1>19. CASE Clear
  BY <1>19 DEF Clear, Fault
<1>20. CASE Release
  BY <1>20 DEF Release, Fault
<1>21. CASE Empty
  BY <1>21 DEF Empty, Fault
<1>22. CASE Leave
  BY <1>22 DEF Leave, Fault
<1>23. CASE Wipe
  BY <1>23 DEF Wipe, Fault
<1>24. CASE Unmark
  BY <1>24 DEF Unmark
<1>25. CASE Pivot
  BY <1>25 DEF Pivot, BinFound
<1>26. CASE Fail
  BY <1>26 DEF Fail, Fault
<1>27. CASE Write
  BY <1>27 DEF Write
<1>28. CASE Ask
  BY <1>28 DEF Ask
<1>29. CASE Reboot
  BY <1>29 DEF Reboot
<1>30. CASE UNCHANGED vars
  BY <1>30 DEF vars
<1> QED
  BY <1>1, <1>2, <1>3, <1>4, <1>5, <1>6, <1>7, <1>8, <1>9, <1>10, <1>11, <1>12,
     <1>13, <1>14, <1>15, <1>16, <1>17, <1>18, <1>19, <1>20, <1>21, <1>22, <1>23, <1>24,
     <1>25, <1>26, <1>27, <1>28, <1>29, <1>30
  DEF Next, Boots

LEMMA UserNext == TypeOK /\ DiskInv /\ StageInv /\ UserInv /\ [Next]_vars => UserInv'
<1> SUFFICES ASSUME TypeOK, DiskInv, StageInv, UserInv, [Next]_vars PROVE UserInv'
  OBVIOUS
<1> USE DEF TypeOK, DiskInv, LoaderInv, Running, Booting, Loader, Marker,
            disk, place, files, old, inst, Goto, Resets, Taking, StageInv, UserInv
<1>1. CASE PowerOn
  BY <1>1 DEF PowerOn
<1>2. CASE Crash
  BY <1>2 DEF Crash
<1>3. CASE Reset
  BY <1>3 DEF Reset
<1>4. CASE Start
  BY <1>4 DEF Start, Request
<1>5. CASE Partition
  BY <1>5 DEF Partition
<1>6. CASE Mkfs
  BY <1>6 DEF Mkfs
<1>7. CASE Unpack
  BY <1>7 DEF Unpack, Fault
<1>8. CASE WriteMarkers
  BY <1>8 DEF WriteMarkers
<1>9. CASE InstallGrub
  BY <1>9 DEF InstallGrub
<1>10. CASE Finish
  BY <1>10 DEF Finish
<1>11. CASE Abort
  BY <1>11 DEF Abort, Fault
<1>12. CASE Mount
  BY <1>12 DEF Mount, BinFound
<1>13. CASE Copy
  BY <1>13 DEF Copy
<1>14. CASE Move
  BY <1>14 DEF Move
<1>15. CASE Link
  BY <1>15 DEF Link
<1>16. CASE SetupInit
  BY <1>16 DEF SetupInit, MayResolve, Resolves, Stranded, AfterLinks, BinFound
<1>17. CASE Claim
  BY <1>17 DEF Claim, Fault
<1>18. CASE UnlinkSbin
  BY <1>18 DEF UnlinkSbin, Fault
<1>19. CASE Clear
  BY <1>19 DEF Clear, Fault
<1>20. CASE Release
  BY <1>20 DEF Release, Fault
<1>21. CASE Empty
  BY <1>21 DEF Empty, Fault
<1>22. CASE Leave
  BY <1>22 DEF Leave, Fault
<1>23. CASE Wipe
  BY <1>23 DEF Wipe, Fault
<1>24. CASE Unmark
  BY <1>24 DEF Unmark
<1>25. CASE Pivot
  BY <1>25 DEF Pivot, BinFound
<1>26. CASE Fail
  BY <1>26 DEF Fail, Fault
<1>27. CASE Write
  BY <1>27 DEF Write
<1>28. CASE Ask
  BY <1>28 DEF Ask
<1>29. CASE Reboot
  BY <1>29 DEF Reboot
<1>30. CASE UNCHANGED vars
  BY <1>30 DEF vars
<1> QED
  BY <1>1, <1>2, <1>3, <1>4, <1>5, <1>6, <1>7, <1>8, <1>9, <1>10, <1>11, <1>12,
     <1>13, <1>14, <1>15, <1>16, <1>17, <1>18, <1>19, <1>20, <1>21, <1>22, <1>23, <1>24,
     <1>25, <1>26, <1>27, <1>28, <1>29, <1>30
  DEF Next, Boots

LEMMA FreshNext == TypeOK /\ DiskInv /\ StageInv /\ FreshInv /\ [Next]_vars => FreshInv'
<1> SUFFICES ASSUME TypeOK, DiskInv, StageInv, FreshInv, [Next]_vars PROVE FreshInv'
  OBVIOUS
<1> USE DEF TypeOK, DiskInv, LoaderInv, Running, Booting, Loader, Marker,
            disk, place, files, old, inst, Goto, Resets, Taking, StageInv, FreshInv
<1>1. CASE PowerOn
  BY <1>1 DEF PowerOn
<1>2. CASE Crash
  BY <1>2 DEF Crash
<1>3. CASE Reset
  BY <1>3 DEF Reset
<1>4. CASE Start
  BY <1>4 DEF Start, Request
<1>5. CASE Partition
  BY <1>5 DEF Partition
<1>6. CASE Mkfs
  BY <1>6 DEF Mkfs
<1>7. CASE Unpack
  BY <1>7 DEF Unpack, Fault
<1>8. CASE WriteMarkers
  BY <1>8 DEF WriteMarkers
<1>9. CASE InstallGrub
  BY <1>9 DEF InstallGrub
<1>10. CASE Finish
  BY <1>10 DEF Finish
<1>11. CASE Abort
  BY <1>11 DEF Abort, Fault
<1>12. CASE Mount
  BY <1>12 DEF Mount, BinFound
<1>13. CASE Copy
  BY <1>13 DEF Copy
<1>14. CASE Move
  BY <1>14 DEF Move
<1>15. CASE Link
  BY <1>15 DEF Link
<1>16. CASE SetupInit
  BY <1>16 DEF SetupInit, MayResolve, Resolves, Stranded, AfterLinks, BinFound
<1>17. CASE Claim
  BY <1>17 DEF Claim, Fault
<1>18. CASE UnlinkSbin
  BY <1>18 DEF UnlinkSbin, Fault
<1>19. CASE Clear
  BY <1>19 DEF Clear, Fault
<1>20. CASE Release
  BY <1>20 DEF Release, Fault
<1>21. CASE Empty
  <2>1. data' \subseteq data /\ pc' \in {"empty", "leave"} /\ UNCHANGED <<loader, marks, asked>>
    BY <1>21 DEF Empty, Fault
  <2>2. faults' = 0 => faults = 0
    BY <1>21 DEF Empty, Fault
  <2> QED
    BY <2>1, <2>2
<1>22. CASE Leave
  BY <1>22 DEF Leave, Fault
<1>23. CASE Wipe
  <2>1. data' \subseteq data /\ UNCHANGED <<loader, asked>>
    BY <1>23 DEF Wipe, Fault
  <2>2. faults' = 0 => faults = 0 /\ UNCHANGED marks /\ pc' \in {"wipe", "unmark", "pivot"}
    BY <1>23 DEF Wipe, Fault
  <2>3. pc' = "pivot" /\ faults' = 0 => marks \cap Resets = {} /\ UNCHANGED data
    BY <1>23 DEF Wipe, Fault
  <2>4. data = {} => data' = {}
    BY <2>1
  <2> QED
    BY <2>1, <2>2, <2>3, <2>4
<1>24. CASE Unmark
  BY <1>24 DEF Unmark
<1>25. CASE Pivot
  BY <1>25 DEF Pivot, BinFound
<1>26. CASE Fail
  BY <1>26 DEF Fail, Fault
<1>27. CASE Write
  BY <1>27 DEF Write
<1>28. CASE Ask
  BY <1>28 DEF Ask
<1>29. CASE Reboot
  BY <1>29 DEF Reboot
<1>30. CASE UNCHANGED vars
  BY <1>30 DEF vars
<1> QED
  BY <1>1, <1>2, <1>3, <1>4, <1>5, <1>6, <1>7, <1>8, <1>9, <1>10, <1>11, <1>12,
     <1>13, <1>14, <1>15, <1>16, <1>17, <1>18, <1>19, <1>20, <1>21, <1>22, <1>23, <1>24,
     <1>25, <1>26, <1>27, <1>28, <1>29, <1>30
  DEF Next, Boots

LEMMA MarkNext == TypeOK /\ DiskInv /\ MarkInv /\ [Next]_vars => MarkInv'
  BY StageNext, CleanNext, UserNext, FreshNext DEF MarkInv

LEMMA BootSafe == Spec => [](TypeOK /\ DiskInv /\ MarkInv)
<1>1. Init => TypeOK /\ DiskInv /\ MarkInv
  BY DiskInit, MarkInit
<1>2. TypeOK /\ DiskInv /\ MarkInv /\ [Next]_vars => (TypeOK /\ DiskInv /\ MarkInv)'
  BY TypeNext, DiskNext, MarkNext
<1> QED
  BY <1>1, <1>2, PTL DEF Spec

\* Takeover leaves nothing of the old system, wherever power is lost in it.
THEOREM SlateClean == Spec => []CleanSlate
<1>1. DiskInv /\ MarkInv => CleanSlate
  <2> SUFFICES ASSUME DiskInv, MarkInv, pc = "local", req.takeover, faults = 0
               PROVE  foreign = "absent" /\ "old" \notin data /\ "takeover" \notin marks
    BY DEF CleanSlate
  <2>1. "takeover" \notin marks /\ "old" \notin data
    BY DEF MarkInv, StageInv, CleanInv
  <2>2. loader = "macula"
    BY DEF DiskInv, LoaderInv, Running, MarkInv, CleanInv
  <2> QED
    BY <2>1, <2>2 DEF MarkInv, CleanInv
<1> QED
  BY <1>1, BootSafe, PTL

\* What users wrote only ever goes after someone asked for a reset.
THEOREM UserSafe == Spec => UserDataKept
<1>1. TypeOK /\ DiskInv /\ MarkInv /\ [Next]_vars
        => [("user" \in data /\ "user" \notin data') => asked]_vars
  <2> SUFFICES ASSUME TypeOK, DiskInv, MarkInv, Next, "user" \in data, "user" \notin data', ~asked
               PROVE  FALSE
    OBVIOUS
  <2>1. /\ loader \in {"macula", "net"}
        /\ marks \cap Resets = {}
        /\ pc \notin Taking
    BY DEF MarkInv, UserInv
  <2>2. CASE Partition
    BY <2>1, <2>2 DEF Partition, DiskInv, LoaderInv
  <2>3. CASE Empty
    BY <2>1, <2>3 DEF Empty, Taking
  <2>4. CASE Wipe
    BY <2>1, <2>4 DEF Wipe, Resets
  <2>5. CASE Write
    BY <2>5 DEF Write
  <2>6. CASE UNCHANGED data
    BY <2>6
  <2>7. ~(Partition \/ Empty \/ Wipe \/ Write) => UNCHANGED data
    BY DEF Next, Boots, disk, PowerOn, Crash, Reset, Start, Mkfs, Unpack, WriteMarkers,
       InstallGrub, Finish, Abort, Mount, Copy, Move, Link, SetupInit, Claim, UnlinkSbin,
       Clear, Release, Leave, Unmark, Pivot, Fail, Ask, Reboot
  <2> QED
    BY <2>2, <2>3, <2>4, <2>5, <2>6, <2>7
<1> QED
  BY <1>1, BootSafe, PTL DEF Spec, UserDataKept

\* After a reset was asked for, the next system that runs starts empty.
THEOREM ResetDone == Spec => FreshAfterReset
<1>1. TypeOK /\ DiskInv /\ MarkInv /\ [Next]_vars
        => [(pc = "pivot" /\ pc' = "local" /\ asked /\ faults = 0) => data' = {}]_vars
  <2> SUFFICES ASSUME TypeOK, DiskInv, MarkInv, Next, pc = "pivot", pc' = "local", asked, faults = 0
               PROVE  data' = {}
    OBVIOUS
  <2>1. data = {}
    BY DEF MarkInv, FreshInv
  <2>2. UNCHANGED data
    BY DEF Next, Boots, disk, PowerOn, Crash, Reset, Start, Partition, Mkfs, Unpack, WriteMarkers,
       InstallGrub, Finish, Abort, Installing, Mount, Copy, Move, Link, SetupInit, Claim,
       UnlinkSbin, Clear, Release, Empty, Leave, Wipe, Unmark, Pivot, Fail, Write, Ask, Reboot
  <2> QED
    BY <2>1, <2>2
<1> QED
  BY <1>1, BootSafe, PTL DEF Spec, FreshAfterReset
=============================================================================
