--------------------------- MODULE EncryptProofs ---------------------------
(* The safety of `maculaos encrypt`, for any number of processes, commands,  *)
(* failures and reboots.                                                     *)
EXTENDS Encrypt, TLAPS

-----------------------------------------------------------------------------
(* The types.                                                              *)

LEMMA TypeInit == Init => TypeOK
<1> SUFFICES ASSUME Init PROVE TypeOK
  OBVIOUS
<1> USE DEF Init
<1>1. {mapped, exposed, misjudged} \subseteq BOOLEAN /\ {named,
    open} \subseteq Parts \cup {"none"}
  OBVIOUS
<1>2. part \in [Parts -> {"plain", "luks", "volume"}] /\ keys \in [Parts -> SUBSET Keys]
  OBVIOUS
<1>3. inside \in [Parts -> SUBSET Files]
  OBVIOUS
<1>4. {beneath, copy, written} \subseteq SUBSET Files
  BY <1>3 DEF Parts
<1>5. promised \subseteq Parts \X Keys /\ base \in {"root", "plain", "none"}
  OBVIOUS
<1>6. pc \in [Commands -> Steps] /\ target \in [Commands -> Parts] /\ key \in [Commands -> Keys]
  BY DEF Steps, Parts
<1>7. /\ begun \in 0 .. MaxCommands /\ saves \in 0 .. MaxSaves
      /\ faults \in 0 .. MaxFaults /\ halts \in 0 .. MaxHalts
  BY EncryptBounds
<1> QED
  BY <1>1, <1>2, <1>3, <1>4, <1>5, <1>6, <1>7 DEF TypeOK

\* Files that arrive are files of a partition or of the memory.
LEMMA ArriveType ==
  ASSUME TypeOK, NEW fs \in SUBSET Files, Arrive(fs)
  PROVE  inside' \in [Parts -> SUBSET Files] /\ beneath' \subseteq Files
<1>1. CASE Under \in Parts
  BY <1>1 DEF TypeOK, Arrive
<1>2. CASE Under \notin Parts
  BY <1>2 DEF TypeOK, Arrive
<1> QED
  BY <1>1, <1>2

\* Every step keeps the types.
LEMMA TypeNext == TypeOK /\ [Next]_vars => TypeOK'
<1> SUFFICES ASSUME TypeOK, [Next]_vars PROVE TypeOK'
  OBVIOUS
<1> USE DEF TypeOK, Steps, diskVars, treeVars, procVars, history, bounds
<1>1. ASSUME NEW p \in Commands, Enable(p) PROVE TypeOK'
  <2> USE <1>1
  <2>1. PICK d \in Parts, k \in Keys :
          /\ Unencrypted(d)
          /\ target' = [target EXCEPT ![p] = d] /\ key' = [key EXCEPT ![p] = k]
          /\ misjudged' = (misjudged \/ (part[d] # "plain" /\ open # d))
    BY DEF Enable
  <2>2. faults' \in 0 .. MaxFaults
    BY <2>1, EncryptBounds DEF Unencrypted, Finds, Fault
  <2>3. misjudged' \in BOOLEAN /\ target' \in [Commands -> Parts] /\ key' \in [Commands -> Keys]
    BY <2>1
  <2>4. pc' \in [Commands -> Steps]
    BY DEF Enable, Goto
  <2>5. begun' \in 0 .. MaxCommands /\ exposed' \in BOOLEAN
    BY EncryptBounds DEF Enable, Command, Enabling
  <2> QED
    BY <2>2, <2>3, <2>4, <2>5 DEF Enable
<1>2. ASSUME NEW p \in Commands, CopyData(p) PROVE TypeOK'
  <2> USE <1>2, EncryptBounds DEF CopyData, Fault, Goto
  <2>1. Visible \subseteq Files
    BY DEF Visible, Under
  <2>2. copy' \subseteq Files
    BY <2>1
  <2>3. exposed \in BOOLEAN
    OBVIOUS
  <2>4. exposed' \in BOOLEAN
    BY <2>3
  <2>5. faults' \in 0 .. MaxFaults
    OBVIOUS
  <2>6. pc' \in [Commands -> Steps]
    OBVIOUS
  <2> QED
    BY <2>2, <2>4, <2>5, <2>6
<1>3. ASSUME NEW p \in Commands, Umount(p) PROVE TypeOK'
  BY <1>3, EncryptBounds DEF Umount, Goto
<1>4. ASSUME NEW p \in Commands, Format(p) PROVE TypeOK'
  BY <1>4, EncryptBounds DEF Format, Formatted, Busy, Goto
<1>5. ASSUME NEW p \in Commands, FormatFails(p) PROVE TypeOK'
  BY <1>5, EncryptBounds DEF FormatFails, Formatted, Busy, Fault, Goto
<1>6. ASSUME NEW p \in Commands, Open(p) PROVE TypeOK'
  BY <1>6, EncryptBounds DEF Open, Opens, Goto
<1>7. ASSUME NEW p \in Commands, Mkfs(p) PROVE TypeOK'
  BY <1>7, EncryptBounds DEF Mkfs, Goto
<1>8. ASSUME NEW p \in Commands, Mount(p) PROVE TypeOK'
  BY <1>8, EncryptBounds DEF Mount, Goto
<1>9. ASSUME NEW p \in Commands, EnableFails(p) PROVE TypeOK'
  BY <1>9, EncryptBounds DEF EnableFails, Opens, Fault, Goto
<1>10. ASSUME NEW p \in Commands, RestoreData(p) PROVE TypeOK'
  <2> USE <1>10, EncryptBounds
  <2>1. PICK some \in SUBSET copy :
          /\ IF some = copy THEN UNCHANGED <<exposed, faults>>
             ELSE Fault /\ exposed' = TRUE
          /\ Arrive(some)
    BY DEF RestoreData
  <2>2. inside' \in [Parts -> SUBSET Files] /\ beneath' \subseteq Files
    BY <2>1, ArriveType
  <2>3. faults' \in 0 .. MaxFaults
    BY <2>1 DEF Fault
  <2>5. exposed \in BOOLEAN
    OBVIOUS
  <2>6. exposed' \in BOOLEAN
    BY <2>1, <2>5
  <2>4. pc' \in [Commands -> Steps]
    BY DEF RestoreData, Goto
  <2> QED
    BY <2>2, <2>3, <2>4, <2>6 DEF RestoreData
<1>11. ASSUME NEW p \in Commands, Cleanup(p) PROVE TypeOK'
  BY <1>11, EncryptBounds DEF Cleanup, Goto
<1>12. CASE ChangePassphrase
  BY <1>12, EncryptBounds DEF ChangePassphrase, Command, Finds, Device, Fault
<1>13. CASE AddKey
  BY <1>13, EncryptBounds DEF AddKey, Command, Finds, Device, Fault
<1>14. CASE Save
  <2> USE <1>14, EncryptBounds
  <2>1. PICK f \in Files : Arrive({f}) /\ written' = written \cup {f}
    BY DEF Save
  <2>2. inside' \in [Parts -> SUBSET Files] /\ beneath' \subseteq Files
    BY <2>1, ArriveType
  <2>3. written' \subseteq Files
    BY <2>1
  <2>4. exposed' \in BOOLEAN /\ saves' \in 0 .. MaxSaves
    BY DEF Save, Enabling
  <2> QED
    BY <2>2, <2>3, <2>4 DEF Save
<1>15. CASE Reboot
  <2> USE <1>15, EncryptBounds DEF Reboot
  <2>1. exposed' \in BOOLEAN /\ base' \in {"root", "plain", "none"}
    OBVIOUS
  <2>2. pc' \in [Commands -> Steps] /\ halts' \in 0 .. MaxHalts
    OBVIOUS
  <2> QED
    BY <2>1, <2>2
<1>16. CASE UNCHANGED vars
  BY <1>16 DEF vars
<1> QED
  BY <1>1, <1>2, <1>3, <1>4, <1>5, <1>6, <1>7, <1>8, <1>9, <1>10, <1>11, <1>12, <1>13,
     <1>14, <1>15, <1>16 DEF Next, Step

\* Type correctness of the commands and of what they work on.
THEOREM TypeCorrect == Spec => []TypeOK
  BY TypeInit, TypeNext, PTL DEF Spec

-----------------------------------------------------------------------------
(* The disk.                                                               *)

\* What each step finds on the partitions: the device mapper holds the partition
\* that it has opened, and what is mounted as a plain file system stays one.
Shape ==
  /\ part["other"] = "plain" => inside["other"] = {}
  /\ \A d \in Parts : part[d] = "luks" => inside[d] = {}
  /\ mapped => open # "none" /\ part[open] = "volume"
  /\ open # "none" => part[open] # "plain"
  /\ base # "none" => part["state"] = "plain"
  /\ \A p \in Commands :
       /\ pc[p] \in {"mkfs", "mount", "restore", "cleanup"} => open = target[p]
       /\ pc[p] \in {"mount", "restore", "cleanup"} => part[target[p]] = "volume"

\* Every step keeps the disk in order.
LEMMA ShapeNext == TypeOK /\ Shape /\ [Next]_vars => Shape'
<1> SUFFICES ASSUME TypeOK, Shape, [Next]_vars PROVE Shape'
  OBVIOUS
<1> USE DEF TypeOK, Shape, Steps, Parts, diskVars, treeVars, procVars, history, bounds
<1>1. ASSUME NEW p \in Commands, Enable(p) PROVE Shape'
  BY <1>1 DEF Enable, Unencrypted, Finds, Device, Command, Goto, Enabling, Fault
<1>2. ASSUME NEW p \in Commands, CopyData(p) PROVE Shape'
  BY <1>2 DEF CopyData, Visible, Under, Fault, Goto
<1>3. ASSUME NEW p \in Commands, Umount(p) PROVE Shape'
  BY <1>3 DEF Umount, Goto
<1>4. ASSUME NEW p \in Commands, Format(p) PROVE Shape'
  BY <1>4 DEF Format, Formatted, Busy, Goto
<1>5. ASSUME NEW p \in Commands, FormatFails(p) PROVE Shape'
  BY <1>5 DEF FormatFails, Formatted, Busy, Fault, Goto
<1>6. ASSUME NEW p \in Commands, Open(p) PROVE Shape'
  BY <1>6 DEF Open, Opens, Goto
<1>7. ASSUME NEW p \in Commands, Mkfs(p) PROVE Shape'
  BY <1>7 DEF Mkfs, Goto
<1>8. ASSUME NEW p \in Commands, Mount(p) PROVE Shape'
  BY <1>8 DEF Mount, Goto
<1>9. ASSUME NEW p \in Commands, EnableFails(p) PROVE Shape'
  BY <1>9 DEF EnableFails, Opens, Fault, Goto
<1>10. ASSUME NEW p \in Commands, RestoreData(p) PROVE Shape'
  BY <1>10 DEF RestoreData, Arrive, Under, Fault, Goto
<1>11. ASSUME NEW p \in Commands, Cleanup(p) PROVE Shape'
  BY <1>11 DEF Cleanup, Goto
<1>12. CASE ChangePassphrase
  BY <1>12 DEF ChangePassphrase, Command, Finds, Device, Fault
<1>13. CASE AddKey
  BY <1>13 DEF AddKey, Command, Finds, Device, Fault
<1>14. CASE Save
  BY <1>14 DEF Save, Arrive, Under, Enabling
<1>15. CASE Reboot
  BY <1>15 DEF Reboot
<1>16. CASE UNCHANGED vars
  BY <1>16 DEF vars
<1> QED
  BY <1>1, <1>2, <1>3, <1>4, <1>5, <1>6, <1>7, <1>8, <1>9, <1>10, <1>11, <1>12, <1>13,
     <1>14, <1>15, <1>16 DEF Next, Step

LEMMA Shaped == Spec => [](TypeOK /\ Shape)
<1>1. Init => Shape
  BY DEF Init, Shape, Parts
<1> QED
  BY <1>1, ShapeNext, TypeCorrect, PTL DEF Spec

\* `encrypt enable` never takes the partition that the running system has its root
\* on, whatever fails and whoever else runs it (encrypt.go:217, 236).
THEOREM RootIsSpared == Spec => []RootSpared
<1>1. TypeOK /\ Shape => RootSpared
  BY DEF TypeOK, Shape, RootSpared, Parts
<1> QED
  BY <1>1, Shaped, PTL

-----------------------------------------------------------------------------
(* The passphrase.                                                         *)

\* Once a passphrase is promised nobody formats that partition: its volume is open,
\* and after a reboot no enable takes it for one that is not encrypted.
FormatOver ==
  \A e \in promised :
    /\ part[e[1]] # "plain"
    /\ \/ open = e[1]
       \/ \A p \in Commands : pc[p] \in {"copy", "umount", "format"} => target[p] # e[1]

KeyInv == ~misjudged => KeyOpens /\ FormatOver

\* Every step keeps the promise.
LEMMA KeyNext == TypeOK /\ KeyInv /\ [Next]_vars => KeyInv'
<1> SUFFICES ASSUME TypeOK, KeyInv, [Next]_vars PROVE KeyInv'
  OBVIOUS
<1> USE DEF TypeOK, KeyInv, KeyOpens, FormatOver, Steps, diskVars, treeVars, procVars,
    history, bounds
<1>1. ASSUME NEW p \in Commands, Enable(p) PROVE KeyInv'
  <2> USE <1>1
  <2>1. PICK d \in Parts, k \in Keys :
          /\ Unencrypted(d)
          /\ target' = [target EXCEPT ![p] = d] /\ key' = [key EXCEPT ![p] = k]
          /\ misjudged' = (misjudged \/ (part[d] # "plain" /\ open # d))
    BY DEF Enable
  <2> SUFFICES ASSUME ~misjudged' PROVE KeyOpens' /\ FormatOver'
    OBVIOUS
  <2>2. ~misjudged /\ (part[d] = "plain" \/ open = d)
    BY <2>1
  <2>3. UNCHANGED <<part, keys, open, promised>>
    BY DEF Enable
  <2>4. KeyOpens'
    BY <2>2, <2>3
  <2> SUFFICES ASSUME NEW e \in promised
               PROVE  /\ part[e[1]] # "plain"
                      /\ \/ open = e[1]
                         \/ \A q \in Commands :
                              pc'[q] \in {"copy", "umount", "format"} => target'[q] # e[1]
    BY <2>3, <2>4
  <2>5. /\ part[e[1]] # "plain"
        /\ \/ open = e[1]
           \/ \A q \in Commands :
                pc[q] \in {"copy", "umount", "format"} => target[q] # e[1]
    BY <2>2
  <2>6. CASE open = e[1]
    BY <2>5, <2>6
  <2>7. CASE open # e[1]
    <3>1. d # e[1]
      BY <2>2, <2>5, <2>7
    <3>2. ASSUME NEW q \in Commands, pc'[q] \in {"copy", "umount", "format"}
          PROVE  target'[q] # e[1]
      BY <2>1, <2>5, <2>7, <3>1, <3>2 DEF Enable, Goto
    <3> QED
      BY <2>5, <3>2
  <2> QED
    BY <2>6, <2>7
<1>2. ASSUME NEW p \in Commands, CopyData(p) PROVE KeyInv'
  BY <1>2 DEF CopyData, Visible, Under, Fault, Goto
<1>3. ASSUME NEW p \in Commands, Umount(p) PROVE KeyInv'
  BY <1>3 DEF Umount, Goto
<1>4. ASSUME NEW p \in Commands, Format(p) PROVE KeyInv'
  BY <1>4 DEF Format, Formatted, Busy, Goto
<1>5. ASSUME NEW p \in Commands, FormatFails(p) PROVE KeyInv'
  <2> USE <1>5
  <2> SUFFICES ASSUME ~misjudged' PROVE KeyOpens' /\ FormatOver'
    OBVIOUS
  <2>1. /\ ~misjudged /\ UNCHANGED <<open, promised, target>>
        /\ pc[p] = "format" /\ pc' = [pc EXCEPT ![p] = "idle"]
    BY DEF FormatFails, Goto
  <2>2. CASE UNCHANGED <<part, keys>>
    BY <2>1, <2>2
  <2>3. CASE ~Busy(target[p]) /\ Formatted(target[p], {})
    <3>1. \A e \in promised : e[1] # target[p]
      BY <2>1, <2>3 DEF Busy
    <3>2. \A e \in promised : e[1] \in Parts
      OBVIOUS
    <3>3. \A e \in promised : part'[e[1]] = part[e[1]] /\ keys'[e[1]] = keys[e[1]]
      BY <2>3, <3>1, <3>2 DEF Formatted
    <3> QED
      BY <2>1, <3>3
  <2>4. \/ UNCHANGED <<part, keys>>
        \/ ~Busy(target[p]) /\ Formatted(target[p], {})
    BY Zenon DEF FormatFails
  <2> QED
    BY <2>2, <2>3, <2>4, Zenon
<1>6. ASSUME NEW p \in Commands, Open(p) PROVE KeyInv'
  <2> USE <1>6
  <2> SUFFICES ASSUME ~misjudged' PROVE KeyOpens' /\ FormatOver'
    OBVIOUS
  <2> DEFINE n == <<target[p], key[p]>>
  <2>1. /\ ~misjudged /\ UNCHANGED <<part, keys, target>>
        /\ open = "none" /\ open' = target[p] /\ promised' = promised \cup {n}
        /\ pc' = [pc EXCEPT ![p] = "mkfs"]
    BY DEF Open, Opens, Goto
  <2>2. part[target[p]] # "plain" /\ key[p] \in keys[target[p]]
    BY DEF Open, Opens
  <2>3. n[1] = target[p] /\ n[2] = key[p]
    OBVIOUS
  <2> HIDE DEF n
  <2>4. ASSUME NEW e \in promised
        PROVE  /\ e[2] \in keys[e[1]] /\ part[e[1]] # "plain"
               /\ \A q \in Commands :
                    pc'[q] \in {"copy", "umount", "format"} => target[q] # e[1]
    BY <2>1, <2>4 DEF Parts
  <2>5. ASSUME NEW e \in promised'
        PROVE  /\ e[2] \in keys[e[1]] /\ part[e[1]] # "plain"
               /\ \/ open' = e[1]
                  \/ \A q \in Commands :
                       pc'[q] \in {"copy", "umount", "format"} => target[q] # e[1]
    <3>1. CASE e = n
      BY <2>1, <2>2, <2>3, <3>1
    <3>2. CASE e \in promised
      BY <2>4, <3>2
    <3> QED
      BY <2>1, <2>5, <3>1, <3>2
  <2> QED
    BY <2>1, <2>5
<1>7. ASSUME NEW p \in Commands, Mkfs(p) PROVE KeyInv'
  BY <1>7 DEF Mkfs, Goto
<1>8. ASSUME NEW p \in Commands, Mount(p) PROVE KeyInv'
  BY <1>8 DEF Mount, Goto
<1>9. ASSUME NEW p \in Commands, EnableFails(p) PROVE KeyInv'
  BY <1>9 DEF EnableFails, Opens, Fault, Goto
<1>10. ASSUME NEW p \in Commands, RestoreData(p) PROVE KeyInv'
  BY <1>10 DEF RestoreData, Arrive, Under, Fault, Goto
<1>11. ASSUME NEW p \in Commands, Cleanup(p) PROVE KeyInv'
  BY <1>11 DEF Cleanup, Goto
<1>12. CASE ChangePassphrase
  BY <1>12 DEF ChangePassphrase, Command, Finds, Device, Fault
<1>13. CASE AddKey
  BY <1>13 DEF AddKey, Command, Finds, Device, Fault
<1>14. CASE Save
  BY <1>14 DEF Save, Arrive, Under, Enabling
<1>15. CASE Reboot
  BY <1>15 DEF Reboot
<1>16. CASE UNCHANGED vars
  BY <1>16 DEF vars
<1> QED
  BY <1>1, <1>2, <1>3, <1>4, <1>5, <1>6, <1>7, <1>8, <1>9, <1>10, <1>11, <1>12, <1>13,
     <1>14, <1>15, <1>16 DEF Next, Step

\* A passphrase with which an enable went on to its end opens the partition until it
\* is changed, unless isLuks failed on a closed volume (encrypt.go:147, 236, 248).
THEOREM PassphraseOpens == Spec => []KeyOpens
<1>1. Init => KeyInv
  BY DEF Init, KeyInv, KeyOpens, FormatOver
<1>2. KeyInv => KeyOpens
  BY DEF KeyInv, KeyOpens
<1> QED
  BY <1>1, <1>2, KeyNext, TypeCorrect, PTL DEF Spec

-----------------------------------------------------------------------------
(* The data.                                                               *)

\* Where the data is at each step of the only enable there is: what is to be
\* formatted is empty, or what was on it is in the copy or on the other partition.
Single == \A p, q \in Commands : pc[p] # "idle" /\ pc[q] # "idle" => p = q

Kept == inside["state"] \cup inside["other"]
Away == inside["other"] \cup copy

Placed(p) ==
  /\ pc[p] \in {"copy", "umount", "format"} =>
       part[target[p]] = "plain" \/ open = target[p]
  /\ pc[p] = "umount" /\ part["state"] = "plain" /\ ~mapped => written \subseteq Away
  /\ pc[p] \in {"open", "mkfs", "mount", "restore"} =>
       /\ part[target[p]] # "plain" /\ inside[target[p]] = {}
       /\ target[p] = "state" => written \subseteq Away
  /\ pc[p] = "restore" => mapped
  /\ pc[p] = "cleanup" =>
       /\ written \subseteq Kept
       /\ part["state"] = "plain" /\ base = "none" => written \subseteq inside["other"]

DataInv ==
  ~exposed /\ ~misjudged =>
    /\ Single
    /\ written \subseteq Kept \cup copy
    /\ part["state"] = "plain" => written \subseteq Kept
    /\ part["state"] = "plain" /\ base = "none" => written \subseteq Away
    /\ \A p \in Commands : Placed(p)

\* Every step keeps the data where it says.
LEMMA DataNext == TypeOK /\ Shape /\ DataInv /\ [Next]_vars => DataInv'
<1> SUFFICES ASSUME TypeOK, Shape, DataInv, [Next]_vars PROVE DataInv'
  OBVIOUS
<1> USE DEF TypeOK, Shape, DataInv, Single, Kept, Away, Placed, Steps, Parts, diskVars,
    treeVars, procVars, history, bounds
<1>1. ASSUME NEW p \in Commands, Enable(p) PROVE DataInv'
  <2> USE <1>1
  <2>1. PICK d \in Parts, k \in Keys :
          /\ Unencrypted(d)
          /\ target' = [target EXCEPT ![p] = d] /\ key' = [key EXCEPT ![p] = k]
          /\ misjudged' = (misjudged \/ (part[d] # "plain" /\ open # d))
    BY DEF Enable
  <2> SUFFICES ASSUME ~exposed', ~misjudged' PROVE DataInv'
    OBVIOUS
  <2>2. ~exposed /\ ~misjudged /\ (part[d] = "plain" \/ open = d)
    BY <2>1 DEF Enable
  <2>3. \A q \in Commands : pc[q] = "idle"
    BY DEF Enable, Enabling
  <2>4. /\ UNCHANGED <<part, inside, open, base, mapped, copy, written>>
        /\ pc' = [pc EXCEPT ![p] = "copy"]
    BY DEF Enable, Goto
  <2>5. \A q \in Commands : q # p => pc'[q] = "idle"
    BY <2>3, <2>4
  <2>6. pc'[p] = "copy" /\ target'[p] = d
    BY <2>1, <2>4
  <2>7. Single'
    BY <2>5
  <2>8. \A q \in Commands : Placed(q)'
    BY <2>2, <2>4, <2>5, <2>6
  <2> QED
    BY <2>2, <2>4, <2>7, <2>8
<1>2. ASSUME NEW p \in Commands, CopyData(p) PROVE DataInv'
  BY <1>2 DEF CopyData, Visible, Under, Fault, Goto
<1>3. ASSUME NEW p \in Commands, Umount(p) PROVE DataInv'
  BY <1>3 DEF Umount, Goto
<1>4. ASSUME NEW p \in Commands, Format(p) PROVE DataInv'
  BY <1>4 DEF Format, Formatted, Busy, Goto
<1>5. ASSUME NEW p \in Commands, FormatFails(p) PROVE DataInv'
  BY <1>5 DEF FormatFails, Formatted, Busy, Fault, Goto
<1>6. ASSUME NEW p \in Commands, Open(p) PROVE DataInv'
  BY <1>6 DEF Open, Opens, Goto
<1>7. ASSUME NEW p \in Commands, Mkfs(p) PROVE DataInv'
  BY <1>7 DEF Mkfs, Goto
<1>8. ASSUME NEW p \in Commands, Mount(p) PROVE DataInv'
  BY <1>8 DEF Mount, Goto
<1>9. ASSUME NEW p \in Commands, EnableFails(p) PROVE DataInv'
  BY <1>9 DEF EnableFails, Opens, Fault, Goto
<1>10. ASSUME NEW p \in Commands, RestoreData(p) PROVE DataInv'
  BY <1>10 DEF RestoreData, Arrive, Under, Fault, Goto
<1>11. ASSUME NEW p \in Commands, Cleanup(p) PROVE DataInv'
  BY <1>11 DEF Cleanup, Goto
<1>12. CASE ChangePassphrase
  BY <1>12 DEF ChangePassphrase, Command, Finds, Device, Fault
<1>13. CASE AddKey
  BY <1>13 DEF AddKey, Command, Finds, Device, Fault
<1>14. CASE Save
  <2> USE <1>14
  <2> SUFFICES ASSUME ~exposed', ~misjudged' PROVE DataInv'
    OBVIOUS
  <2>1. PICK f \in Files : Arrive({f}) /\ written' = written \cup {f}
    BY DEF Save
  <2>2. /\ ~exposed /\ ~misjudged /\ Under \in Parts
        /\ UNCHANGED <<part, open, base, mapped, copy, pc, target>>
    BY DEF Save, Under
  <2>3. \A q \in Commands : pc[q] = "idle"
    BY DEF Save, Enabling
  <2>4. inside' = [inside EXCEPT ![Under] = @ \cup {f}]
    BY <2>1, <2>2 DEF Arrive
  <2>5. Kept' = Kept \cup {f}
    BY <2>2, <2>4
  <2>6. part["state"] = "plain" /\ base = "none" => Under = "other"
    BY <2>2 DEF Under
  <2>7. Under = "other" => Away' = Away \cup {f}
    BY <2>2, <2>4
  <2>8. written' = written \cup {f}
    BY <2>1
  <2> HIDE DEF Kept, Away
  <2>9. /\ written' \subseteq (Kept \cup copy)'
        /\ part'["state"] = "plain" => written' \subseteq Kept'
        /\ part'["state"] = "plain" /\ base' = "none" => written' \subseteq Away'
    BY <2>2, <2>5, <2>6, <2>7, <2>8
  <2>10. Single' /\ \A q \in Commands : Placed(q)'
    BY <2>2, <2>3
  <2> QED
    BY <2>9, <2>10
<1>15. CASE Reboot
  BY <1>15 DEF Reboot
<1>16. CASE UNCHANGED vars
  BY <1>16 DEF vars
<1> QED
  BY <1>1, <1>2, <1>3, <1>4, <1>5, <1>6, <1>7, <1>8, <1>9, <1>10, <1>11, <1>12, <1>13,
     <1>14, <1>15, <1>16 DEF Next, Step

\* What the node relies on is on a partition or in the copy, through every step that
\* fails and every retry, unless one of the named exposures happened
\* (encrypt.go:204-277).
THEOREM DataStays == Spec => []DataKept
<1>1. Init => DataInv
  BY DEF Init, DataInv, Single, Kept, Away, Placed, Under, Parts
<1>2. DataInv => DataKept
  BY DEF DataInv, DataKept, Kept
<1> QED
  BY <1>1, <1>2, DataNext, Shaped, PTL DEF Spec

=============================================================================
