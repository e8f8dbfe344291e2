---------------------------- MODULE Maintenance ----------------------------
(***************************************************************************)
(* The commands that work on the whole of /var/lib/maculaos, with the      *)
(* programs that go on writing files there.                                *)
(***************************************************************************)
EXTENDS Backup, FactoryReset

vars == <<dirVars, backupVars, resetVars>>

TypeOK ==
  /\ file \in [Files -> Content]
  /\ saving \subseteq Files
  /\ host \in 1 .. MaxHost /\ unnamed \in BOOLEAN
  /\ job \in [Commands -> {NoJob} \cup CreateJob \cup RestoreJob \cup ResetJob]
  /\ stirred \subseteq Commands
  /\ tars \in [Names -> Tarball] /\ usb \in [Names -> Tarball]
  /\ retention \in 0 .. MaxRetention
  /\ saved \in Names \cup {NoName} /\ restored \in Names \cup {NoName}
  /\ tailed \subseteq Files
  /\ {regular, marker, fresh} \subseteq BOOLEAN
  /\ begun \in 0 .. MaxCommands /\ saves \in 0 .. MaxSaves /\ faults \in 0 .. MaxFaults

Init == DirInit /\ BackupInit /\ ResetInit

\* Somebody else writes: what was restored or erased is that no more.
Save ==
  /\ \E f \in Files : BeginSave(f) \/ EndSave(f)
  /\ Unrestored /\ fresh' = FALSE
  /\ UNCHANGED <<tarVars, saved, regular, marker>>

BackupStep(p) ==
  /\ \/ Create(p) \/ Header(p) \/ Copy(p) \/ CreateFails(p) \/ Finish(p)
     \/ Retain(p) \/ Expire(p) \/ Restore(p) \/ RestoreFails(p) \/ Restored(p)
  /\ UNCHANGED resetVars

ExtractStep(p) == Extract(p) /\ fresh' = FALSE /\ UNCHANGED marker

ResetStep(p) == (Reset(p) \/ Mark(p)) /\ UNCHANGED backupVars

EraseStep(p) ==
  /\ Erase(p)
  /\ Unrestored
  /\ UNCHANGED <<tarVars, saved, regular>>

Next ==
  \/ \E p \in Commands :
       BackupStep(p) \/ ExtractStep(p) \/ ResetStep(p) \/ EraseStep(p)
  \/ (Delete \/ Schedule) /\ UNCHANGED resetVars
  \/ Save
  \/ Reboot /\ UNCHANGED <<backupVars, resetVars>>

Spec == Init /\ [][Next]_vars

-----------------------------------------------------------------------------
(* Properties *)

\* As long as the creations follow each other, the clock and the hostname give
\* each one a name that sorts last, and none is reported complete that is not
\* (backup.go:426-432), the last backup that was reported complete stays on the
\* disk, whole, however many later ones fail, whatever the retention is, and
\* whoever deletes others beside it (backup.go:239-241, 262, 598-619).
GoodBackupSurvives ==
  regular /\ saved # NoName => tars[saved].is = "whole"

\* A restore that ends with "Restore completed!", of a backup nobody wrote
\* beside, brings every file that the backup did not skip back to what it was
\* when the backup was begun, and it stays so until somebody writes one; unless
\* it was longer when it was written over, which nothing repairs.  Nobody wrote
\* beside the restore (backup.go:421-526).
RoundTrip ==
  restored # NoName =>
    \A f \in Files :
      tars[restored].of[f] # "absent" =>
        (file[f] = tars[restored].of[f] <=> f \notin tailed)

\* After a reset none of whose removals failed, with nobody writing beside it,
\* none of the paths it lists is there, through reboots and backups, until a
\* program writes it again or a restore brings it back (reset.go:110-154).
ResetForgets == fresh => \A f \in Erased : file[f] = "absent"

\* "This includes: [...] Console pairing and credentials [...] Custom
\* configurations" (reset.go:31-36): nothing of what a node keeps in
\* /var/lib/maculaos is there after such a reset.
ResetErasesAll == fresh => \A f \in Files : file[f] = "absent"

\* What BackupStore sees: the tarballs that are whole, the names under which one
\* creation is at work, and those that retention is about to remove.
Whole == {<<n, tars[n].holds>> : n \in {m \in Names : tars[m].is = "whole"}}
Made == {job[p].name : p \in {q \in Commands : job[q].cmd = "create"}}
MadeAlone == {n \in Names : tars[n].is = "partial" /\ n \in Made}
Doomed == UNION {job[p].doomed : p \in {q \in Commands : job[q].cmd = "expire"}}
Older == {nm \in Names \X Names : Before(nm[1], nm[2])}

\* To whoever lists the backups, the commands are those of BackupStore: a tarball
\* counts from its end, without the steps before; two creations under one name
\* never count; and retention takes none that had fewer newer names to stay than
\* it is to keep when it looked, whatever is begun, deleted, fails, restarts or
\* is renamed from there on (backup.go:225-262, 598-619).
Store ==
  INSTANCE BackupStore WITH
    Name <- Names, Order <- Older, Contents <- [Files -> Content],
    store <- Whole, listed <- Listed(tars), making <- MadeAlone,
    doomed <- Doomed, keep <- retention, asked <- begun

ImplementsBackupStore == Store!Spec

=============================================================================
