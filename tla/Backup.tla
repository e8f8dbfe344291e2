------------------------------- MODULE Backup -------------------------------
(***************************************************************************)
(* `maculaos backup create | restore | delete | schedule`                  *)
(* (pkg/cli/backup/backup.go).                                             *)
(*                                                                         *)
(* A tarball gets its final name, maculaos-<hostname>-<second>.tar.gz,     *)
(* before its contents; the list of backups is what has such a name,       *)
(* sorted by it.  Retention runs at the end of a creation that went well.  *)
(***************************************************************************)
EXTENDS StateDir

CONSTANTS
  MaxRetention \* bound: what one asks retention to keep

ASSUME RetentionAssumption == MaxRetention \in Nat
ASSUME HeadAssumption == Files \cap {"none", "cut"} = {}

VARIABLES
  tars,      \* backups/: the tarball of each name
  usb,       \* the copies on the USB drive
  retention, \* in backup.yaml; 0 when there is none
  \* history
  saved,     \* the last creation that went well, and was not deleted since
  regular,   \* no creation overlapped another, was given a name that sorts
             \* before an older one, or went well with its end missing
  restored,  \* the tarball that the files come from, and nobody wrote since
  tailed     \* files that were longer than what that one wrote over them

tarVars == <<tars, usb, retention>>
tarHistory == <<saved, regular, restored, tailed>>
backupVars == <<tarVars, tarHistory>>

\* A name is its hostname and its second; it sorts by the hostname first.
Names == (1 .. MaxHost) \X (1 .. MaxTime)
NoName == <<0, 0>>
Before(m, n) == m[1] < n[1] \/ (m[1] = n[1] /\ m[2] < n[2])

\* What became of a tarball: still or for ever incomplete, whole, ended
\* without an error but with its last file cut short, or written by two at a
\* time.  `of` is history: the files when it was begun that it did not skip,
\* unless somebody wrote one while it was made.
Absent == [f \in Files |-> "absent"]
NoTar == [is |-> "none", holds |-> Absent, of |-> Absent]
Tarball ==
  [is : {"none", "partial", "whole", "short", "garbled"},
   holds : [Files -> Content], of : [Files -> Content]]

Listed(dir) == {n \in Names : dir[n].is # "none"}
First(S) == CHOOSE n \in S : \A m \in S \ {n} : Before(n, m)

CreateJob ==
  [cmd : {"create"}, name : Names \cup {NoName}, head : Files \cup {"none", "cut"},
   size : Nat, of : [Files -> Content], rest : SUBSET Files] \cup [cmd : {"retain"}]
  \cup [cmd : {"expire"}, doomed : SUBSET Names]
RestoreJob ==
  [cmd : {"restore"}, name : Names, tar : Tarball, rest : SUBSET Files,
   tailed : SUBSET Files]

BackupInit ==
  /\ tars = [n \in Names |-> NoTar] /\ usb = [n \in Names |-> NoTar]
  /\ retention = 0
  /\ saved = NoName /\ regular = TRUE /\ restored = NoName /\ tailed = {}

\* Somebody wrote one of the files; the tarball n is another, or gone.
Unrestored == restored' = NoName /\ tailed' = {}
Replaced(n) == IF restored = n THEN Unrestored ELSE UNCHANGED <<restored, tailed>>

Ended(p) == Goes(p, NoJob) /\ stirred' = stirred \ {p}

\* A tarball that is removed while it is made goes on without its name.
Nameless(gone) ==
  [q \in Commands |-> IF job[q].cmd = "create" /\ job[q].name \in gone
                      THEN [job[q] EXCEPT !.name = NoName] ELSE job[q]]

-----------------------------------------------------------------------------
(* createAction *)

Creators == {p \in Working : job[p].cmd \in {"create", "retain", "expire"}}

\* What filepath.Walk finds; `Files` has nothing of backups/, *.log and *.tmp.
Walked == {f \in Files : file[f] # "absent"}

\* The second is what the clock shows, which hwclock and the network's time may
\* put back.  os.Create truncates whatever has the name.
Create(p) == \E second \in 1 .. MaxTime :
  LET n == <<host, second>>
      others == {q \in Creators : job[q].cmd = "create" /\ job[q].name = n} IN
  /\ Start(p, [cmd |-> "create", name |-> n, head |-> "none", size |-> 0, of |-> file,
               rest |-> Walked])
  /\ tars' = [tars EXCEPT ![n] =
                [is |-> IF others = {} THEN "partial" ELSE "garbled",
                 holds |-> Absent, of |-> Absent]]
  /\ regular' = (regular /\ Creators = {} /\ \A m \in Listed(tars) : Before(m, n))
  /\ saved' = IF regular' THEN saved ELSE NoName
  /\ Replaced(n)
  /\ UNCHANGED <<usb, retention>>

Creating(p) == job[p].cmd = "create"

\* The header of the next file, with the length it has now; one that is gone, or
\* that a call fails on, is skipped in silence.
Header(p) ==
  /\ Creating(p) /\ job[p].head = "none"
  /\ \E f \in job[p].rest :
       \/ /\ file[f] # "absent" /\ UNCHANGED faults
          /\ Goes(p, [job[p] EXCEPT !.rest = @ \ {f}, !.head = f,
                                   !.size = Length(file[f])])
       \/ /\ IF file[f] = "absent" THEN UNCHANGED faults ELSE Fault
          /\ Goes(p, [job[p] EXCEPT !.rest = @ \ {f}, !.of[f] = "absent"])
  /\ UNCHANGED <<file, saving, host, unnamed, stirred, begun, saves, backupVars>>

\* ... and its contents, which io.Copy takes as they are by now.  A file that
\* got shorter, or is gone, or cannot be opened, leaves its entry unfilled.
Copy(p) ==
  /\ Creating(p) /\ job[p].head \in Files
  /\ \E read \in {file[job[p].head], "absent"} :
       LET f == job[p].head
           n == job[p].name IN
       /\ IF read = file[f] THEN UNCHANGED faults ELSE Fault
       /\ Length(read) <= job[p].size
       /\ IF Length(read) = job[p].size
          THEN /\ Goes(p, [job[p] EXCEPT !.head = "none"])
               /\ tars' = IF n = NoName THEN tars
                           ELSE [tars EXCEPT ![n].holds[f] =
                                   IF read = "absent" THEN "empty" ELSE read]
          ELSE Goes(p, [job[p] EXCEPT !.head = "cut"]) /\ UNCHANGED tars
  /\ UNCHANGED <<file, saving, host, unnamed, stirred, begun, saves, usb, retention, tarHistory>>

\* Mutant: retention runs after a creation that failed, too.
CreateFails_Retains(p) ==
  /\ Creating(p) /\ Fault
  /\ Goes(p, [cmd |-> "retain"])
  /\ UNCHANGED <<file, saving, host, unnamed, stirred, begun, saves, backupVars>>

\* `backup failed`, and what was written of the tarball stays: a file has grown
\* (`write too long`), there is one more header to write after an entry that
\* was not filled, or the disk is full.  The size of a tarball that was removed
\* is asked of a nil FileInfo: the process panics.
CreateFails(p) ==
  /\ Creating(p)
  /\ \/ /\ \/ job[p].head \in Files /\ Length(file[job[p].head]) > job[p].size
           \/ job[p].head = "cut" /\ job[p].rest # {}
           \/ job[p].name = NoName /\ job[p].head \notin Files /\ job[p].rest = {}
        /\ UNCHANGED faults
     \/ Fault
  /\ Ended(p)
  /\ UNCHANGED <<file, saving, host, unnamed, begun, saves, backupVars>>

\* cp to the drive, if one is mounted; that it failed is a warning.
CopyToUSB(n, tar) ==
  \/ usb' = [usb EXCEPT ![n] = tar] /\ UNCHANGED faults
  \/ usb' = [usb EXCEPT ![n] = [tar EXCEPT !.is = "partial"]] /\ Fault

\* The deferred Close calls end the tarball; their errors are dropped: that of an
\* unfilled last entry, and that of a disk which is full at the last write.
Finish(p) ==
  LET n == job[p].name
      ends == IF tars[n].is = "garbled" THEN "garbled"
              ELSE IF job[p].head = "cut" THEN "short" ELSE "whole"
      Tar(is) == [tars[n] EXCEPT !.is = is,
                                 !.of = IF p \in stirred THEN @ ELSE job[p].of] IN
  /\ Creating(p) /\ job[p].head \notin Files /\ job[p].rest = {} /\ n # NoName
  /\ \/ /\ tars' = [tars EXCEPT ![n] = Tar(ends)]
        /\ UNCHANGED <<usb, faults>> \/ CopyToUSB(n, Tar(ends))
        /\ regular' = (regular /\ ends = "whole")
     \/ /\ ends # "garbled" /\ Fault
        /\ tars' = [tars EXCEPT ![n] = Tar("partial")]
        /\ usb' \in {usb, [usb EXCEPT ![n] = Tar("partial")]}
        /\ regular' = FALSE
  /\ saved' = IF regular' THEN n ELSE NoName
  /\ Replaced(n)
  /\ Goes(p, [cmd |-> "retain"])
  /\ UNCHANGED <<file, saving, host, unnamed, stirred, begun, saves, retention>>

-----------------------------------------------------------------------------
(* applyRetention *)

\* The names that sort first, all but `retention`.
Excess ==
  {n \in Listed(tars) :
     retention # 0 /\ Cardinality({m \in Listed(tars) : Before(n, m)}) >= retention}

Dooms(p, S) ==
  IF S = {} THEN Ended(p)
  ELSE Goes(p, [cmd |-> "expire", doomed |-> S]) /\ UNCHANGED stirred

\* Mutant: the newest go.
Retain_Newest(p) ==
  /\ job[p].cmd = "retain"
  /\ Dooms(p, {n \in Listed(tars) :
                 /\ retention # 0
                 /\ Cardinality({m \in Listed(tars) : Before(m, n)}) >= retention})
  /\ UNCHANGED <<file, saving, host, unnamed, bounds, backupVars>>

\* backup.yaml is read, and the directory listed; nothing is done if that fails.
Retain(p) ==
  /\ job[p].cmd = "retain"
  /\ \/ Dooms(p, Excess) /\ UNCHANGED faults
     \/ Fault /\ Ended(p)
  /\ UNCHANGED <<file, saving, host, unnamed, begun, saves, backupVars>>

\* The first of the list goes; one that is gone by now, or cannot be removed, is
\* dropped from the list all the same.
Expire(p) ==
  /\ job[p].cmd = "expire"
  /\ \E n \in job[p].doomed :
       LET left == job[p].doomed \ {n}
           next == IF left = {} THEN NoJob ELSE [cmd |-> "expire", doomed |-> left] IN
       /\ n = First(job[p].doomed)
       /\ \/ /\ tars' = [tars EXCEPT ![n] = NoTar] /\ Replaced(n)
             /\ job' = [Nameless({n}) EXCEPT ![p] = next]
             /\ UNCHANGED faults
          \/ /\ tars[n].is # "none" /\ Fault
             /\ Goes(p, next) /\ UNCHANGED <<tars, restored, tailed>>
       /\ stirred' = IF left = {} THEN stirred \ {p} ELSE stirred
  /\ UNCHANGED <<file, saving, host, unnamed, begun, saves, usb, retention, saved, regular>>

-----------------------------------------------------------------------------
(* restoreAction *)

\* --latest takes the name that sorts last, --date any, usb the first of the
\* drive whatever was asked for.
Restore(p) ==
  /\ \E dir \in {tars, usb} :
       /\ Listed(dir) # {}
       /\ \E n \in Listed(dir) :
            /\ dir = tars \/ n = First(Listed(dir))
            /\ Start(p, [cmd |-> "restore", name |-> n, tar |-> dir[n],
                         rest |-> {f \in Files : dir[n].holds[f] # "absent"},
                         tailed |-> {}])
  /\ UNCHANGED backupVars

Restoring(p) == job[p].cmd = "restore"

\* Mutant: the file is opened with O_APPEND.
Over_Append(old, new) == IF Length(old) = 0 THEN new ELSE "mixed"

\* A file is opened without O_TRUNC: what is longer keeps its end.
Over(old, new) ==
  IF Length(new) >= Length(old) THEN new
  ELSE IF Length(new) = 0 THEN old ELSE "mixed"

Extract(p) ==
  /\ Restoring(p)
  /\ \E f \in job[p].rest :
       /\ Put(f, Over(file[f], job[p].tar.holds[f]), {p})
       /\ Goes(p, [job[p] EXCEPT
                     !.rest = @ \ {f},
                     !.tailed = IF Length(file[f]) > Length(job[p].tar.holds[f])
                                THEN @ \cup {f} ELSE @])
  /\ Unrestored
  /\ UNCHANGED <<saving, host, unnamed, bounds, tarVars, saved, regular>>

\* `restore failed`: the end of the tarball is missing, a creation truncated it
\* in the meantime, or a call fails; what was extracted stays.
RestoreFails(p) ==
  /\ Restoring(p)
  /\ \/ /\ job[p].tar.is # "whole" \/ tars[job[p].name] # job[p].tar
        /\ UNCHANGED faults
     \/ Fault
  /\ Ended(p)
  /\ UNCHANGED <<file, saving, host, unnamed, begun, saves, backupVars>>

\* `Restore completed!`
Restored(p) ==
  /\ Restoring(p) /\ job[p].rest = {} /\ job[p].tar.is = "whole"
  /\ IF p \notin stirred /\ tars[job[p].name] = job[p].tar
     THEN restored' = job[p].name /\ tailed' = job[p].tailed
     ELSE Unrestored
  /\ Ended(p)
  /\ UNCHANGED <<file, saving, host, unnamed, bounds, tarVars,
                 saved, regular>>

-----------------------------------------------------------------------------
(* deleteAction and scheduleAction *)

Delete ==
  /\ \E n \in Listed(tars) :
       /\ tars' = [tars EXCEPT ![n] = NoTar]
       /\ saved' = IF saved = n THEN NoName ELSE saved
       /\ Replaced(n)
       /\ job' = Nameless({n})
  /\ begun < MaxCommands /\ begun' = begun + 1
  /\ UNCHANGED <<file, saving, host, unnamed, stirred, saves, faults, usb, retention, regular>>

\* backup.yaml, and a line in /etc/cron.d that runs `backup create` and is gone
\* with the tmpfs on /etc at the next boot.
Schedule ==
  /\ retention' \in 0 .. MaxRetention
  /\ UNCHANGED <<dirVars, tars, usb, tarHistory>>

=============================================================================
