------------------------------ MODULE Migration ------------------------------
(* The schema commands of the packaged runtime: `tasksignal migrate`, its      *)
(* explicit fingerprint and stamp, and `serve` / `mcp`, run at the same time   *)
(* by releases with different packaged heads over one database, while          *)
(* somebody starts an old checkout on it, restores a backup or pulls the plug. *)
(*                                                                             *)
(* Revisions are numbered along the packaged graph: release c knows 1..HeadOf[c].*)
(* A database is its alembic_version (0: none), its schema objects (0: none;   *)
(* Mixed: those of no revision; otherwise the revision whose objects they are) *)
(* and how often it was written to. A replaced database file is a new file:    *)
(* `path` names the one in place.                                              *)
EXTENDS Naturals, Sequences

CONSTANTS Command,   \* the commands given, each one process
          HeadOf,      \* the head its release packages
          MaxRev,    \* the newest revision there is
          MaxRows,   \* BOUND: writes to a database
          MaxFiles,  \* BOUND: files the path has named, one more per restore
          Nobody

ASSUME HeadAssumption == HeadOf \in [Command -> 1..MaxRev]
ASSUME MigrationBounds == {MaxRev, MaxRows} \subseteq Nat /\ MaxFiles \in Nat \ {0} /\ Nobody \notin Command

VARIABLES sqlite,    \* the backend: SQLite file or PostgreSQL
          disk,      \* what is committed in each file
          path,      \* the file DATABASE_URL names now
          holder,    \* who holds the migration lock of a file
          backups,   \* the backups beside the database, oldest first
          step,      \* how far a command is
          stamping,  \* it is a stamp, not an upgrade
          reviewed,  \* the objects the operator fingerprinted
          guard,     \* the file its identity guard holds open
          mine       \* the backup it reserved
migrationVars == <<sqlite, disk, path, holder, backups, step, stamping, reviewed, guard, mine>>

Files == 1..MaxFiles
Mixed == MaxRev + 1
\* altered (history): a checkout created tables although a version was stamped.
Database == [rev : 0..MaxRev, shape : 0..Mixed, rows : 0..MaxRows, altered : BOOLEAN]
Blank == [rev |-> 0, shape |-> 0, rows |-> 0, altered |-> FALSE]
Backup == [state : {"partial", "whole", "gone"}, image : Database, maker : Command]
Ended == {"done", "refused", "failed", "dead"}
Working == {"reviewed", "inspected", "opened", "locked", "reserved", "backed", "changed"}

SchemaObjects(d) == d.shape

SchemaStatus(d, c) ==
    IF d.rev = 0 THEN IF SchemaObjects(d) = 0 THEN "empty" ELSE "unversioned"
    ELSE IF d.rev = HeadOf[c] THEN "current"
    ELSE IF d.rev < HeadOf[c] THEN "stale" ELSE "unknown"

Inspect(c) == SchemaStatus(disk[path], c)

Refused(status) == status \in {"unversioned", "unknown"}

MigrationInit ==
    /\ sqlite \in BOOLEAN
    /\ \E d \in Database : /\ d.rev = 0 \/ d.shape = d.rev
                           /\ d.rows = 0 /\ ~d.altered
                           /\ disk = [f \in Files |-> IF f = 1 THEN d ELSE Blank]
    /\ path = 1
    /\ holder = [f \in Files |-> Nobody]
    /\ backups = <<>>
    /\ step = [c \in Command |-> "new"]
    /\ stamping = [c \in Command |-> FALSE]
    /\ reviewed = [c \in Command |-> 0]
    /\ guard = [c \in Command |-> 0]
    /\ mine = [c \in Command |-> 0]

Goto(c, s) == step' = [step EXCEPT ![c] = s]
Released(c) == [f \in Files |-> IF holder[f] = c THEN Nobody ELSE holder[f]]
\* The lock is the connection's transaction: it goes with it, however it ends.
End(c, s) == Goto(c, s) /\ holder' = Released(c)

(* ---- before the lock ------------------------------------------------------ *)
Migrate(c) ==
    /\ step[c] = "new"
    /\ Goto(c, IF Inspect(c) = "current" THEN "done"
               ELSE IF Refused(Inspect(c)) THEN "refused" ELSE "inspected")
    /\ UNCHANGED <<sqlite, disk, path, holder, backups, stamping, reviewed, guard, mine>>

\* The operator reads the fingerprint and decides that the objects are those of
\* the revision they are: he names that revision in the stamp that follows.
Fingerprint(c) ==
    /\ step[c] = "new"
    /\ Goto(c, IF Inspect(c) = "empty" THEN "refused" ELSE "reviewed")
    /\ stamping' = [stamping EXCEPT ![c] = TRUE]
    /\ reviewed' = [reviewed EXCEPT ![c] = SchemaObjects(disk[path])]
    /\ UNCHANGED <<sqlite, disk, path, holder, backups, guard, mine>>

Stamp(c) ==
    /\ step[c] = "reviewed"
    /\ Goto(c, IF Inspect(c) = "unversioned" /\ reviewed[c] \in 1..HeadOf[c]
               THEN "inspected" ELSE "refused")
    /\ UNCHANGED <<sqlite, disk, path, holder, backups, stamping, reviewed, guard, mine>>

SecureDatabaseFile(c) ==
    /\ step[c] = "inspected"
    /\ Goto(c, "opened")
    /\ guard' = [guard EXCEPT ![c] = path]
    /\ UNCHANGED <<sqlite, disk, path, holder, backups, stamping, reviewed, mine>>

SameDatabase(c) == sqlite => guard[c] = path

(* ---- under the lock ------------------------------------------------------- *)
\* What the locked re-inspection lets a command do: an upgrade of a database
\* with objects in it is backed up first, and so is every stamp; PostgreSQL's
\* are the operator's to back up.
UpgradeNext(c) ==
    CASE Inspect(c) = "current" -> "done"
      [] Refused(Inspect(c)) -> "refused"
      [] Inspect(c) = "stale" /\ sqlite -> "locked"
      [] OTHER -> "backed"

StampNext(c) ==
    IF Inspect(c) # "unversioned" \/ SchemaObjects(disk[path]) # reviewed[c] THEN "refused"
    ELSE IF sqlite THEN "locked" ELSE "backed"

LockedNext(c) ==
    IF ~SameDatabase(c) THEN "failed"
    ELSE IF stamping[c] THEN StampNext(c) ELSE UpgradeNext(c)

\* A plausible bug: BEGIN instead of BEGIN IMMEDIATE, which takes no lock yet.
DeferredMigrationLock(c) ==
    /\ step[c] = "opened"
    /\ Goto(c, LockedNext(c))
    /\ UNCHANGED <<sqlite, disk, path, holder, backups, stamping, reviewed, guard, mine>>

AcquireMigrationLock(c) ==
    /\ step[c] = "opened"
    /\ holder[path] = Nobody
    /\ Goto(c, LockedNext(c))
    /\ holder' = [holder EXCEPT ![path] = IF LockedNext(c) \in Ended THEN @ ELSE c]
    /\ UNCHANGED <<sqlite, disk, path, backups, stamping, reviewed, guard, mine>>

LockTimeout(c) ==
    /\ step[c] = "opened"
    /\ holder[path] # Nobody
    /\ Goto(c, "failed")
    /\ UNCHANGED <<sqlite, disk, path, holder, backups, stamping, reviewed, guard, mine>>

ReserveBackup(c) ==
    /\ step[c] = "locked"
    /\ SameDatabase(c)
    /\ Goto(c, "reserved")
    /\ mine' = [mine EXCEPT ![c] = Len(backups) + 1]
    /\ backups' = Append(backups, [state |-> "partial", image |-> Blank, maker |-> c])
    /\ UNCHANGED <<sqlite, disk, path, holder, stamping, reviewed, guard>>

\* The second connection that copies reads what is committed under the path.
CopyBackup(c) ==
    /\ step[c] = "reserved"
    /\ SameDatabase(c)
    /\ Goto(c, "backed")
    /\ backups' = [backups EXCEPT ![mine[c]].state = "whole", ![mine[c]].image = disk[path]]
    /\ UNCHANGED <<sqlite, disk, path, holder, stamping, reviewed, guard, mine>>

\* Any failure of the copy, a replaced database included, unlinks what there is.
BackupFails(c) ==
    /\ step[c] = "reserved"
    /\ End(c, "failed")
    /\ backups' = [backups EXCEPT ![mine[c]].state = "gone"]
    /\ UNCHANGED <<sqlite, disk, path, stamping, reviewed, guard, mine>>

\* command.upgrade / command.stamp inside the lock's transaction, and the checks
\* after it, of the version only; nothing is visible before the commit. An upgrade
\* of objects that are not those of the version mostly fails (MigrationFails).
ChangeSchema(c) ==
    /\ step[c] = "backed"
    /\ SameDatabase(c)
    /\ Goto(c, "changed")
    /\ UNCHANGED <<sqlite, disk, path, holder, backups, stamping, reviewed, guard, mine>>

\* Any exception before the commit, the identity check's included.
MigrationFails(c) ==
    /\ step[c] \in {"locked", "backed"}
    /\ End(c, "failed")
    /\ UNCHANGED <<sqlite, disk, path, backups, stamping, reviewed, guard, mine>>

\* An upgrade makes the head's objects of those it expects, and what it can of others.
Upgraded(d, c) == {HeadOf[c]} \cup (IF d.shape = d.rev THEN {} ELSE {Mixed})

CommitMigration(c) ==
    LET d == disk[guard[c]] IN
    /\ step[c] = "changed"
    /\ \E shape \in IF stamping[c] THEN {d.shape} ELSE Upgraded(d, c) :
          disk' = [disk EXCEPT ![guard[c]].rev = IF stamping[c] THEN reviewed[c] ELSE HeadOf[c],
                               ![guard[c]].shape = shape]
    /\ End(c, "done")
    /\ UNCHANGED <<sqlite, path, backups, stamping, reviewed, guard, mine>>

(* ---- servers -------------------------------------------------------------- *)
Serve(c) ==
    /\ step[c] = "new"
    /\ Goto(c, IF Inspect(c) = "current" THEN "serving" ELSE "refused")
    /\ UNCHANGED <<sqlite, disk, path, holder, backups, stamping, reviewed, guard, mine>>

\* SQLite has one writer: the migration lock is the write lock.
Writable == sqlite => holder[path] = Nobody

Write(c) ==
    /\ step[c] = "serving"
    /\ Writable
    /\ disk[path].rows < MaxRows
    /\ disk' = [disk EXCEPT ![path].rows = @ + 1]
    /\ UNCHANGED <<sqlite, path, holder, backups, step, stamping, reviewed, guard, mine>>

StopServing(c) ==
    /\ step[c] = "serving"
    /\ Goto(c, "done")
    /\ UNCHANGED <<sqlite, disk, path, holder, backups, stamping, reviewed, guard, mine>>

(* ---- everybody else ------------------------------------------------------- *)
\* A source checkout with AUTO_CREATE_TABLES creates, whatever the version, the
\* tables of its release that are missing and some of the columns: that may leave a
\* mixture. A command that has uncommitted tables of its own blocks it.
CreateTables(k) ==
    /\ disk[path].shape < k
    /\ Writable
    /\ \A c \in Command : step[c] = "changed" => stamping[c]
    /\ \E shape \in {k, Mixed} :
          disk' = [disk EXCEPT ![path].shape = shape, ![path].altered = @ \/ disk[path].rev # 0]
    /\ UNCHANGED <<sqlite, path, holder, backups, step, stamping, reviewed, guard, mine>>

\* With the servers stopped the operator puts a whole backup in the path's place.
RestoreBackup(b) ==
    /\ sqlite
    /\ backups[b].state = "whole"
    /\ \A c \in Command : step[c] # "serving"
    /\ path < MaxFiles
    /\ path' = path + 1
    /\ disk' = [disk EXCEPT ![path + 1] = backups[b].image]
    /\ UNCHANGED <<sqlite, holder, backups, step, stamping, reviewed, guard, mine>>

Crash(c) ==
    /\ step[c] \in Working
    /\ End(c, "dead")
    /\ UNCHANGED <<sqlite, disk, path, backups, stamping, reviewed, guard, mine>>

MigrationNext ==
    \/ \E c \in Command :
          \/ Migrate(c) \/ Fingerprint(c) \/ Stamp(c) \/ SecureDatabaseFile(c)
          \/ AcquireMigrationLock(c) \/ LockTimeout(c)
          \/ ReserveBackup(c) \/ CopyBackup(c) \/ BackupFails(c)
          \/ ChangeSchema(c) \/ MigrationFails(c) \/ CommitMigration(c)
          \/ Serve(c) \/ Write(c) \/ StopServing(c) \/ Crash(c)
    \/ \E k \in 1..MaxRev : CreateTables(k)
    \/ \E b \in 1..Len(backups) : RestoreBackup(b)

MigrationSpec == MigrationInit /\ [][MigrationNext]_migrationVars

(* ---- properties ----------------------------------------------------------- *)
MigrationTypeOK ==
    /\ sqlite \in BOOLEAN
    /\ disk \in [Files -> Database]
    /\ path \in Files
    /\ holder \in [Files -> Command \cup {Nobody}]
    /\ backups \in Seq(Backup)
    /\ step \in [Command -> Working \cup Ended \cup {"new", "serving"}]
    /\ stamping \in [Command -> BOOLEAN]
    /\ reviewed \in [Command -> 0..Mixed]
    /\ guard \in [Command -> 0..MaxFiles]
    /\ mine \in [Command -> Nat]

\* A versioned SQLite database has exactly the objects of its revision, whoever
\* stamped or upgraded it, restored it or created tables before it had a version
\* and while it was being stamped: a stamp takes the version only over the objects
\* that were fingerprinted. A checkout that starts on a database with a version
\* looks at none: of what it altered nothing is promised. (On PostgreSQL the
\* advisory lock keeps no other connection from creating tables.)
Telling(d) == (d.rev # 0 /\ ~d.altered) => d.shape = d.rev
VersionTellsShape == sqlite => \A f \in Files : Telling(disk[f])

\* docs/threat-model.md:190: whenever the revision of a SQLite database with
\* objects in it changes, a whole backup holds it exactly as it was, the last
\* write of a server that runs meanwhile included.
ChangeIsBackedUp ==
    [][\A f \in Files :
          (sqlite /\ disk'[f].rev # disk[f].rev /\ disk[f].shape # 0)
            => \E b \in 1..Len(backups) :
                  backups[b].state = "whole" /\ backups[b].image = disk[f]]_migrationVars

\* A server found the schema at its head when it started and is never left with
\* an older one: another release may move it on, no release takes it back.
ServedSchemaIsKnown ==
    \A c \in Command : step[c] = "serving" => disk[path].rev >= HeadOf[c]

\* A backup that is not whole belongs to a command that is still copying or died
\* doing it: a copy that failed leaves nothing that looks like a backup.
PartialMeansInterrupted ==
    \A b \in 1..Len(backups) :
        backups[b].state = "partial" => step[backups[b].maker] \in {"reserved", "dead"}

\* The promise of docs/deployment.md and docs/threat-model.md for a database file:
\* its version can be trusted, no server is left with an older schema, and what a
\* migration replaced is kept whole.
MigrationSafety ==
    /\ [](MigrationTypeOK /\ VersionTellsShape /\ ServedSchemaIsKnown /\ PartialMeansInterrupted)
    /\ ChangeIsBackedUp

(* ---- the inductive invariant behind it ------------------------------------- *)
Held == {"locked", "reserved", "backed", "changed"}

\* A whole backup of the database as it is.
Kept(b, d) == b \in DOMAIN backups /\ backups[b].state = "whole" /\ backups[b].image = d

\* Under the lock a command may rely on what it found: nobody else moves the
\* database it guards, wherever the path leads by now.
CommandStands(c) ==
    LET d == disk[guard[c]] IN
    /\ step[c] = "new" => ~stamping[c]
    /\ (step[c] \in {"inspected", "opened"} \cup Held /\ stamping[c]) => reviewed[c] \in 1..HeadOf[c]
    /\ step[c] \in {"opened"} \cup Held => guard[c] \in 1..path
    /\ step[c] \in Held =>
         /\ holder[guard[c]] = c
         /\ IF stamping[c] THEN d.rev = 0 ELSE d.rev < HeadOf[c]
         /\ sqlite /\ ~stamping[c] /\ d.rev = 0 => d.shape = 0
         /\ sqlite /\ stamping[c] => d.shape = reviewed[c]
         /\ (sqlite /\ step[c] \in {"backed", "changed"} /\ d.shape # 0) => Kept(mine[c], d)
    /\ step[c] = "reserved" =>
         /\ mine[c] \in DOMAIN backups
         /\ backups[mine[c]].state = "partial" /\ backups[mine[c]].maker = c

\* A backup tells its version as its database did, and a partial one is the one
\* its maker is at.
BackupStands(b) ==
    /\ (sqlite /\ backups[b].state = "whole") => Telling(backups[b].image)
    /\ backups[b].state = "partial" =>
         \/ step[backups[b].maker] = "dead"
         \/ step[backups[b].maker] = "reserved" /\ mine[backups[b].maker] = b

MigrationInv ==
    /\ MigrationTypeOK /\ VersionTellsShape /\ ServedSchemaIsKnown
    /\ ~sqlite => path = 1
    /\ \A f \in Files : f > path => disk[f] = Blank
    /\ \A c \in Command : CommandStands(c)
    /\ \A b \in DOMAIN backups : BackupStands(b)
=============================================================================
