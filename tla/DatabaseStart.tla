--------------------------- MODULE DatabaseStart ---------------------------
(***************************************************************************)
(* How LXD brings its SQLite database up at startup: CreateDb on a new     *)
(* file, then the transaction of schema updates with its hook (backup and  *)
(* legacy patches), then the numbered list of patches.  Two kinds of       *)
(* process do it: the daemon, which systemd restarts when it fails, and    *)
(* "lxd activateifneeded", which runs once at boot, possibly beside it.    *)
(*                                                                         *)
(* A process may be killed, or a call of it may fail, between any two      *)
(* steps: SQLite then drops what its open transaction had written.         *)
(* Updates are numbered 1..Latest; update v+1 is applied to version v, and *)
(* the hook that precedes it is given v.                                   *)
(***************************************************************************)
EXTENDS Integers, FiniteSets

CONSTANTS
    Daemon,       \* the daemon process
    Activators,   \* the "lxd activateifneeded" processes
    NoProc,       \* nobody holds the database lock
    Latest,       \* len(updates)
    Skipped,      \* the version (31) an old release forgot to record
    Legacy,       \* the versions whose hook runs a legacy patch
    NeedsDB,      \* those of Legacy whose patch uses the database itself
    NPatches,     \* len(patches)
    Origins,      \* versions the database file may be at; 0 is "no file"
    MaxFaults     \* bound on kills, failed calls and timeouts

ASSUME StartAssumption ==
    /\ Latest \in Nat \ {0} /\ NPatches \in Nat /\ MaxFaults \in Nat
    /\ Skipped \in Nat
    /\ Legacy \subseteq 0 .. Latest - 1
    /\ NeedsDB \subseteq Legacy
    /\ Origins \subseteq 0 .. Latest + 1
    /\ Daemon \notin Activators
    /\ NoProc \notin Activators \cup {Daemon}

VARIABLES
    origin,    \* the version the file was at before the first start
    disk,      \* the committed content of lxd.db
    tx,        \* what the transaction holding the lock sees and has written
    lock,      \* the process whose transaction holds the database lock
    files,     \* durable work outside lxd.db: legacy patches, patches, lxd.db.bak
    pc,        \* where each process is
    current,   \* the loop variable: schema version reached, or patch number
    backup,    \* the "backup" flag of the hook's closure
    patch,     \* the loop variable every legacy hook captured
    seen,      \* the patches patchesApplyAll found applied
    faults     \* how many faults have happened

vars == <<origin, disk, tx, lock, files, pc, current, backup, patch, seen, faults>>

Procs == Activators \cup {Daemon}
Updates == 1 .. Latest
Patches == 1 .. NPatches
Profiles == {"default", "docker"}
NoBackup == -1
NoPatch == -1

Database ==
    [tables   : {"nofile", "empty", "partial", "full"},
     versions : SUBSET (1 .. Latest + 1),     \* rows of the schema table
     applied  : [Updates -> 0 .. 2],          \* times an update took effect
     marked   : SUBSET Patches,               \* rows of the patches table
     profiles : SUBSET Profiles]

(* The steps inside the transaction of Ensure, and those after it. *)
Updating == {"loop", "legacy", "reopen", "update"}
Patching == {"patch", "mark", "ready"}
Steps == {"off", "create", "tables", "version", "marks", "profiles", "ensure",
          "failed", "gone"} \cup Updating \cup Patching

(* GetSchema: SELECT max(version) FROM schema; any error reads as 0. *)
GetSchema(V) == IF V = {} THEN 0 ELSE CHOOSE m \in V : \A n \in V : n <= m

(* An upgraded file records every version it went through, except that one *)
(* old release forgot Skipped; a file made from a dump has a single row.   *)
RecordedAt(o) ==
    {1 .. o, {o}} \cup (IF Skipped \in 2 .. o - 1 THEN {(1 .. o) \ {Skipped}} ELSE {})

Init ==
    /\ origin \in Origins
    /\ \E V \in IF origin = 0 THEN {{}} ELSE RecordedAt(origin) :
         disk = [tables   |-> IF origin = 0 THEN "nofile" ELSE "full",
                 versions |-> V,
                 applied  |-> [u \in Updates |-> IF u <= origin THEN 1 ELSE 0],
                 marked   |-> {},
                 profiles |-> IF origin = 0 THEN {} ELSE Profiles]
    /\ tx = disk
    /\ lock = NoProc
    /\ files = [ran |-> {}, patched |-> {}, bak |-> NoBackup]
    /\ pc = [p \in Procs |-> "off"]
    /\ current = [p \in Procs |-> 0]
    /\ backup = [p \in Procs |-> FALSE]
    /\ patch = [p \in Procs |-> NoPatch]
    /\ seen = [p \in Procs |-> {}]
    /\ faults = 0

Goto(p, step) == pc' = [pc EXCEPT ![p] = step]
Local == <<current, backup, patch, seen>>
Store == <<disk, tx, lock, files>>

(***************************************************************************)
(* Start a process.  activateifneeded returns at once without a database.  *)
(***************************************************************************)
Begin(p) ==
    /\ pc[p] = "off"
    /\ p \in Activators => disk.tables # "nofile"
    /\ Goto(p, "create")
    /\ UNCHANGED <<origin, Store, Local, faults>>

(***************************************************************************)
(* CreateDb.  Opening the file creates it; CURRENT_SCHEMA is a list of     *)
(* statements that commit one by one, the version row last; the first      *)
(* CREATE TABLE fails when the table exists.  Each patch name is inserted  *)
(* by a statement of its own whose error is ignored, then each profile by  *)
(* a transaction of its own.  Nothing of this is redone once there is a    *)
(* version row.                                                            *)
(***************************************************************************)
CheckCreated(p) ==
    /\ pc[p] = "create"
    /\ lock = NoProc
    /\ disk' = IF disk.tables = "nofile" THEN [disk EXCEPT !.tables = "empty"] ELSE disk
    /\ Goto(p, IF GetSchema(disk.versions) = 0 THEN "tables"
               ELSE IF GetSchema(disk.versions) > Latest THEN "failed" ELSE "ensure")
    /\ UNCHANGED <<origin, tx, lock, files, Local, faults>>

CreateTables(p) ==
    /\ pc[p] = "tables"
    /\ lock = NoProc
    /\ IF disk.tables = "empty"
         THEN disk' = [disk EXCEPT !.tables = "partial"] /\ Goto(p, "version")
         ELSE disk' = disk /\ Goto(p, "failed")
    /\ UNCHANGED <<origin, tx, lock, files, Local, faults>>

CreateVersion(p) ==
    /\ pc[p] = "version"
    /\ lock = NoProc
    /\ disk' = [disk EXCEPT !.tables = "full", !.versions = {Latest},
                            !.applied = [u \in Updates |-> 1]]
    /\ current' = [current EXCEPT ![p] = 1]
    /\ Goto(p, "marks")
    /\ UNCHANGED <<origin, tx, lock, files, backup, patch, seen, faults>>

CreateMark(p) ==
    /\ pc[p] = "marks"
    /\ lock = NoProc
    /\ IF current[p] \in Patches
         THEN /\ \/ disk' = [disk EXCEPT !.marked = @ \cup {current[p]}] /\ faults' = faults
                 \/ disk' = disk /\ faults < MaxFaults /\ faults' = faults + 1
              /\ current' = [current EXCEPT ![p] = @ + 1]
              /\ pc' = pc
         ELSE Goto(p, "profiles") /\ UNCHANGED <<disk, current, faults>>
    /\ UNCHANGED <<origin, tx, lock, files, backup, patch, seen>>

CreateProfile(p) ==
    /\ pc[p] = "profiles"
    /\ lock = NoProc
    /\ IF "default" \notin disk.profiles
         THEN disk' = [disk EXCEPT !.profiles = @ \cup {"default"}] /\ pc' = pc
         ELSE disk' = [disk EXCEPT !.profiles = @ \cup {"docker"}] /\ Goto(p, "ensure")
    /\ UNCHANGED <<origin, tx, lock, files, Local, faults>>

(***************************************************************************)
(* Ensure.  BEGIN EXCLUSIVE waits for the lock, then the recorded versions *)
(* are read (and the forgotten one inserted).  A file whose versions have  *)
(* a hole, or are beyond Latest, is refused.  initializeDbObject builds    *)
(* the legacy hooks in a loop whose variable they all share, so each calls *)
(* the patch the loop over the map happened to visit last.                 *)
(***************************************************************************)
Repaired(V) ==
    IF {Skipped - 1, Skipped + 1} \subseteq V THEN V \cup {Skipped} ELSE V

NoHoles(V) == \A v, w \in V : v .. w \subseteq V

EnsureBegin(p) ==
    /\ pc[p] = "ensure"
    /\ lock = NoProc
    /\ LET V == Repaired(disk.versions)
           ok == NoHoles(V) /\ GetSchema(V) <= Latest
       IN  /\ tx' = [disk EXCEPT !.versions = V]
           /\ lock' = IF ok THEN p ELSE NoProc
           /\ current' = [current EXCEPT ![p] = GetSchema(V)]
           /\ Goto(p, IF ok THEN "loop" ELSE "failed")
    /\ backup' = [backup EXCEPT ![p] = FALSE]
    /\ \E l \in IF Legacy = {} THEN {NoPatch} ELSE Legacy : patch' = [patch EXCEPT ![p] = l]
    /\ UNCHANGED <<origin, disk, files, seen, faults>>

\* A hook that does not look at the error of FileCopy.
BackupUnchecked(p) ==
    /\ pc[p] = "loop" /\ current[p] < Latest
    /\ ~backup[p]
    /\ \/ files' = [files EXCEPT !.bak = GetSchema(disk.versions)]
       \/ files' = files
    /\ backup' = [backup EXCEPT ![p] = TRUE]
    /\ UNCHANGED <<origin, disk, tx, lock, pc, current, patch, seen, faults>>

(* The hook copies the committed file once per process, overwriting the    *)
(* copy an earlier process made.                                           *)
Backup(p) ==
    /\ pc[p] = "loop" /\ current[p] < Latest
    /\ ~backup[p]
    /\ files' = [files EXCEPT !.bak = GetSchema(disk.versions)]
    /\ backup' = [backup EXCEPT ![p] = TRUE]
    /\ UNCHANGED <<origin, disk, tx, lock, pc, current, patch, seen, faults>>

(* The rest of the hook: a legacy patch that uses the database gets the    *)
(* transaction committed under it, and a plain BEGIN afterwards.           *)
Hook(p) ==
    /\ pc[p] = "loop" /\ current[p] < Latest
    /\ backup[p]
    /\ IF current[p] \in NeedsDB
         THEN disk' = tx /\ lock' = NoProc
         ELSE UNCHANGED <<disk, lock>>
    /\ Goto(p, IF current[p] \in Legacy THEN "legacy" ELSE "update")
    /\ UNCHANGED <<origin, tx, files, Local, faults>>

(* A patch that reads the database through another connection meets the    *)
(* lock of its own process unless it finds nothing to do first.            *)
LegacyPatch(p) ==
    /\ pc[p] = "legacy"
    /\ IF patch[p] \in NeedsDB /\ lock = p
         THEN \/ files' = [files EXCEPT !.ran = @ \cup {patch[p]}] /\ lock' = lock /\ Goto(p, "reopen")
              \/ files' = files /\ lock' = NoProc /\ Goto(p, "failed")
         ELSE /\ patch[p] \in NeedsDB => lock = NoProc
              /\ files' = [files EXCEPT !.ran = @ \cup {patch[p]}]
              /\ lock' = lock
              /\ Goto(p, "reopen")
    /\ UNCHANGED <<origin, disk, tx, Local, faults>>

(* tx.Exec("BEGIN") starts a deferred transaction: it takes no lock yet. *)
Reopen(p) ==
    /\ pc[p] = "reopen"
    /\ Goto(p, "update")
    /\ UNCHANGED <<origin, Store, Local, faults>>

\* A schema table without UNIQUE (version).
CanInsertTwice(db, v) == TRUE

(* insertSchemaVersion, and the UNIQUE constraint on schema.version it may *)
(* run into.                                                               *)
CanInsert(db, v) == v \notin db.versions
InsertSchemaVersion(db, v) == [db EXCEPT !.versions = @ \cup {v}]

(* Apply update current+1 and record it.  A deferred transaction takes the *)
(* lock, and reads what is committed by then, with its first statement.    *)
Update(p) ==
    /\ pc[p] = "update"
    /\ lock \in {p, NoProc}
    /\ LET base == IF lock = p THEN tx ELSE disk
           next == current[p] + 1
       IN  IF CanInsert(base, next)
             THEN /\ tx' = InsertSchemaVersion([base EXCEPT !.applied[next] = @ + 1], next)
                  /\ lock' = p
                  /\ current' = [current EXCEPT ![p] = next]
                  /\ Goto(p, "loop")
             ELSE /\ Goto(p, "failed")
                  /\ lock' = NoProc
                  /\ UNCHANGED <<tx, current>>
    /\ UNCHANGED <<origin, disk, files, backup, patch, seen, faults>>

(* query.Transaction commits what Ensure did. *)
Commit(p) ==
    /\ pc[p] = "loop" /\ current[p] = Latest
    /\ disk' = tx
    /\ lock' = NoProc
    /\ Goto(p, IF p = Daemon THEN "patch" ELSE "gone")
    /\ current' = [current EXCEPT ![p] = 0]
    /\ UNCHANGED <<origin, tx, files, backup, patch, seen, faults>>

(***************************************************************************)
(* patchesApplyAll, by the daemon only.  The applied patches are read      *)
(* once; each of the others is run and then marked.                        *)
(***************************************************************************)
\* patchesApplyAll that does not ask which patches are applied.
ReadPatchesNone(p) ==
    /\ pc[p] = "patch" /\ current[p] = 0
    /\ lock = NoProc
    /\ seen' = [seen EXCEPT ![p] = {}]
    /\ current' = [current EXCEPT ![p] = 1]
    /\ UNCHANGED <<origin, Store, pc, backup, patch, faults>>

ReadPatches(p) ==
    /\ pc[p] = "patch" /\ current[p] = 0
    /\ lock = NoProc
    /\ seen' = [seen EXCEPT ![p] = disk.marked]
    /\ current' = [current EXCEPT ![p] = 1]
    /\ UNCHANGED <<origin, Store, pc, backup, patch, faults>>

\* patch.apply that does not look at the error of p.run.
RunPatchUnchecked(p) ==
    /\ pc[p] = "patch" /\ current[p] > 0
    /\ lock = NoProc
    /\ IF current[p] \in Patches
         THEN /\ files' = files
              /\ IF current[p] \in seen[p]
                   THEN current' = [current EXCEPT ![p] = @ + 1] /\ pc' = pc
                   ELSE current' = current /\ Goto(p, "mark")
         ELSE Goto(p, "ready") /\ UNCHANGED <<files, current>>
    /\ UNCHANGED <<origin, disk, tx, lock, backup, patch, seen, faults>>

RunPatch(p) ==
    /\ pc[p] = "patch" /\ current[p] > 0
    /\ lock = NoProc
    /\ \/ /\ current[p] \in Patches \ seen[p]
          /\ files' = [files EXCEPT !.patched = @ \cup {current[p]}]
          /\ Goto(p, "mark")
          /\ UNCHANGED current
       \/ /\ current[p] \in Patches \cap seen[p]
          /\ current' = [current EXCEPT ![p] = @ + 1]
          /\ UNCHANGED <<files, pc>>
       \/ /\ current[p] \notin Patches
          /\ Goto(p, "ready")
          /\ UNCHANGED <<files, current>>
    /\ UNCHANGED <<origin, disk, tx, lock, backup, patch, seen, faults>>

(* PatchesMarkApplied; patches.name is UNIQUE too. *)
MarkPatch(p) ==
    /\ pc[p] = "mark"
    /\ lock = NoProc
    /\ IF current[p] \in disk.marked
         THEN Goto(p, "failed") /\ UNCHANGED <<disk, current>>
         ELSE /\ disk' = [disk EXCEPT !.marked = @ \cup {current[p]}]
              /\ current' = [current EXCEPT ![p] = @ + 1]
              /\ Goto(p, "patch")
    /\ UNCHANGED <<origin, tx, lock, files, backup, patch, seen, faults>>

(***************************************************************************)
(* A call that fails (a hook, an update, the five seconds SQLite waits for *)
(* the lock) rolls the transaction back and ends the process with an       *)
(* error; a kill ends it as well.  systemd restarts the daemon, not the    *)
(* one-shot.                                                               *)
(***************************************************************************)
Release(p) == lock' = IF lock = p THEN NoProc ELSE lock

(* What a process held in memory is gone. *)
Forget(p) ==
    /\ current' = [current EXCEPT ![p] = 0]
    /\ backup' = [backup EXCEPT ![p] = FALSE]
    /\ patch' = [patch EXCEPT ![p] = NoPatch]
    /\ seen' = [seen EXCEPT ![p] = {}]

Fail(p) ==
    /\ pc[p] \in Steps \ {"off", "failed", "gone", "ready", "marks"}
    /\ faults < MaxFaults
    /\ faults' = faults + 1
    /\ Release(p)
    /\ Goto(p, "failed")
    /\ UNCHANGED <<origin, disk, tx, files, Local>>

Kill(p) ==
    /\ pc[p] \notin {"off", "failed", "gone"}
    /\ faults < MaxFaults
    /\ faults' = faults + 1
    /\ Release(p)
    /\ Forget(p)
    /\ Goto(p, IF p = Daemon THEN "off" ELSE "gone")
    /\ UNCHANGED <<origin, disk, tx, files>>

Restart(p) ==
    /\ pc[p] = "failed"
    /\ Forget(p)
    /\ Goto(p, IF p = Daemon THEN "off" ELSE "gone")
    /\ UNCHANGED <<origin, Store, faults>>

Step(p) ==
    \/ Begin(p)
    \/ CheckCreated(p) \/ CreateTables(p) \/ CreateVersion(p) \/ CreateMark(p) \/ CreateProfile(p)
    \/ EnsureBegin(p) \/ Backup(p) \/ Hook(p) \/ LegacyPatch(p) \/ Reopen(p) \/ Update(p) \/ Commit(p)
    \/ ReadPatches(p) \/ RunPatch(p) \/ MarkPatch(p)
    \/ Restart(p)

Next == \E p \in Procs : Step(p) \/ Fail(p) \/ Kill(p)

Spec == Init /\ [][Next]_vars

(* Every process keeps running (SF because another process may take the    *)
(* database lock between two of its tries), and Go visits a map in a       *)
(* random order: a daemon started again and again sooner or later captures *)
(* a patch that does not meet its own lock.                                *)
Fairness ==
    /\ \A p \in Procs : SF_vars(Step(p))
    /\ \A l \in Legacy \ NeedsDB : SF_vars(EnsureBegin(Daemon) /\ patch'[Daemon] = l)

FairSpec == Spec /\ Fairness

-----------------------------------------------------------------------------
(***************************************************************************)
(* Properties.                                                             *)
(***************************************************************************)

(* Every variable has its type. *)
TypeOK ==
    /\ origin \in Origins
    /\ disk \in Database /\ tx \in Database
    /\ lock \in Procs \cup {NoProc}
    /\ files \in [ran : SUBSET Legacy, patched : SUBSET Patches, bak : {NoBackup} \cup Nat]
    /\ pc \in [Procs -> Steps]
    /\ current \in [Procs -> Nat]
    /\ backup \in [Procs -> BOOLEAN]
    /\ patch \in [Procs -> Legacy \cup {NoPatch}]
    /\ seen \in [Procs -> SUBSET Patches]
    /\ faults \in 0 .. MaxFaults

(* Whatever was killed, failed or ran beside it, the committed schema is   *)
(* the one its highest recorded version names: every update up to it has   *)
(* taken effect exactly once and none beyond it.  The commit inside the    *)
(* hook lets another process upgrade the file under a stale loop variable; *)
(* the UNIQUE version row is what stops the second application.            *)
EachUpdateOnce ==
    disk.tables = "full" =>
        \A u \in Updates :
            disk.applied[u] = IF u <= GetSchema(disk.versions) THEN 1 ELSE 0

(* patches.go: "Those patches are applied at startup time after the        *)
(* database schema has been fully updated": from the first patch on, the   *)
(* committed file (not only the daemon's transaction) is at the latest     *)
(* version.                                                                *)
PatchesAfterSchema ==
    \A p \in Procs : pc[p] \in Patching => GetSchema(disk.versions) = Latest

(* A daemon that is ready on a database it did not create has had every    *)
(* patch run, even when an earlier one was killed between running a patch  *)
(* and marking it.                                                         *)
NoPatchSkipped ==
    pc[Daemon] = "ready" /\ origin # 0 => files.patched = Patches

(* update.go:84: "the sqlite file will be backed up before any update is   *)
(* applied".  Once an update is committed there is a lxd.db.bak, and it    *)
(* holds a version a process found committed when it began.  (It need not  *)
(* be the one before the upgrade: a process that starts after a commit     *)
(* inside the hook copies the half-upgraded file over it.)                 *)
BackupBeforeUpdate ==
    origin # 0 /\ GetSchema(disk.versions) > origin =>
        files.bak \in origin .. GetSchema(disk.versions)

(* With finitely many faults the daemon of a database it can upgrade gets  *)
(* to serve, although every failure ends it and a restart meets what the   *)
(* failed one, or another process, left behind.                            *)
DaemonStarts == origin \in Updates => <>[](pc[Daemon] = "ready")

(* A file brought past a version with a legacy patch has had one of the    *)
(* legacy patches run before: the hooks share one loop variable, so it     *)
(* need not be the patch of that version.                                  *)
LegacyPatchRan ==
    origin # 0 /\ (\E l \in Legacy : origin <= l /\ l < GetSchema(disk.versions))
        => files.ran # {}

(* Patches run on an up-to-date schema, and none is left out: what the     *)
(* daemon may rely on when it serves.                                      *)
PatchesSound == PatchesAfterSchema /\ NoPatchSkipped

(* What has to precede the commit of an update: the backup, and a legacy   *)
(* patch where the version has one.                                        *)
UpgradePrepared == BackupBeforeUpdate /\ LegacyPatchRan
=============================================================================
