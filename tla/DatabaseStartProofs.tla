----------------------- MODULE DatabaseStartProofs -------------------------
(***************************************************************************)
(* Proofs about the startup of the database, for any number of updates,    *)
(* legacy patches and patches, any number of activateifneeded processes    *)
(* beside the daemon, and any number of kills and failures.                *)
(***************************************************************************)
EXTENDS DatabaseStart, TLAPS

\* h is the highest of the recorded versions V.
Top(V, h) == h \in V /\ \A n \in V : n <= h

\* The schema of db is that of version h.
At(db, h) ==
    /\ h \in 1 .. Latest + 1
    /\ Top(db.versions, h)
    /\ \A u \in Updates : db.applied[u] = IF u <= h THEN 1 ELSE 0

\* The file has no version row until it is complete, and has the schema of its
\* highest row from then on.
FileInv ==
    IF disk.tables = "full" THEN \E h \in 1 .. Latest + 1 : At(disk, h) ELSE disk.versions = {}

\* Only one process creates the tables of a file, and from its version row on
\* the file is complete.
CreateInv ==
    /\ \A p \in Procs : pc[p] = "version" => disk.tables = "partial"
    /\ \A p, q \in Procs : pc[p] = "version" /\ pc[q] = "version" => p = q
    /\ \A p \in Procs :
         pc[p] \in {"marks", "profiles", "ensure"} \cup Updating \cup Patching => disk.tables = "full"

\* The transaction of the process that holds the lock is at the version of its
\* loop variable, and extends what is committed.
Holds(p) ==
    /\ pc[p] \in Updating
    /\ tx.tables = "full"
    /\ At(tx, current[p])
    /\ current[p] <= Latest
    /\ NoHoles(tx.versions)
    /\ disk.versions \subseteq tx.versions

\* A process whose transaction the hook has committed may be overtaken by others,
\* but what it has recorded stays and no hole opens behind it.
Suspended(p) ==
    /\ pc[p] # "loop"
    /\ current[p] \in disk.versions
    /\ NoHoles(disk.versions)

TxInv ==
    /\ \A p \in Procs : lock = p => Holds(p)
    /\ \A p \in Procs : pc[p] \in Updating /\ lock # p => Suspended(p)
    /\ \A p \in Procs : pc[p] \in Updating \ {"loop"} => current[p] < Latest

\* A hook that runs a legacy patch has captured one.
HookInv ==
    /\ \A p \in Procs : pc[p] = "legacy" => current[p] \in Legacy
    /\ \A p \in Procs : pc[p] \in Updating => Legacy = {} \/ patch[p] \in Legacy

\* Patches run on a file at the latest version.
PatchInv ==
    /\ \A p \in Procs : pc[p] \in Patching => Top(disk.versions, Latest)
    /\ \A p \in Procs : pc[p] = "mark" => current[p] \in Patches

\* The inductive invariant.
StartInv == TypeOK /\ FileInv /\ CreateInv /\ TxInv /\ HookInv /\ PatchInv

-----------------------------------------------------------------------------

\* GetSchema returns the highest version there is.
LEMMA SchemaIsTop ==
    ASSUME NEW V \in SUBSET Int, NEW h \in V, Top(V, h)
    PROVE  GetSchema(V) = h
<1>1. GetSchema(V) = CHOOSE m \in V : \A n \in V : n <= m
  BY DEF GetSchema
<1>2. GetSchema(V) \in V /\ \A n \in V : n <= GetSchema(V)
  BY <1>1 DEF Top
<1> DEFINE g == GetSchema(V)
<1> HIDE DEF g
<1>3. g \in Int /\ h \in Int /\ g <= h /\ h <= g
  BY <1>2 DEF Top, g
<1>4. g = h
  BY <1>3
<1> QED
  BY <1>4 DEF g

\* Inserting the forgotten version moves neither the top nor the schema.
LEMMA RepairedAt ==
    ASSUME StartAssumption, NEW h \in 1 .. Latest + 1, NEW V \in SUBSET (1 .. Latest + 1), Top(V, h)
    PROVE  /\ Repaired(V) \in SUBSET (1 .. Latest + 1)
           /\ Top(Repaired(V), h)
           /\ V \subseteq Repaired(V)
BY DEF Repaired, Top, StartAssumption

\* A process whose next version is not recorded is at the top: there is no hole
\* it could be in.
LEMMA NextIsFree ==
    ASSUME NEW V \in SUBSET Nat, NoHoles(V), NEW h, Top(V, h), NEW c \in V, c + 1 \notin V
    PROVE  c = h
<1>1. h \in Nat /\ c \in Nat /\ c <= h
  BY DEF Top
<1>2. c .. h \subseteq V
  BY DEF NoHoles, Top
<1>3. CASE c < h
  <2>1. c + 1 \in c .. h
    BY <1>1, <1>3
  <2> QED
    BY <1>2, <2>1
<1> QED
  BY <1>1, <1>3

\* Recording and applying update c + 1 on a database at version c.
LEMMA AppliedNext ==
    ASSUME StartAssumption, NEW db \in Database, NEW c \in 1 .. Latest, c < Latest, At(db, c),
           NoHoles(db.versions),
           NEW new, new = InsertSchemaVersion([db EXCEPT !.applied[c + 1] = @ + 1], c + 1)
    PROVE  /\ new \in Database
           /\ At(new, c + 1)
           /\ NoHoles(new.versions)
           /\ new.tables = db.tables
           /\ db.versions \subseteq new.versions
<1> DEFINE apps == [db.applied EXCEPT ![c + 1] = @ + 1]
<1>1. /\ new.versions = db.versions \cup {c + 1}
      /\ new.applied = apps
      /\ new.tables = db.tables /\ new.marked = db.marked /\ new.profiles = db.profiles
      /\ new = [tables |-> db.tables, versions |-> db.versions \cup {c + 1}, applied |-> apps,
                marked |-> db.marked, profiles |-> db.profiles]
  BY DEF InsertSchemaVersion, Database
<1>2. c + 1 \in Updates /\ c + 1 \in 1 .. Latest + 1 /\ c \in Int
  BY DEF Updates, StartAssumption
<1>3. db.applied[c + 1] = 0
  BY <1>2 DEF At
<1>4. /\ apps \in [Updates -> 0 .. 2]
      /\ \A u \in Updates : apps[u] = IF u <= c + 1 THEN 1 ELSE 0
  <2>1. db.applied \in [Updates -> 0 .. 2]
    BY DEF Database
  <2>2. apps \in [Updates -> 0 .. 2]
    BY <1>2, <1>3, <2>1
  <2>3. ASSUME NEW u \in Updates PROVE apps[u] = IF u <= c + 1 THEN 1 ELSE 0
    <3>1. u \in Int
      BY DEF Updates
    <3>2. CASE u = c + 1
      BY <1>2, <1>3, <2>1, <3>2
    <3>3. CASE u # c + 1
      BY <1>2, <2>1, <3>1, <3>3 DEF At
    <3> QED
      BY <3>2, <3>3
  <2> QED
    BY <2>2, <2>3
<1>5. new \in Database
  BY <1>1, <1>2, <1>4 DEF Database
<1>6. Top(new.versions, c + 1)
  BY <1>1, <1>2 DEF At, Top, Database
<1>7. NoHoles(new.versions)
  <2> SUFFICES ASSUME NEW v \in new.versions, NEW w \in new.versions, NEW x \in v .. w
               PROVE  x \in new.versions
    BY DEF NoHoles
  <2>1. db.versions \subseteq Int /\ c \in db.versions /\ \A n \in db.versions : n <= c
    BY DEF Database, At, Top
  <2>2. v \in Int /\ w \in Int /\ x \in Int /\ v <= x /\ x <= w
    BY <1>1, <1>2, <2>1
  <2>3. CASE x = c + 1
    BY <1>1, <2>3
  <2>4. CASE x # c + 1
    <3>1. x <= c /\ v \in db.versions
      BY <1>1, <1>2, <2>1, <2>2, <2>4
    <3>2. x \in v .. c
      BY <1>2, <2>2, <3>1
    <3> QED
      BY <1>1, <2>1, <3>1, <3>2 DEF NoHoles
  <2> QED
    BY <2>3, <2>4
<1> QED
  BY <1>1, <1>2, <1>4, <1>5, <1>6, <1>7 DEF At

-----------------------------------------------------------------------------

\* The initial file is complete or absent, and its highest row is its version.
LEMMA InitInv == StartAssumption /\ Init => StartInv
<1> SUFFICES ASSUME StartAssumption, Init PROVE StartInv
  OBVIOUS
<1>1. origin \in 0 .. Latest + 1 /\ Latest \in Nat \ {0}
  BY DEF StartAssumption, Init
<1>2. PICK V \in IF origin = 0 THEN {{}} ELSE RecordedAt(origin) :
         disk = [tables   |-> IF origin = 0 THEN "nofile" ELSE "full",
                 versions |-> V,
                 applied  |-> [u \in Updates |-> IF u <= origin THEN 1 ELSE 0],
                 marked   |-> {},
                 profiles |-> IF origin = 0 THEN {} ELSE Profiles]
  BY DEF Init
<1>3. V \in SUBSET (1 .. Latest + 1) /\ (origin = 0 => V = {}) /\ (origin # 0 => Top(V, origin))
  BY <1>1, <1>2 DEF RecordedAt, Top
<1>4. disk \in Database
  <2> DEFINE apps == [u \in Updates |-> IF u <= origin THEN 1 ELSE 0]
  <2>1. apps \in [Updates -> 0 .. 2]
    OBVIOUS
  <2> HIDE DEF apps
  <2>2. disk = [tables |-> IF origin = 0 THEN "nofile" ELSE "full", versions |-> V, applied |-> apps,
                marked |-> {}, profiles |-> IF origin = 0 THEN {} ELSE Profiles]
    BY <1>2 DEF apps
  <2> QED
    BY <1>3, <2>1, <2>2 DEF Database
<1>5. TypeOK
  BY <1>4 DEF Init, TypeOK, Steps, StartAssumption
<1>6. FileInv
  BY <1>1, <1>2, <1>3 DEF FileInv, At, Updates
<1>7. CreateInv /\ TxInv /\ HookInv /\ PatchInv
  BY DEF Init, CreateInv, TxInv, HookInv, PatchInv, Updating, Patching, Procs, StartAssumption
<1> QED
  BY <1>5, <1>6, <1>7 DEF StartInv

\* A step of p that leaves the version rows and the transaction alone preserves
\* all but the types, given what it establishes at the place p goes to.
LEMMA Frame ==
    ASSUME StartInv, NEW p \in Procs,
           disk'.versions = disk.versions, disk'.applied = disk.applied,
           disk.tables \in {"partial", "full"} => disk'.tables = disk.tables,
           disk.tables \in {"nofile", "empty"} => disk'.tables \in {"nofile", "empty", "partial"},
           tx' = tx, lock' = IF lock = p /\ pc'[p] \notin Updating THEN NoProc ELSE lock,
           NoProc \notin Procs,
           \A q \in Procs : q # p => pc'[q] = pc[q] /\ current'[q] = current[q] /\ patch'[q] = patch[q],
           pc'[p] = "version" => /\ disk'.tables = "partial"
                                 /\ \A q \in Procs : q # p => pc[q] # "version",
           pc'[p] \in {"marks", "profiles", "ensure"} \cup Updating \cup Patching =>
               disk.tables = "full",
           pc'[p] \in Updating => /\ pc[p] \in Updating
                                  /\ pc'[p] = "loop" => pc[p] = "loop"
                                  /\ pc'[p] # "loop" => current[p] < Latest
                                  /\ pc'[p] = "legacy" => pc[p] = "legacy" \/ current[p] \in Legacy
                                  /\ current'[p] = current[p] /\ patch'[p] = patch[p],
           pc'[p] \in Patching => Top(disk.versions, Latest),
           pc'[p] = "mark" => current'[p] \in Patches
    PROVE  FileInv' /\ CreateInv' /\ TxInv' /\ HookInv' /\ PatchInv'
<1>1. FileInv'
  BY DEF StartInv, TypeOK, Database, FileInv, At
<1>2. CreateInv'
  BY DEF StartInv, CreateInv, TypeOK, Database
<1>3. TxInv'
  <2>1. ASSUME NEW q \in Procs, lock' = q PROVE Holds(q)'
    BY <2>1 DEF StartInv, TxInv, Holds, At, Top
  <2>2. ASSUME NEW q \in Procs, pc'[q] \in Updating, lock' # q PROVE Suspended(q)'
    BY <2>2 DEF StartInv, TxInv, Suspended
  <2>3. ASSUME NEW q \in Procs, pc'[q] \in Updating \ {"loop"} PROVE current'[q] < Latest
    BY <2>3 DEF StartInv, TxInv
  <2> QED
    BY <2>1, <2>2, <2>3 DEF TxInv
<1>4. HookInv'
  BY DEF StartInv, HookInv, Updating
<1>5. PatchInv'
  BY DEF StartInv, PatchInv, Top
<1> QED
  BY <1>1, <1>2, <1>3, <1>4, <1>5

\* What the steps below use of the types.
LEMMA Types ==
    ASSUME StartInv, StartAssumption
    PROVE  /\ pc \in [Procs -> Steps] /\ current \in [Procs -> Nat] /\ backup \in [Procs -> BOOLEAN]
           /\ patch \in [Procs -> Legacy \cup {NoPatch}] /\ seen \in [Procs -> SUBSET Patches]
           /\ disk \in Database /\ tx \in Database /\ NoProc \notin Procs
           /\ Latest \in Nat \ {0} /\ Procs = Activators \cup {Daemon}
BY DEF StartInv, TypeOK, StartAssumption, Procs

\* The steps of CreateDb before the version row, and those after it.
LEMMA BeginInv ==
    ASSUME StartInv, StartAssumption, NEW p \in Procs, Begin(p)
    PROVE  StartInv'
<1> USE Types DEF Begin, Goto, Store, Local
<1>1. TypeOK'
  BY DEF StartInv, TypeOK, Steps
<1>2. FileInv' /\ CreateInv' /\ TxInv' /\ HookInv' /\ PatchInv'
  <2>1. lock # p
    BY DEF StartInv, TxInv, Holds, Updating
  <2> QED
    BY <2>1, Frame DEF Updating, Patching
<1> QED
  BY <1>1, <1>2 DEF StartInv

LEMMA CheckCreatedInv ==
    ASSUME StartInv, StartAssumption, NEW p \in Procs, CheckCreated(p)
    PROVE  StartInv'
<1> USE Types DEF CheckCreated, Goto, Local
<1>1. TypeOK'
  BY DEF StartInv, TypeOK, Steps, Database
<1>2. GetSchema(disk.versions) # 0 => disk.tables = "full"
  BY DEF StartInv, FileInv, GetSchema
<1>3. FileInv' /\ CreateInv' /\ TxInv' /\ HookInv' /\ PatchInv'
  <2>1. /\ disk'.versions = disk.versions /\ disk'.applied = disk.applied
        /\ disk'.tables = IF disk.tables = "nofile" THEN "empty" ELSE disk.tables
    BY DEF Database
  <2>2. pc'[p] \in {"tables", "failed", "ensure"} /\ (pc'[p] = "ensure" => disk.tables = "full")
    BY <1>2
  <2> QED
    BY <2>1, <2>2, Frame DEF Updating, Patching
<1> QED
  BY <1>1, <1>3 DEF StartInv

LEMMA CreateTablesInv ==
    ASSUME StartInv, StartAssumption, NEW p \in Procs, CreateTables(p)
    PROVE  StartInv'
<1> USE Types DEF CreateTables, Goto, Local
<1>1. TypeOK'
  BY DEF StartInv, TypeOK, Steps, Database
<1>2. FileInv' /\ CreateInv' /\ TxInv' /\ HookInv' /\ PatchInv'
  <2>1. /\ disk'.versions = disk.versions /\ disk'.applied = disk.applied
        /\ disk'.tables = IF disk.tables = "empty" THEN "partial" ELSE disk.tables
    BY DEF Database
  <2>2. /\ pc'[p] = IF disk.tables = "empty" THEN "version" ELSE "failed"
        /\ disk.tables = "empty" => \A q \in Procs : pc[q] # "version"
    BY DEF StartInv, CreateInv
  <2> QED
    BY <2>1, <2>2, Frame DEF Updating, Patching
<1> QED
  BY <1>1, <1>2 DEF StartInv

LEMMA CreateVersionInv ==
    ASSUME StartInv, StartAssumption, NEW p \in Procs, CreateVersion(p)
    PROVE  StartInv'
<1> USE Types DEF CreateVersion, Goto
<1> DEFINE apps == [u \in Updates |-> 1]
<1>1. /\ disk' \in Database
      /\ disk'.tables = "full" /\ disk'.versions = {Latest} /\ disk'.applied = apps
      /\ disk'.marked = disk.marked
  <2>1. apps \in [Updates -> 0 .. 2]
    OBVIOUS
  <2> HIDE DEF apps
  <2>2. disk' = [disk EXCEPT !.tables = "full", !.versions = {Latest}, !.applied = apps]
    BY DEF apps
  <2> HIDE DEF CreateVersion
  <2>3. disk' = [tables |-> "full", versions |-> {Latest}, applied |-> apps,
                 marked |-> disk.marked, profiles |-> disk.profiles]
    BY <2>2 DEF Database
  <2> QED
    BY <2>1, <2>3 DEF Database
<1>2. TypeOK'
  BY <1>1 DEF StartInv, TypeOK, Steps
<1>3. FileInv'
  <2>1. At(disk, Latest)'
    BY <1>1 DEF At, Top, Updates
  <2> QED
    BY <1>1, <2>1 DEF FileInv
<1>4. \A q \in Procs : pc[q] \notin {"marks", "profiles", "ensure"} \cup Updating \cup Patching
  BY DEF StartInv, CreateInv
<1>5. CreateInv'
  BY <1>1 DEF StartInv, CreateInv
<1>6. TxInv' /\ HookInv' /\ PatchInv'
  BY <1>4 DEF StartInv, TxInv, HookInv, PatchInv, Updating, Patching
<1> QED
  BY <1>2, <1>3, <1>5, <1>6 DEF StartInv

LEMMA CreateRestInv ==
    ASSUME StartInv, StartAssumption, NEW p \in Procs, CreateMark(p) \/ CreateProfile(p)
    PROVE  StartInv'
<1> USE Types
<1>1. /\ pc[p] \in {"marks", "profiles"} /\ lock = NoProc /\ disk.tables = "full"
      /\ UNCHANGED <<tx, lock, patch>>
      /\ pc' = [pc EXCEPT ![p] = pc'[p]] /\ pc'[p] \in {"marks", "profiles", "ensure"}
      /\ \A q \in Procs : q # p => current'[q] = current[q]
  BY DEF CreateMark, CreateProfile, StartInv, CreateInv, Goto, Local
<1>2. /\ disk'.versions = disk.versions /\ disk'.applied = disk.applied
      /\ disk'.tables = disk.tables
  BY DEF CreateMark, CreateProfile, Database
<1>3. TypeOK'
  BY DEF CreateMark, CreateProfile, StartInv, TypeOK, Steps, Goto, Local, Database, Profiles, StartAssumption
<1>4. FileInv' /\ CreateInv' /\ TxInv' /\ HookInv' /\ PatchInv'
  BY <1>1, <1>2, Frame DEF Updating, Patching
<1> QED
  BY <1>3, <1>4 DEF StartInv

\* Ensure begins: the transaction has the schema of its highest version, which
\* the repair of the forgotten row does not move.
LEMMA EnsureBeginInv ==
    ASSUME StartInv, StartAssumption, NEW p \in Procs, EnsureBegin(p)
    PROVE  StartInv'
<1> USE Types
<1> DEFINE V == Repaired(disk.versions)
<1>1. disk.tables = "full" /\ pc[p] = "ensure" /\ lock = NoProc
  BY DEF EnsureBegin, StartInv, CreateInv
<1>2. PICK h \in 1 .. Latest + 1 : At(disk, h)
  BY <1>1 DEF StartInv, FileInv
<1>3. /\ V \in SUBSET (1 .. Latest + 1) /\ Top(V, h) /\ disk.versions \subseteq V
  BY <1>2, RepairedAt DEF At, Database
<1>4. GetSchema(V) = h
  BY <1>3, SchemaIsTop DEF Top
<1> HIDE DEF V
<1>5. /\ tx' = [disk EXCEPT !.versions = V]
      /\ lock' = IF NoHoles(V) /\ h <= Latest THEN p ELSE NoProc
      /\ current' = [current EXCEPT ![p] = h]
      /\ pc' = [pc EXCEPT ![p] = IF NoHoles(V) /\ h <= Latest THEN "loop" ELSE "failed"]
      /\ UNCHANGED <<origin, disk, files, seen, faults>>
      /\ backup' = [backup EXCEPT ![p] = FALSE]
      /\ patch'[p] \in Legacy \/ Legacy = {}
      /\ patch' \in [Procs -> Legacy \cup {NoPatch}]
      /\ \A q \in Procs : q # p => patch'[q] = patch[q]
  BY <1>4 DEF EnsureBegin, Goto, V
<1>6. tx' \in Database /\ tx'.tables = "full" /\ tx'.versions = V /\ tx'.applied = disk.applied
  BY <1>1, <1>3, <1>5 DEF Database
<1>7. At(tx', h)
  BY <1>2, <1>3, <1>6 DEF At
<1>8. TypeOK'
  BY <1>5, <1>6 DEF StartInv, TypeOK, Steps, Updating
<1>9. FileInv' /\ CreateInv'
  BY <1>1, <1>5 DEF StartInv, FileInv, CreateInv, At, Updating, Patching
<1>10. TxInv'
  <2>1. ASSUME NEW q \in Procs, lock' = q PROVE Holds(q)'
    BY <1>3, <1>5, <1>6, <1>7, <2>1 DEF Holds, Updating
  <2>2. ASSUME NEW q \in Procs, pc'[q] \in Updating, lock' # q PROVE Suspended(q)'
    BY <1>1, <1>5, <2>2 DEF StartInv, TxInv, Suspended, Updating
  <2>3. ASSUME NEW q \in Procs, pc'[q] \in Updating \ {"loop"} PROVE current'[q] < Latest
    BY <1>5, <2>3 DEF StartInv, TxInv, Updating
  <2> QED
    BY <2>1, <2>2, <2>3 DEF TxInv
<1>11. HookInv' /\ PatchInv'
  BY <1>5 DEF StartInv, HookInv, PatchInv, Updating, Patching
<1> QED
  BY <1>8, <1>9, <1>10, <1>11 DEF StartInv

LEMMA BackupInv ==
    ASSUME StartInv, StartAssumption, NEW p \in Procs, Backup(p)
    PROVE  StartInv'
<1> USE Types
<1>1. PICK h \in 1 .. Latest + 1 : At(disk, h)
  BY DEF Backup, StartInv, FileInv, CreateInv, Updating
<1>2. GetSchema(disk.versions) = h
  BY <1>1, SchemaIsTop DEF At, Top, Database
<1>3. TypeOK'
  BY <1>2 DEF Backup, StartInv, TypeOK
<1>4. FileInv' /\ CreateInv' /\ TxInv' /\ HookInv' /\ PatchInv'
  BY DEF Backup, StartInv, FileInv, CreateInv, TxInv, HookInv, PatchInv, At, Holds, Suspended
<1> QED
  BY <1>3, <1>4 DEF StartInv

\* Committing the transaction of the process at the lock, in the hook or at the
\* end of Ensure: the file is then at the version of its loop variable, and what
\* was recorded before still is.
LEMMA Committed ==
    ASSUME StartInv, StartAssumption, NEW p \in Procs, pc[p] = "loop",
           disk' = tx, tx' = tx, lock' = NoProc,
           \A q \in Procs : q # p => pc'[q] = pc[q] /\ current'[q] = current[q] /\ patch'[q] = patch[q],
           pc'[p] \in {"legacy", "update", "patch", "gone"},
           pc'[p] \in Updating => current'[p] = current[p] /\ current[p] < Latest /\ patch'[p] = patch[p],
           pc'[p] = "legacy" => current[p] \in Legacy,
           pc'[p] \in Patching => current[p] = Latest
    PROVE  FileInv' /\ CreateInv' /\ TxInv' /\ HookInv' /\ PatchInv'
<1> USE Types
<1>1. Holds(p) /\ lock = p
  BY DEF StartInv, TxInv, Suspended, Updating
<1>2. disk.tables = "full"
  BY DEF StartInv, CreateInv, Updating
<1>3. FileInv'
  BY <1>1 DEF Holds, FileInv, At
<1>4. CreateInv'
  BY <1>1, <1>2 DEF Holds, StartInv, CreateInv
<1>5. TxInv'
  <2>1. ASSUME NEW q \in Procs, pc'[q] \in Updating PROVE Suspended(q)'
    <3>1. CASE q = p
      BY <1>1, <2>1, <3>1 DEF Holds, Suspended, At, Top
    <3>2. CASE q # p
      BY <1>1, <2>1, <3>2 DEF StartInv, TxInv, Suspended, Holds
    <3> QED
      BY <3>1, <3>2
  <2>2. ASSUME NEW q \in Procs, pc'[q] \in Updating \ {"loop"} PROVE current'[q] < Latest
    BY <2>2 DEF StartInv, TxInv
  <2> QED
    BY <2>1, <2>2 DEF TxInv
<1>6. HookInv'
  BY DEF StartInv, HookInv, Updating
<1>7. PatchInv'
  <2>1. ASSUME NEW q \in Procs, pc'[q] \in Patching PROVE current[p] = Latest
    <3>1. CASE q = p
      BY <2>1, <3>1
    <3>2. CASE q # p
      <4>1. Latest \in tx.versions
        BY <1>1, <2>1, <3>2 DEF StartInv, PatchInv, Top, Holds
      <4>2. Latest <= current[p] /\ current[p] <= Latest /\ current[p] \in Nat
        BY <1>1, <4>1 DEF Holds, At, Top
      <4> QED
        BY <4>2
    <3> QED
      BY <3>1, <3>2
  <2>2. ASSUME NEW q \in Procs, pc'[q] = "mark" PROVE current'[q] \in Patches
    BY <2>2 DEF StartInv, PatchInv
  <2> QED
    BY <1>1, <2>1, <2>2 DEF PatchInv, Holds, At
<1> QED
  BY <1>3, <1>4, <1>5, <1>6, <1>7

LEMMA HookStepInv ==
    ASSUME StartInv, StartAssumption, NEW p \in Procs, Hook(p)
    PROVE  StartInv'
<1> USE Types
<1>1. lock = p /\ disk.tables = "full"
  BY DEF Hook, StartInv, TxInv, Suspended, CreateInv, Updating
<1>2. TypeOK'
  BY DEF Hook, StartInv, TypeOK, Steps, Updating, Goto, Local
<1>3. /\ pc[p] = "loop" /\ pc' = [pc EXCEPT ![p] = pc'[p]] /\ pc'[p] \in {"legacy", "update"}
      /\ pc'[p] = "legacy" => current[p] \in Legacy
      /\ current[p] < Latest /\ UNCHANGED <<tx, current, patch>>
  BY DEF Hook, Goto, Local
<1>4. FileInv' /\ CreateInv' /\ TxInv' /\ HookInv' /\ PatchInv'
  <2>1. CASE current[p] \in NeedsDB
    <3>1. disk' = tx /\ lock' = NoProc
      BY <2>1 DEF Hook
    <3> QED
      BY <1>3, <3>1, Committed DEF Patching
  <2>2. CASE current[p] \notin NeedsDB
    <3>1. disk' = disk /\ lock' = lock
      BY <2>2 DEF Hook
    <3> QED
      BY <1>1, <1>3, <3>1, Frame DEF Updating, Patching
  <2> QED
    BY <2>1, <2>2
<1> QED
  BY <1>2, <1>4 DEF StartInv

LEMMA LegacyPatchInv ==
    ASSUME StartInv, StartAssumption, NEW p \in Procs, LegacyPatch(p)
    PROVE  StartInv'
<1> USE Types
<1>1. patch[p] \in Legacy /\ current[p] < Latest /\ disk.tables = "full"
  BY DEF LegacyPatch, StartInv, HookInv, TxInv, CreateInv, Updating
<1>2. /\ pc[p] = "legacy" /\ pc' = [pc EXCEPT ![p] = pc'[p]] /\ pc'[p] \in {"reopen", "failed"}
      /\ pc'[p] = "failed" => lock = p /\ lock' = NoProc
      /\ pc'[p] = "reopen" => lock' = lock
      /\ UNCHANGED <<origin, disk, tx, current, backup, patch, seen, faults>>
      /\ files' = files \/ files' = [files EXCEPT !.ran = @ \cup {patch[p]}]
  BY DEF LegacyPatch, Goto, Local
<1>3. TypeOK'
  BY <1>1, <1>2 DEF StartInv, TypeOK, Steps, Updating
<1>4. FileInv' /\ CreateInv' /\ TxInv' /\ HookInv' /\ PatchInv'
  BY <1>1, <1>2, Frame DEF Updating, Patching
<1> QED
  BY <1>3, <1>4 DEF StartInv

LEMMA ReopenInv ==
    ASSUME StartInv, StartAssumption, NEW p \in Procs, Reopen(p)
    PROVE  StartInv'
<1> USE Types DEF Reopen, Goto, Store, Local
<1>1. current[p] < Latest /\ disk.tables = "full"
  BY DEF StartInv, TxInv, CreateInv, Updating
<1>2. TypeOK'
  BY DEF StartInv, TypeOK, Steps, Updating
<1>3. FileInv' /\ CreateInv' /\ TxInv' /\ HookInv' /\ PatchInv'
  BY <1>1, Frame DEF Updating, Patching
<1> QED
  BY <1>2, <1>3 DEF StartInv

\* The heart of the matter: the update applied to the transaction, or to the file
\* as it is by then, is the one after its highest version, or else its version
\* row is already there and the process fails.
LEMMA UpdateInv ==
    ASSUME StartInv, StartAssumption, NEW p \in Procs, Update(p)
    PROVE  StartInv'
<1> USE Types
<1> DEFINE base == IF lock = p THEN tx ELSE disk
           next == current[p] + 1
<1>1. /\ pc[p] = "update" /\ lock \in {p, NoProc} /\ current[p] \in Nat /\ current[p] < Latest
      /\ disk.tables = "full"
      /\ UNCHANGED <<origin, disk, files, backup, patch, seen, faults>>
  BY DEF Update, StartInv, TxInv, CreateInv, Updating
<1>2. /\ base \in Database /\ base.tables = "full" /\ NoHoles(base.versions)
      /\ disk.versions \subseteq base.versions
      /\ current[p] \in base.versions
      /\ \E h \in 1 .. Latest + 1 : At(base, h)
  <2>1. CASE lock = p
    BY <2>1 DEF StartInv, TxInv, Holds, At, Top
  <2>2. CASE lock # p
    BY <1>1, <2>2 DEF StartInv, TxInv, Suspended, FileInv, Updating
  <2> QED
    BY <2>1, <2>2
<1>3. CASE CanInsert(base, next)
  <2>1. /\ tx' = InsertSchemaVersion([base EXCEPT !.applied[next] = @ + 1], next)
        /\ lock' = p
        /\ current' = [current EXCEPT ![p] = next]
        /\ pc' = [pc EXCEPT ![p] = "loop"]
    BY <1>3 DEF Update, Goto
  <2> HIDE DEF base
  <2>2. PICK h \in 1 .. Latest + 1 : At(base, h)
    BY <1>2
  <2>3. current[p] = h
    BY <1>2, <1>3, <2>2, NextIsFree DEF CanInsert, At, Database
  <2>4. /\ tx' \in Database /\ At(tx', next) /\ NoHoles(tx'.versions) /\ tx'.tables = "full"
        /\ disk.versions \subseteq tx'.versions
    <3>1. At(base, current[p]) /\ current[p] \in 1 .. Latest
      BY <1>1, <2>2, <2>3
    <3> QED
      BY <1>1, <1>2, <2>1, <3>1, AppliedNext
  <2>5. TypeOK'
    BY <1>1, <2>1, <2>4 DEF StartInv, TypeOK, Steps, Updating
  <2>6. FileInv' /\ CreateInv'
    BY <1>1, <2>1 DEF StartInv, FileInv, CreateInv, At, Updating, Patching
  <2>7. TxInv'
    <3>1. Holds(p)'
      BY <1>1, <2>1, <2>4 DEF Holds, Updating
    <3>2. ASSUME NEW q \in Procs, q # p, pc'[q] \in Updating PROVE Suspended(q)' 
      BY <1>1, <2>1, <3>2 DEF StartInv, TxInv, Suspended
    <3>3. ASSUME NEW q \in Procs, pc'[q] \in Updating \ {"loop"} PROVE current'[q] < Latest
      BY <2>1, <3>3 DEF StartInv, TxInv
    <3> QED
      BY <2>1, <3>1, <3>2, <3>3 DEF TxInv
  <2>8. HookInv' /\ PatchInv'
    BY <1>1, <2>1 DEF StartInv, HookInv, PatchInv, Updating, Patching
  <2> QED
    BY <2>5, <2>6, <2>7, <2>8 DEF StartInv
<1>4. CASE ~ CanInsert(base, next)
  <2>1. lock' = NoProc /\ pc' = [pc EXCEPT ![p] = "failed"] /\ UNCHANGED <<tx, current>>
    BY <1>4 DEF Update, Goto
  <2>2. TypeOK'
    BY <1>1, <2>1 DEF StartInv, TypeOK, Steps
  <2>3. FileInv' /\ CreateInv' /\ TxInv' /\ HookInv' /\ PatchInv'
    BY <1>1, <2>1, Frame DEF Updating, Patching
  <2> QED
    BY <2>2, <2>3 DEF StartInv
<1> QED
  BY <1>3, <1>4

LEMMA CommitInv ==
    ASSUME StartInv, StartAssumption, NEW p \in Procs, Commit(p)
    PROVE  StartInv'
<1> USE Types DEF Commit, Goto
<1>1. TypeOK'
  BY DEF StartInv, TypeOK, Steps, Patching
<1>2. FileInv' /\ CreateInv' /\ TxInv' /\ HookInv' /\ PatchInv'
  BY Committed DEF Updating
<1> QED
  BY <1>1, <1>2 DEF StartInv

LEMMA PatchesInv ==
    ASSUME StartInv, StartAssumption, NEW p \in Procs,
           ReadPatches(p) \/ RunPatch(p) \/ MarkPatch(p)
    PROVE  StartInv'
<1> USE Types
<1>1. /\ pc[p] \in {"patch", "mark"} /\ lock = NoProc /\ UNCHANGED <<tx, lock, patch>>
      /\ pc' = [pc EXCEPT ![p] = pc'[p]] /\ pc'[p] \in {"patch", "mark", "ready", "failed"}
      /\ \A q \in Procs : q # p => current'[q] = current[q]
  BY DEF ReadPatches, RunPatch, MarkPatch, Goto, Store
<1>2. /\ disk'.versions = disk.versions /\ disk'.applied = disk.applied
      /\ disk'.tables = disk.tables
  BY DEF ReadPatches, RunPatch, MarkPatch, Store, Database
<1>3. /\ disk.tables = "full" /\ Top(disk.versions, Latest)
      /\ pc'[p] = "mark" => current'[p] \in Patches
  BY <1>1 DEF StartInv, CreateInv, PatchInv, Patching, ReadPatches, RunPatch, MarkPatch, Goto
<1>4. TypeOK'
  <2>1. CASE ReadPatches(p)
    BY <2>1 DEF ReadPatches, StartInv, TypeOK, Store, Database
  <2>2. CASE RunPatch(p)
    BY <2>2 DEF RunPatch, Goto, StartInv, TypeOK, Steps, Patching
  <2>3. CASE MarkPatch(p)
    <3>1. current[p] \in Patches
      BY <2>3 DEF StartInv, PatchInv, MarkPatch
    <3> QED
      BY <2>3, <3>1 DEF MarkPatch, Goto, StartInv, TypeOK, Steps, Patching, Database
  <2> QED
    BY <2>1, <2>2, <2>3
<1>5. FileInv' /\ CreateInv' /\ TxInv' /\ HookInv' /\ PatchInv'
  BY <1>1, <1>2, <1>3, Frame DEF Updating, Patching
<1> QED
  BY <1>4, <1>5 DEF StartInv

LEMMA EndInv ==
    ASSUME StartInv, StartAssumption, NEW p \in Procs, Fail(p) \/ Kill(p) \/ Restart(p)
    PROVE  StartInv'
<1> USE Types
<1>1. /\ pc' = [pc EXCEPT ![p] = pc'[p]] /\ pc'[p] \in {"off", "failed", "gone"}
      /\ lock' = IF lock = p THEN NoProc ELSE lock
      /\ UNCHANGED <<origin, disk, tx, files>>
      /\ \A q \in Procs : q # p => current'[q] = current[q] /\ patch'[q] = patch[q]
  <2>1. CASE Fail(p)
    BY <2>1 DEF Fail, Goto, Release, Local
  <2>2. CASE Kill(p)
    BY <2>2 DEF Kill, Goto, Release, Forget
  <2>3. CASE Restart(p)
    <3>1. lock # p
      BY <2>3 DEF Restart, StartInv, TxInv, Holds, Updating
    <3> QED
      BY <2>3, <3>1 DEF Restart, Goto, Forget, Store
  <2> QED
    BY <2>1, <2>2, <2>3
<1>2. TypeOK'
  <2>1. /\ current' \in [Procs -> Nat] /\ backup' \in [Procs -> BOOLEAN]
        /\ patch' \in [Procs -> Legacy \cup {NoPatch}] /\ seen' \in [Procs -> SUBSET Patches]
    <3>1. CASE Forget(p)
      BY <3>1 DEF Forget
    <3>2. CASE UNCHANGED Local
      BY <3>2 DEF Local
    <3> QED
      BY <3>1, <3>2 DEF Fail, Kill, Restart
  <2>2. faults' \in 0 .. MaxFaults
    BY DEF Fail, Kill, Restart, StartInv, TypeOK, StartAssumption
  <2>3. pc' \in [Procs -> Steps]
    BY <1>1 DEF Steps
  <2>4. /\ origin' \in Origins /\ disk' \in Database /\ tx' \in Database
        /\ lock' \in Procs \cup {NoProc}
        /\ files' \in [ran : SUBSET Legacy, patched : SUBSET Patches, bak : {NoBackup} \cup Nat]
    BY <1>1 DEF StartInv, TypeOK
  <2> QED
    BY <2>1, <2>2, <2>3, <2>4 DEF TypeOK
<1>3. FileInv' /\ CreateInv' /\ TxInv' /\ HookInv' /\ PatchInv'
  <2>1. lock = p => pc'[p] \notin Updating
    BY <1>1 DEF Updating
  <2> QED
    BY <1>1, <2>1, Frame DEF Updating, Patching
<1> QED
  BY <1>2, <1>3 DEF StartInv

-----------------------------------------------------------------------------

\* Every step of every process preserves the invariant.
LEMMA NextInv == StartAssumption /\ StartInv /\ [Next]_vars => StartInv'
<1> SUFFICES ASSUME StartAssumption, StartInv, [Next]_vars PROVE StartInv'
  OBVIOUS
<1>1. CASE Next
  <2> PICK p \in Procs : Step(p) \/ Fail(p) \/ Kill(p)
    BY <1>1 DEF Next
  <2>1. CASE Begin(p) \/ CheckCreated(p) \/ CreateTables(p) \/ CreateVersion(p)
    BY <2>1, BeginInv, CheckCreatedInv, CreateTablesInv, CreateVersionInv
  <2>2. CASE CreateMark(p) \/ CreateProfile(p) \/ EnsureBegin(p) \/ Backup(p) \/ Hook(p)
    BY <2>2, CreateRestInv, EnsureBeginInv, BackupInv, HookStepInv
  <2>3. CASE LegacyPatch(p) \/ Reopen(p) \/ Update(p) \/ Commit(p)
    BY <2>3, LegacyPatchInv, ReopenInv, UpdateInv, CommitInv
  <2>4. CASE ReadPatches(p) \/ RunPatch(p) \/ MarkPatch(p)
    BY <2>4, PatchesInv
  <2>5. CASE Fail(p) \/ Kill(p) \/ Restart(p)
    BY <2>5, EndInv
  <2> QED
    BY <2>1, <2>2, <2>3, <2>4, <2>5 DEF Step
<1>2. CASE UNCHANGED vars
  BY <1>2 DEF vars, StartInv, TypeOK, FileInv, CreateInv, TxInv, HookInv, PatchInv,
              At, Holds, Suspended
<1> QED
  BY <1>1, <1>2

\* The invariant of the startup holds whatever is killed or fails, and whoever
\* else starts at the same time.
THEOREM StartInvariant == Spec => []StartInv
<1>1. Init => StartInv
  BY InitInv, StartAssumption DEF StartAssumption
<1>2. StartInv /\ [Next]_vars => StartInv'
  BY NextInv, StartAssumption DEF StartAssumption
<1> QED
  BY <1>1, <1>2, PTL DEF Spec

\* The type invariant.
THEOREM TypeCorrect == Spec => []TypeOK
<1>1. StartInv => TypeOK
  BY DEF StartInv
<1> QED
  BY <1>1, StartInvariant, PTL

\* Every schema update has taken effect exactly once up to the recorded version
\* and not at all beyond it, although Ensure's transaction is committed in the
\* middle by its hook and other processes upgrade the file then.
THEOREM UpdatesOnce == Spec => []EachUpdateOnce
<1>1. StartInv => EachUpdateOnce
  <2> SUFFICES ASSUME StartInv, disk.tables = "full", NEW u \in Updates
               PROVE  disk.applied[u] = IF u <= GetSchema(disk.versions) THEN 1 ELSE 0
    BY DEF EachUpdateOnce
  <2>1. PICK h \in 1 .. Latest + 1 : At(disk, h)
    BY DEF StartInv, FileInv
  <2>2. disk.versions \in SUBSET Int
    BY DEF StartInv, TypeOK, Database
  <2>3. GetSchema(disk.versions) = h
    BY <2>1, <2>2, SchemaIsTop DEF At, Top
  <2> QED
    BY <2>1, <2>3 DEF At
<1> QED
  BY <1>1, StartInvariant, PTL

\* A patch runs, and the daemon serves, only on a file whose committed schema is
\* the latest.
THEOREM PatchesFollow == Spec => []PatchesAfterSchema
<1>1. StartInv => PatchesAfterSchema
  <2> SUFFICES ASSUME StartInv, NEW p \in Procs, pc[p] \in Patching
               PROVE  GetSchema(disk.versions) = Latest
    BY DEF PatchesAfterSchema
  <2>1. Top(disk.versions, Latest) /\ disk.versions \in SUBSET Int
    BY DEF StartInv, PatchInv, TypeOK, Database
  <2> QED
    BY <2>1, SchemaIsTop DEF Top
<1> QED
  BY <1>1, StartInvariant, PTL

-----------------------------------------------------------------------------

\* On a file that is not created from nothing, a patch that is marked, or was
\* found marked, or is behind the loop variable, has run.
RanInv ==
    origin # 0 =>
        /\ disk.tables = "full"
        /\ disk.marked \subseteq files.patched /\ tx.marked \subseteq files.patched
        /\ \A p \in Procs :
             /\ pc[p] # "marks"
             /\ seen[p] \subseteq files.patched
             /\ pc[p] \in {"patch", "mark"} =>
                    \A k \in Patches : k < current[p] => k \in files.patched
             /\ pc[p] = "mark" => current[p] \in files.patched
             /\ pc[p] = "ready" => Patches \subseteq files.patched

\* A step of p preserves it if what p marks, reads or leaves behind has run.
LEMMA RanFrame ==
    ASSUME RanInv, NEW p \in Procs, origin' = origin, origin # 0,
           files.patched \subseteq files'.patched, disk'.tables = disk.tables,
           disk'.marked \subseteq files'.patched, tx'.marked \subseteq files'.patched,
           \A q \in Procs : q # p => pc'[q] = pc[q] /\ current'[q] = current[q] /\ seen'[q] = seen[q],
           pc'[p] # "marks", seen'[p] \subseteq files'.patched,
           pc'[p] \in {"patch", "mark"} =>
               \A k \in Patches : k < current'[p] => k \in files'.patched,
           pc'[p] = "mark" => current'[p] \in files'.patched,
           pc'[p] = "ready" => Patches \subseteq files'.patched
    PROVE  RanInv'
BY DEF RanInv

\* CreateDb finds its tables in such a file, and the schema updates mark nothing.
LEMMA RanSchema ==
    ASSUME StartInv, StartAssumption, RanInv, origin # 0, NEW p \in Procs,
           \/ Begin(p) \/ CheckCreated(p) \/ CreateTables(p) \/ CreateProfile(p)
           \/ EnsureBegin(p) \/ Backup(p) \/ Hook(p) \/ LegacyPatch(p) \/ Reopen(p)
           \/ Update(p) \/ Commit(p)
    PROVE  RanInv'
<1> USE Types
<1>1. disk.tables = "full" /\ seen[p] \subseteq files.patched /\ pc[p] # "marks"
      /\ disk.marked \subseteq files.patched /\ tx.marked \subseteq files.patched
  BY DEF RanInv
<1>2. CASE Begin(p) \/ Backup(p) \/ Reopen(p)
  <2>1. /\ pc' \in {[pc EXCEPT ![p] = "create"], [pc EXCEPT ![p] = "update"], pc}
        /\ pc[p] \in {"off", "loop", "reopen"}
        /\ UNCHANGED <<origin, disk, tx, current, seen>> /\ files'.patched = files.patched
    BY <1>2 DEF Begin, Backup, Reopen, Goto, Local, Store, StartInv, TypeOK
  <2> QED
    BY <1>1, <2>1, RanFrame
<1>3. CASE CheckCreated(p) \/ CreateTables(p)
  <2>1. /\ disk' = disk /\ UNCHANGED <<origin, tx, files, current, seen>>
        /\ pc' = [pc EXCEPT ![p] = pc'[p]] /\ pc'[p] \in {"tables", "failed", "ensure"}
    BY <1>1, <1>3 DEF CheckCreated, CreateTables, Goto, Local
  <2> QED
    BY <1>1, <2>1, RanFrame
<1>4. CASE CreateProfile(p)
  <2>1. /\ disk'.marked = disk.marked /\ disk'.tables = disk.tables
        /\ UNCHANGED <<origin, tx, files, current, seen>>
        /\ pc' = [pc EXCEPT ![p] = pc'[p]] /\ pc'[p] \in {"profiles", "ensure"}
    BY <1>4 DEF CreateProfile, Goto, Local, Database
  <2> QED
    BY <1>1, <2>1, RanFrame
<1>5. CASE EnsureBegin(p)
  <2>1. /\ tx'.marked = disk.marked /\ UNCHANGED <<origin, disk, files, seen>>
        /\ pc' = [pc EXCEPT ![p] = pc'[p]] /\ pc'[p] \in {"loop", "failed"}
        /\ \A q \in Procs : q # p => current'[q] = current[q]
    BY <1>5 DEF EnsureBegin, Goto, Database
  <2> QED
    BY <1>1, <2>1, RanFrame
<1>6. CASE Hook(p) \/ LegacyPatch(p)
  <2>1. /\ disk' = disk \/ (disk' = tx /\ pc[p] = "loop")
        /\ UNCHANGED <<origin, tx, current, seen>> /\ files'.patched = files.patched
        /\ pc' = [pc EXCEPT ![p] = pc'[p]] /\ pc'[p] \in {"legacy", "update", "reopen", "failed"}
    BY <1>6 DEF Hook, LegacyPatch, Goto, Local, StartInv, TypeOK
  <2>2. disk'.tables = disk.tables
    BY <1>1, <2>1 DEF StartInv, TxInv, Holds, Suspended, Updating
  <2> QED
    BY <1>1, <2>1, <2>2, RanFrame
<1>7. CASE Update(p)
  <2>1. /\ tx'.marked \in {disk.marked, tx.marked} /\ UNCHANGED <<origin, disk, files, seen>>
        /\ pc' = [pc EXCEPT ![p] = pc'[p]] /\ pc'[p] \in {"loop", "failed"}
        /\ \A q \in Procs : q # p => current'[q] = current[q]
    BY <1>7 DEF Update, InsertSchemaVersion, Goto, Database
  <2> QED
    BY <1>1, <2>1, RanFrame
<1>8. CASE Commit(p)
  <2>1. /\ disk' = tx /\ UNCHANGED <<origin, tx, files, seen>>
        /\ pc' = [pc EXCEPT ![p] = pc'[p]] /\ pc'[p] \in {"patch", "gone"}
        /\ current' = [current EXCEPT ![p] = 0]
    BY <1>8 DEF Commit, Goto
  <2>2. disk'.tables = disk.tables
    BY <1>1, <1>8, <2>1 DEF Commit, StartInv, TxInv, Holds, Suspended, Updating
  <2>3. \A k \in Patches : ~ (k < 0)
    BY DEF Patches
  <2> QED
    BY <1>1, <2>1, <2>2, <2>3, RanFrame
<1> QED
  BY <1>2, <1>3, <1>4, <1>5, <1>6, <1>7, <1>8

\* The end of a process changes no file.
LEMMA RanEnd ==
    ASSUME StartInv, StartAssumption, RanInv, origin # 0, NEW p \in Procs,
           Fail(p) \/ Kill(p) \/ Restart(p)
    PROVE  RanInv'
<1> USE Types
<1>1. /\ UNCHANGED <<origin, disk, tx, files>>
      /\ pc' = [pc EXCEPT ![p] = pc'[p]] /\ pc'[p] \in {"off", "failed", "gone"}
  BY DEF Fail, Kill, Restart, Goto, Store
<1>2. /\ \A q \in Procs : q # p => current'[q] = current[q] /\ seen'[q] = seen[q]
      /\ seen'[p] \in {seen[p], {}}
  <2>1. CASE Forget(p)
    BY <2>1 DEF Forget
  <2>2. CASE UNCHANGED Local
    BY <2>2 DEF Local
  <2> QED
    BY <2>1, <2>2 DEF Fail, Kill, Restart
<1>3. /\ disk.marked \subseteq files.patched /\ tx.marked \subseteq files.patched
      /\ seen[p] \subseteq files.patched
  BY DEF RanInv
<1> QED
  BY <1>1, <1>2, <1>3, RanFrame

\* A patch is marked after it has run, and the loop ends when all have.
LEMMA RanPatches ==
    ASSUME StartInv, StartAssumption, RanInv, origin # 0, NEW p \in Procs,
           ReadPatches(p) \/ RunPatch(p) \/ MarkPatch(p)
    PROVE  RanInv'
<1> USE Types
<1> DEFINE behind == \A k \in Patches : k < current[p] => k \in files.patched
<1>1. /\ disk.tables = "full" /\ seen[p] \subseteq files.patched
      /\ disk.marked \subseteq files.patched /\ tx.marked \subseteq files.patched
      /\ pc[p] \in {"patch", "mark"} => behind
      /\ pc[p] = "mark" => current[p] \in files.patched
  BY DEF RanInv
<1>2. Patches \subseteq Nat /\ \A k \in Patches : 1 <= k
  BY DEF Patches
<1>3. CASE ReadPatches(p)
  <2>1. /\ pc[p] = "patch" /\ UNCHANGED <<origin, disk, tx, files, pc>>
        /\ seen' = [seen EXCEPT ![p] = disk.marked] /\ current' = [current EXCEPT ![p] = 1]
    BY <1>3 DEF ReadPatches, Store
  <2>2. \A k \in Patches : ~ (k < current'[p])
    <3>1. current'[p] = 1
      BY <2>1
    <3>2. \A k \in Patches : ~ (k < 1)
      BY DEF Patches
    <3> QED
      BY <3>1, <3>2
  <2> QED
    BY <1>1, <2>1, <2>2, RanFrame
<1>4. CASE RunPatch(p)
  <2>1. pc[p] = "patch" /\ UNCHANGED <<origin, disk, tx, seen>> /\ current[p] \in Nat /\ current[p] > 0
    BY <1>4 DEF RunPatch
  <2>2. CASE /\ current[p] \in Patches \ seen[p] /\ UNCHANGED current
             /\ files' = [files EXCEPT !.patched = @ \cup {current[p]}]
             /\ pc' = [pc EXCEPT ![p] = "mark"]
    <3>1. files'.patched = files.patched \cup {current[p]}
      BY <2>2 DEF StartInv, TypeOK
    <3> QED
      BY <1>1, <2>1, <2>2, <3>1, RanFrame
  <2>3. CASE /\ current[p] \in Patches \cap seen[p] /\ UNCHANGED <<files, pc>>
             /\ current' = [current EXCEPT ![p] = @ + 1]
    <3>1. \A k \in Patches : k < current'[p] => k \in files.patched
      BY <1>1, <1>2, <2>1, <2>3
    <3> QED
      BY <1>1, <2>1, <2>3, <3>1, RanFrame
  <2>4. CASE /\ current[p] \notin Patches /\ UNCHANGED <<files, current>>
             /\ pc' = [pc EXCEPT ![p] = "ready"]
    <3>1. \A k \in Patches : k < current[p]
      BY <2>1, <2>4 DEF Patches, StartAssumption
    <3> QED
      BY <1>1, <2>1, <2>4, <3>1, RanFrame
  <2> QED
    BY <1>4, <2>2, <2>3, <2>4 DEF RunPatch, Goto
<1>5. CASE MarkPatch(p)
  <2>1. pc[p] = "mark" /\ UNCHANGED <<origin, tx, files, seen>> /\ current[p] \in Nat
    BY <1>5 DEF MarkPatch
  <2>2. /\ disk'.marked \subseteq disk.marked \cup {current[p]} /\ disk'.tables = disk.tables
        /\ pc' = [pc EXCEPT ![p] = pc'[p]] /\ pc'[p] \in {"patch", "failed"}
        /\ \A q \in Procs : q # p => current'[q] = current[q]
        /\ current'[p] \in {current[p], current[p] + 1}
    BY <1>5 DEF MarkPatch, Goto, Database
  <2>3. \A k \in Patches : k < current'[p] => k \in files.patched
    BY <1>1, <1>2, <2>1, <2>2
  <2> QED
    BY <1>1, <2>1, <2>2, <2>3, RanFrame
<1> QED
  BY <1>3, <1>4, <1>5

\* No step changes what the file was at first.
LEMMA OriginKept == [Next]_vars => origin' = origin
BY DEF Next, vars, Step, Begin, CheckCreated, CreateTables, CreateVersion, CreateMark, CreateProfile,
       EnsureBegin, Backup, Hook, LegacyPatch, Reopen, Update, Commit, ReadPatches, RunPatch, MarkPatch,
       Fail, Kill, Restart

\* A daemon that serves a database it did not create has had every patch run,
\* whatever was killed between the run of a patch and its mark.
THEOREM PatchesComplete == Spec => []NoPatchSkipped
<1>1. Init => RanInv
  <2> SUFFICES ASSUME Init, origin # 0 PROVE RanInv
    BY DEF RanInv
  <2>1. disk.tables = "full" /\ disk.marked = {} /\ tx = disk
    BY DEF Init
  <2> QED
    BY <2>1 DEF Init, RanInv
<1>2. StartInv /\ RanInv /\ [Next]_vars => RanInv'
  <2> SUFFICES ASSUME StartInv, RanInv, [Next]_vars PROVE RanInv'
    OBVIOUS
  <2>0. CASE origin = 0
    BY <2>0, OriginKept DEF RanInv
  <2>1. CASE UNCHANGED vars
    BY <2>1 DEF vars, RanInv
  <2>2. CASE Next /\ origin # 0
    <3> PICK p \in Procs : Step(p) \/ Fail(p) \/ Kill(p)
      BY <2>2 DEF Next
    <3>1. CASE CreateVersion(p) \/ CreateMark(p)
      BY <2>2, <3>1 DEF CreateVersion, CreateMark, StartInv, CreateInv, RanInv
    <3>2. CASE ReadPatches(p) \/ RunPatch(p) \/ MarkPatch(p)
      BY <2>2, <3>2, RanPatches, StartAssumption DEF StartAssumption
    <3>3. CASE Fail(p) \/ Kill(p) \/ Restart(p)
      BY <2>2, <3>3, RanEnd, StartAssumption DEF StartAssumption
    <3>4. CASE \/ Begin(p) \/ CheckCreated(p) \/ CreateTables(p) \/ CreateProfile(p)
               \/ EnsureBegin(p) \/ Backup(p) \/ Hook(p) \/ LegacyPatch(p) \/ Reopen(p)
               \/ Update(p) \/ Commit(p)
      BY <2>2, <3>4, RanSchema, StartAssumption DEF StartAssumption
    <3> QED
      BY <3>1, <3>2, <3>3, <3>4 DEF Step
  <2> QED
    BY <2>0, <2>1, <2>2
<1>3. StartInv /\ RanInv => NoPatchSkipped
  <2> SUFFICES ASSUME StartInv, RanInv, pc[Daemon] = "ready", origin # 0 PROVE files.patched = Patches
    BY DEF NoPatchSkipped
  <2> QED
    BY DEF RanInv, StartInv, TypeOK, Procs
<1> QED
  BY <1>1, <1>2, <1>3, StartInvariant, PTL DEF Spec

\* What the daemon may rely on when it serves: the latest schema, and every patch.
THEOREM PatchesAreSound == Spec => []PatchesSound
<1>1. PatchesAfterSchema /\ NoPatchSkipped => PatchesSound
  BY DEF PatchesSound
<1> QED
  BY <1>1, PatchesFollow, PatchesComplete, PTL

-----------------------------------------------------------------------------

\* What must have been done before the versions V may be recorded: a copy of the
\* file if one of them is new, a legacy patch if one is past a legacy version.
Prepared(V) ==
    /\ (\E v \in V : v > origin) => files.bak # NoBackup
    /\ (\E l \in Legacy : \E v \in V : origin <= l /\ l < v) => files.ran # {}

\* On a file that is not created from nothing: the file stays at least where it
\* was, and so does its copy; what is recorded, or about to be, was prepared; and
\* a process past its hook has made the copy, and run a legacy patch where the
\* version has one.
PrepInv ==
    origin # 0 =>
        /\ disk.tables = "full"
        /\ \E v \in disk.versions : v >= origin
        /\ files.bak # NoBackup => files.bak >= origin /\ \E v \in disk.versions : v >= files.bak
        /\ Prepared(disk.versions)
        /\ lock # NoProc => Prepared(tx.versions)
        /\ \A p \in Procs :
             /\ backup[p] => files.bak # NoBackup
             /\ pc[p] \in Updating \ {"loop"} => backup[p]
             /\ pc[p] = "reopen" \/ (pc[p] = "update" /\ current[p] \in Legacy) => files.ran # {}

\* A step of p preserves it if it forgets neither versions nor preparations, and
\* what it records is prepared.
LEMMA PrepFrame ==
    ASSUME PrepInv, origin # 0, NEW p \in Procs, origin' = origin,
           disk'.tables = disk.tables, disk.versions \subseteq disk'.versions,
           files.ran # {} => files'.ran # {},
           files.bak # NoBackup => files'.bak # NoBackup,
           files'.bak = files.bak
             \/ (files'.bak >= origin /\ \E v \in disk'.versions : v >= files'.bak),
           Prepared(disk.versions)', lock' # NoProc => Prepared(tx.versions)',
           \A q \in Procs : q # p => pc'[q] = pc[q] /\ current'[q] = current[q] /\ backup'[q] = backup[q],
           backup'[p] => files'.bak # NoBackup,
           pc'[p] \in Updating \ {"loop"} => backup'[p],
           pc'[p] = "reopen" \/ (pc'[p] = "update" /\ current'[p] \in Legacy) => files'.ran # {}
    PROVE  PrepInv'
<1>1. /\ disk'.tables = "full" /\ \E v \in disk'.versions : v >= origin
      /\ files'.bak # NoBackup => files'.bak >= origin /\ \E v \in disk'.versions : v >= files'.bak
  BY DEF PrepInv
<1>2. \A q \in Procs :
         /\ backup'[q] => files'.bak # NoBackup
         /\ pc'[q] \in Updating \ {"loop"} => backup'[q]
         /\ pc'[q] = "reopen" \/ (pc'[q] = "update" /\ current'[q] \in Legacy) => files'.ran # {}
  BY DEF PrepInv
<1> QED
  BY <1>1, <1>2 DEF PrepInv

\* The steps that leave the version rows, the copy and the legacy patches alone.
LEMMA PrepQuiet ==
    ASSUME StartInv, StartAssumption, PrepInv, origin # 0, NEW p \in Procs,
           UNCHANGED <<origin, tx>>, disk'.tables = disk.tables, disk'.versions = disk.versions,
           files'.ran = files.ran, files'.bak = files.bak, lock' \in {lock, NoProc},
           \A q \in Procs : q # p => pc'[q] = pc[q] /\ current'[q] = current[q] /\ backup'[q] = backup[q],
           backup'[p] => backup[p],
           pc'[p] \in Updating \ {"loop"} => backup'[p] /\ pc'[p] \in {pc[p], "update"},
           pc'[p] = "update" => pc[p] = "reopen" /\ current'[p] = current[p]
    PROVE  PrepInv'
<1>1. Prepared(disk.versions)' /\ (lock' # NoProc => Prepared(tx.versions)')
  BY DEF PrepInv, Prepared
<1>2. backup'[p] => files'.bak # NoBackup
  BY DEF PrepInv
<1>3. pc'[p] = "reopen" \/ pc'[p] = "update" => files'.ran # {}
  BY DEF PrepInv, Updating
<1> QED
  BY <1>1, <1>2, <1>3, PrepFrame

\* CreateDb, the patches and the end of a process are such steps.
LEMMA PrepRest ==
    ASSUME StartInv, StartAssumption, PrepInv, origin # 0, NEW p \in Procs,
           \/ Begin(p) \/ CheckCreated(p) \/ CreateTables(p) \/ CreateMark(p) \/ CreateProfile(p)
           \/ Reopen(p) \/ ReadPatches(p) \/ RunPatch(p) \/ MarkPatch(p)
           \/ Fail(p) \/ Kill(p) \/ Restart(p)
    PROVE  PrepInv'
<1> USE Types
<1>1. disk.tables = "full"
  BY DEF PrepInv
<1>2. /\ UNCHANGED <<origin, tx>> /\ disk'.tables = disk.tables /\ disk'.versions = disk.versions
      /\ files'.ran = files.ran /\ files'.bak = files.bak /\ lock' \in {lock, NoProc}
  BY <1>1 DEF Begin, CheckCreated, CreateTables, CreateMark, CreateProfile, Reopen, ReadPatches,
              RunPatch, MarkPatch, Fail, Kill, Restart, Release, Store, Database, StartInv, TypeOK
<1>3. /\ \A q \in Procs : q # p => pc'[q] = pc[q]
      /\ pc'[p] \in Updating => pc[p] = "reopen" /\ pc'[p] = "update"
  BY DEF Begin, CheckCreated, CreateTables, CreateMark, CreateProfile, Reopen, ReadPatches,
         RunPatch, MarkPatch, Fail, Kill, Restart, Goto, Updating
<1>4. /\ \A q \in Procs : q # p => current'[q] = current[q] /\ backup'[q] = backup[q]
      /\ backup'[p] => backup[p]
      /\ Reopen(p) => current' = current /\ backup' = backup /\ pc[p] = "reopen"
  BY DEF Begin, CheckCreated, CreateTables, CreateMark, CreateProfile, Reopen, ReadPatches,
         RunPatch, MarkPatch, Fail, Kill, Restart, Forget, Local
<1>5. pc'[p] \in Updating => backup'[p] /\ current'[p] = current[p]
  <2>1. CASE Reopen(p)
    BY <1>4, <2>1 DEF PrepInv, Updating
  <2>2. CASE ~Reopen(p)
    BY <2>2 DEF Begin, CheckCreated, CreateTables, CreateMark, CreateProfile, ReadPatches,
         RunPatch, MarkPatch, Fail, Kill, Restart, Goto, Updating
  <2> QED
    BY <2>1, <2>2
<1> QED
  BY <1>2, <1>3, <1>4, <1>5, PrepQuiet DEF Updating

\* Ensure begins on what is committed; the row it may repair is below the top.
LEMMA PrepBegin ==
    ASSUME StartInv, StartAssumption, PrepInv, origin # 0, NEW p \in Procs, EnsureBegin(p)
    PROVE  PrepInv'
<1> USE Types
<1> DEFINE V == Repaired(disk.versions)
<1>1. /\ UNCHANGED <<origin, disk, files>> /\ tx'.versions = V
      /\ pc' = [pc EXCEPT ![p] = pc'[p]] /\ pc'[p] \in {"loop", "failed"}
      /\ backup' = [backup EXCEPT ![p] = FALSE]
      /\ \A q \in Procs : q # p => current'[q] = current[q]
  BY DEF EnsureBegin, Goto, Database
<1>2. PICK h \in 1 .. Latest + 1 : At(disk, h)
  BY DEF PrepInv, StartInv, FileInv
<1>3. Top(V, h) /\ V \subseteq Int /\ h \in Int /\ h \in disk.versions
  BY <1>2, RepairedAt DEF At, Top, Database
<1> HIDE DEF V
<1>4. origin \in Int /\ Legacy \subseteq Int
  BY DEF StartInv, TypeOK, StartAssumption
<1>5. Prepared(V)
  <2>1. Prepared(disk.versions)
    BY DEF PrepInv
  <2>2. ASSUME NEW v \in V, v > origin PROVE files.bak # NoBackup
    <3>1. h > origin
      BY <1>3, <1>4, <2>2 DEF Top
    <3> QED
      BY <1>3, <2>1, <3>1 DEF Prepared
  <2>3. ASSUME NEW l \in Legacy, NEW v \in V, origin <= l, l < v PROVE files.ran # {}
    <3>1. l < h
      BY <1>3, <1>4, <2>3 DEF Top
    <3> QED
      BY <1>3, <2>1, <2>3, <3>1 DEF Prepared
  <2> QED
    BY <2>2, <2>3 DEF Prepared
<1>6. Prepared(disk.versions)' /\ Prepared(tx.versions)'
  BY <1>1, <1>5 DEF Prepared, PrepInv
<1> QED
  BY <1>1, <1>6, PrepFrame DEF Updating

\* The copy is of a file at least where it was at first.
LEMMA PrepBackup ==
    ASSUME StartInv, StartAssumption, PrepInv, origin # 0, NEW p \in Procs, Backup(p)
    PROVE  PrepInv'
<1> USE Types
<1>1. PICK h \in 1 .. Latest + 1 : At(disk, h)
  BY DEF PrepInv, StartInv, FileInv
<1>2. GetSchema(disk.versions) = h
  BY <1>1, SchemaIsTop DEF At, Top, Database
<1>3. /\ UNCHANGED <<origin, disk, tx, lock, pc, current>> /\ pc[p] = "loop"
      /\ files'.bak = h /\ files'.ran = files.ran
      /\ backup' = [backup EXCEPT ![p] = TRUE]
  BY <1>2 DEF Backup, StartInv, TypeOK
<1>4. origin \in Int /\ h # NoBackup /\ h >= origin /\ h \in disk.versions /\ h >= h
  <2>1. PICK v \in disk.versions : v >= origin
    BY DEF PrepInv
  <2>2. origin \in Int /\ v \in Int /\ v <= h /\ h \in disk.versions
    BY <1>1 DEF At, Top, Database, StartInv, TypeOK, StartAssumption
  <2> QED
    BY <2>1, <2>2 DEF NoBackup
<1>5. Prepared(disk.versions)' /\ (lock' # NoProc => Prepared(tx.versions)')
  BY <1>3, <1>4 DEF Prepared, PrepInv
<1> QED
  BY <1>3, <1>4, <1>5, PrepFrame DEF Updating

\* The hook, and the commit at the end, make the prepared transaction the file.
LEMMA PrepCommit ==
    ASSUME StartInv, StartAssumption, PrepInv, origin # 0, NEW p \in Procs, Hook(p) \/ Commit(p)
    PROVE  PrepInv'
<1> USE Types
<1>1. /\ lock = p /\ Holds(p) /\ disk.tables = "full" /\ tx.tables = "full"
      /\ disk.versions \subseteq tx.versions /\ pc[p] = "loop"
  BY DEF Hook, Commit, StartInv, TxInv, Suspended, Holds, CreateInv, Updating
<1>2. /\ UNCHANGED <<origin, tx, files, backup>>
      /\ (disk' = disk /\ lock' = lock) \/ (disk' = tx /\ lock' = NoProc)
      /\ pc' = [pc EXCEPT ![p] = pc'[p]] /\ pc'[p] \in {"legacy", "update", "patch", "gone"}
      /\ \A q \in Procs : q # p => current'[q] = current[q]
  BY DEF Hook, Commit, Goto, Local
<1>3. pc'[p] \in {"legacy", "update"} => /\ backup[p] /\ current'[p] = current[p]
                                         /\ pc'[p] = "update" => current[p] \notin Legacy
  BY DEF Hook, Commit, Goto, Local
<1>4. Prepared(disk.versions) /\ Prepared(tx.versions)
  BY <1>1 DEF PrepInv
<1>5. Prepared(disk.versions)' /\ (lock' # NoProc => Prepared(tx.versions)')
  BY <1>2, <1>4 DEF Prepared
<1>6. backup[p] => files.bak # NoBackup
  BY DEF PrepInv
<1> QED
  BY <1>1, <1>2, <1>3, <1>5, <1>6, PrepFrame DEF Updating

\* A legacy patch that does not end the process has run.
LEMMA PrepLegacy ==
    ASSUME StartInv, StartAssumption, PrepInv, origin # 0, NEW p \in Procs, LegacyPatch(p)
    PROVE  PrepInv'
<1> USE Types
<1>1. /\ UNCHANGED <<origin, disk, tx, current, backup>> /\ lock' \in {lock, NoProc}
      /\ pc[p] = "legacy" /\ pc' = [pc EXCEPT ![p] = pc'[p]] /\ pc'[p] \in {"reopen", "failed"}
      /\ files'.bak = files.bak /\ (files.ran # {} => files'.ran # {})
      /\ pc'[p] = "reopen" => files'.ran # {}
  BY DEF LegacyPatch, Goto, Local, StartInv, TypeOK
<1>2. Prepared(disk.versions)' /\ (lock' # NoProc => Prepared(tx.versions)')
  BY <1>1 DEF Prepared, PrepInv
<1>3. backup[p] /\ files.bak # NoBackup
  BY <1>1 DEF PrepInv, Updating
<1> QED
  BY <1>1, <1>2, <1>3, PrepFrame DEF Updating

\* An update is recorded by a process that has made the copy; if its version has
\* a legacy patch one has run, and if not the only legacy versions it is past are
\* those the version before it was past.
LEMMA PrepUpdate ==
    ASSUME StartInv, StartAssumption, PrepInv, origin # 0, NEW p \in Procs, Update(p)
    PROVE  PrepInv'
<1> USE Types
<1> DEFINE base == IF lock = p THEN tx ELSE disk
           next == current[p] + 1
<1>1. /\ pc[p] = "update" /\ lock \in {p, NoProc} /\ current[p] \in Nat
      /\ UNCHANGED <<origin, disk, files, backup>>
      /\ pc' = [pc EXCEPT ![p] = pc'[p]] /\ pc'[p] \in {"loop", "failed"}
      /\ \A q \in Procs : q # p => current'[q] = current[q]
      /\ pc'[p] = "failed" => lock' = NoProc
      /\ pc'[p] = "loop" => tx' = InsertSchemaVersion([base EXCEPT !.applied[next] = @ + 1], next)
  BY DEF Update, Goto
<1>2. backup[p] /\ files.bak # NoBackup /\ (current[p] \in Legacy => files.ran # {})
  BY <1>1 DEF PrepInv, Updating
<1>3. current[p] \in base.versions /\ Prepared(base.versions) /\ base \in Database
  <2>1. CASE lock = p
    BY <2>1 DEF StartInv, TxInv, Holds, At, Top, PrepInv
  <2>2. CASE lock # p
    BY <1>1, <2>2 DEF StartInv, TxInv, Suspended, Updating, PrepInv
  <2> QED
    BY <2>1, <2>2
<1> HIDE DEF base
<1>4. ASSUME pc'[p] = "loop" PROVE Prepared(tx.versions)'
  <2>1. tx'.versions = base.versions \cup {next}
    BY <1>1, <1>3, <1>4 DEF InsertSchemaVersion, Database
  <2>2. ASSUME NEW l \in Legacy, NEW v \in tx'.versions, origin <= l, l < v PROVE files.ran # {}
    <3>1. CASE v \in base.versions
      BY <1>3, <2>2, <3>1 DEF Prepared
    <3>2. CASE v = next /\ l = current[p]
      BY <1>2, <3>2
    <3>3. CASE v = next /\ l # current[p]
      <4>1. l < current[p]
        BY <1>1, <2>2, <3>3 DEF StartAssumption
      <4> QED
        BY <1>3, <2>2, <4>1 DEF Prepared
    <3> QED
      BY <2>1, <3>1, <3>2, <3>3
  <2> QED
    BY <1>1, <1>2, <2>2 DEF Prepared
<1>5. Prepared(disk.versions)' /\ (lock' # NoProc => Prepared(tx.versions)')
  <2>1. Prepared(disk.versions)'
    BY <1>1 DEF Prepared, PrepInv
  <2> QED
    BY <1>1, <1>4, <2>1
<1> QED
  BY <1>1, <1>2, <1>5, PrepFrame DEF Updating

\* Once an update of a file that was there is committed there is a copy of the
\* file, of a version between the first and the committed one, and a legacy patch
\* has run if a legacy version was passed: neither a kill between the commit in
\* the hook and the end, nor another process going on from it, gets around that.
THEOREM UpgradesPrepared == Spec => []UpgradePrepared
<1>1. Init => PrepInv
  <2> SUFFICES ASSUME Init, origin # 0 PROVE PrepInv
    BY DEF PrepInv
  <2>1. PICK V \in RecordedAt(origin) :
           /\ disk.versions = V /\ disk.tables = "full"
    BY DEF Init
  <2>2. origin \in 0 .. Latest + 1 /\ Latest \in Nat /\ Legacy \subseteq Int
    BY StartAssumption DEF StartAssumption, Init
  <2>3. origin \in V /\ \A v \in V : v \in Int /\ v <= origin
    BY <2>1, <2>2 DEF RecordedAt
  <2>4. Prepared(V)
    BY <2>2, <2>3 DEF Prepared
  <2>5. files.bak = NoBackup /\ lock = NoProc /\ \A p \in Procs : pc[p] = "off" /\ ~backup[p]
    BY DEF Init
  <2> QED
    BY <2>1, <2>2, <2>3, <2>4, <2>5 DEF PrepInv, Updating
<1>2. StartInv /\ PrepInv /\ [Next]_vars => PrepInv'
  <2> SUFFICES ASSUME StartInv, PrepInv, [Next]_vars PROVE PrepInv'
    OBVIOUS
  <2> USE StartAssumption DEF StartAssumption
  <2>0. CASE origin = 0
    BY <2>0, OriginKept DEF PrepInv
  <2>1. CASE UNCHANGED vars
    BY <2>1 DEF vars, PrepInv, Prepared
  <2>2. CASE Next /\ origin # 0
    <3> PICK p \in Procs : Step(p) \/ Fail(p) \/ Kill(p)
      BY <2>2 DEF Next
    <3>1. CASE CreateVersion(p)
      BY <2>2, <3>1 DEF CreateVersion, StartInv, CreateInv, PrepInv
    <3>2. CASE EnsureBegin(p) \/ Backup(p) \/ Hook(p) \/ Commit(p) \/ LegacyPatch(p) \/ Update(p)
      BY <2>2, <3>2, PrepBegin, PrepBackup, PrepCommit, PrepLegacy, PrepUpdate
    <3>3. CASE \/ Begin(p) \/ CheckCreated(p) \/ CreateTables(p) \/ CreateMark(p) \/ CreateProfile(p)
               \/ Reopen(p) \/ ReadPatches(p) \/ RunPatch(p) \/ MarkPatch(p)
               \/ Fail(p) \/ Kill(p) \/ Restart(p)
      BY <2>2, <3>3, PrepRest
    <3> QED
      BY <3>1, <3>2, <3>3 DEF Step
  <2> QED
    BY <2>0, <2>1, <2>2
<1>3. StartInv /\ PrepInv => UpgradePrepared
  <2> SUFFICES ASSUME StartInv, PrepInv, origin # 0 PROVE UpgradePrepared
    BY DEF UpgradePrepared, BackupBeforeUpdate, LegacyPatchRan
  <2>1. PICK h \in 1 .. Latest + 1 : At(disk, h)
    BY DEF PrepInv, StartInv, FileInv
  <2>2. disk.versions \in SUBSET Int /\ origin \in Int /\ files.bak \in Int
    BY StartAssumption DEF StartInv, TypeOK, Database, StartAssumption, NoBackup
  <2>3. GetSchema(disk.versions) = h /\ h \in disk.versions /\ \A v \in disk.versions : v <= h
    BY <2>1, <2>2, SchemaIsTop DEF At, Top
  <2>4. BackupBeforeUpdate
    <3> SUFFICES ASSUME h > origin PROVE files.bak \in origin .. h
      BY <2>3 DEF BackupBeforeUpdate
    <3>1. files.bak # NoBackup
      BY <2>3 DEF PrepInv, Prepared
    <3>2. PICK v \in disk.versions : v >= files.bak
      BY <3>1 DEF PrepInv
    <3>3. files.bak >= origin /\ v <= h /\ v \in Int
      BY <2>2, <2>3, <3>1 DEF PrepInv
    <3> QED
      BY <2>2, <3>2, <3>3
  <2>5. LegacyPatchRan
    BY <2>3 DEF LegacyPatchRan, PrepInv, Prepared
  <2> QED
    BY <2>4, <2>5 DEF UpgradePrepared
<1> QED
  BY <1>1, <1>2, <1>3, StartInvariant, PTL DEF Spec
=============================================================================
