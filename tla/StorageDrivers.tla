--------------------------- MODULE StorageDrivers ----------------------------
(* The storage interface of lxd/storage.go over one of its backends: calls   *)
(* made by the requests of the API, the backend's commands interleaved one   *)
(* by one, commands that fail and a daemon that is killed in between. db is  *)
(* what the database knows of: a container's row is made before its volume,  *)
(* and removed after its volume was, or when making the volume failed.       *)
EXTENDS StorageZfs, StorageBtrfs, StorageLvm, StorageDir, FiniteSets

CONSTANTS Threads, Drivers,
          MaxIds,         \* uuids in use at one time
          Scenarios,      \* bounds, see Scenario
          MaxNested,      \* subvolumes on the storage when a container makes one
          Written         \* what a container writes to its root file system

VARIABLES driver, disk, links, db, order, started, threads,
          harm,           \* commands that failed and crashes so far
          torn,           \* names a failed call has left in use on the storage
          counted,        \* calls that count towards the scenario's
          scene           \* the scenario, which never changes

vars == <<driver, disk, links, db, order, started, torn, harm, counted, threads, scene>>

(* How many threads call, how many names snapshots have, how many commands   *)
(* fail or crashes happen, and how many calls are made: after the first      *)
(* failure if there is one thread, else in all.                              *)
Scenario == [threads : Nat, snaps : Nat, harm : Nat, calls : Nat]

ASSUME StorageAssumption == Scenarios \subseteq Scenario

(* The scenario with its threads and names picked.                           *)
Scenes ==
  UNION {{[threads |-> T, snaps |-> S, harm |-> x.harm, calls |-> x.calls] :
             T \in kSubset(x.threads, Threads), S \in kSubset(x.snaps, Snaps)} : x \in Scenarios}

Ids == 1..MaxIds
ContainerVols == {Ct(c) : c \in Containers}
SnapshotVols == {Sn(c, s) : c \in Containers, s \in Snaps}
Volumes == ContainerVols \cup SnapshotVols
ImageVols == {Im(f) : f \in Images}

SnapsOf(c) == {v \in SnapshotVols : v[2] = c}

FreeIds ==
  Ids \ ({p[2] : p \in {q \in DOMAIN disk : q[1] = "deleted"}}
         \cup UNION {{x.at[2] : x \in {y \in Range(disk[p].snaps) : y.at[1] = "copy"}}
                     : p \in DOMAIN disk})
-----------------------------------------------------------------------------
(* What the rest of the daemon sees of a volume: its data, and that of the   *)
(* subvolume a container may have made.                                      *)
Absent == <<"absent", "none">>

Place(v) == IF driver = "zfs" THEN zfsObject(v) ELSE Fs(v)

Nested(p) == Append(p, "sub")

SeenAt(o, dsk) ==
  IF Exists(dsk, o)
  THEN <<DataOf(dsk, o), IF Nested(o[1]) \in DOMAIN dsk THEN dsk[Nested(o[1])].data ELSE "none">>
  ELSE Absent

SeenOn(v, dsk) == SeenAt(Place(v), dsk)

Seen(v) == SeenOn(v, disk)

View == [v \in Volumes |-> Seen(v)]
-----------------------------------------------------------------------------
Idle == [phase |-> "idle", op |-> Fn("none", <<>>, <<>>), todo |-> <<>>,
         src |-> {}, want |-> <<>>, was |-> Absent, failed |-> FALSE]

(* The volumes a call is about, and what they must be when it succeeds.      *)
Want(op) ==
  LET v == op.vol
      only(x) == [y \in {v} |-> x]
  IN CASE op.fn = "ContainerCreate" -> only({<<"empty", "none">>})
       [] op.fn = "ContainerCreateFromImage" -> only({<<op.arg[2], "none">>})
       [] op.fn \in {"ContainerCopy", "ContainerRestore", "ContainerSnapshotCreate"} -> only({Seen(op.arg)})
       [] op.fn = "ContainerDelete" -> [x \in {v} \cup SnapsOf(v[2]) |-> {Absent}]
       [] op.fn = "ContainerSnapshotDelete" -> only({Absent})
       [] op.fn \in {"ContainerSnapshotStart", "ContainerSnapshotStop"} ->
            only({SeenAt(IF Exists(disk, Fs(Ro(v))) THEN Fs(Ro(v)) ELSE Place(v), disk)})
       [] op.fn = "ContainerRename" ->
            [x \in {v, op.arg} \cup SnapsOf(v[2]) \cup SnapsOf(op.arg[2]) |->
               {IF x[2] = v[2] THEN Absent
                ELSE IF x = op.arg THEN Seen(v) ELSE Seen(Sn(v[2], x[3]))}]
       [] op.fn = "ContainerSnapshotRename" ->
            [x \in {v, op.arg} |-> {IF x = v THEN Absent ELSE Seen(v)}]
       [] OTHER -> <<>>

Sources(op) ==
  IF op.fn \in {"ContainerCopy", "ContainerRestore", "ContainerSnapshotCreate"} THEN {op.arg} ELSE {}

Unharmed == harm = 0
Sequential == Cardinality(scene.threads) = 1

(* The calls the API makes, by what the database holds.                      *)
Known(vs) == vs \cap db

Requests ==
  LET cs == Known(ContainerVols)
      ss == Known(SnapshotVols)
      named == {Sn(c, s) : c \in Containers, s \in scene.snaps}
      new == ContainerVols \ db
      call(fn, V, A) == {Fn(fn, v, a) : v \in V, a \in A}
      none == {<<>>}
  IN UNION {
       call("ContainerCreate", new, none),
       call("ContainerCreateFromImage", new, Known(ImageVols)),
       call("ContainerCopy", new, cs \cup ss),
       call("ContainerDelete", {v \in cs : SnapsOf(v[2]) \cap db = {}}, none),
       call("ContainerRename", cs, new),
       {Fn("ContainerRestore", Ct(v[2]), v) :
          v \in {x \in ss : driver = "zfs" => zfsContainerCanRestore(x, order)}},
       {Fn("ContainerSnapshotCreate", v, Ct(v[2])) : v \in {x \in named \ db : Ct(x[2]) \in db}},
       call("ContainerSnapshotDelete", ss, none),
       {Fn("ContainerSnapshotRename", v, Sn(v[2], s)) : v \in ss, s \in scene.snaps},
       call("ContainerSnapshotStart", ss \ started, none),
       call("ContainerSnapshotStop", ss \cap started, none),
       call("ImageCreate", ImageVols \ db, none),
       call("ImageDelete", Known(ImageVols), none)}

Creates == {"ContainerCreate", "ContainerCreateFromImage", "ContainerCopy", "ContainerSnapshotCreate"}

(* Two calls about one volume, or one image, do not overlap; nor is a        *)
(* container snapshotted while it is being made from a copy, which deletes   *)
(* it with its snapshots when it fails.                                      *)
Owns(t) ==
  LET op == threads[t].op
  IN DOMAIN threads[t].want \cup {op.vol}
     \cup (IF op.fn = "ContainerCopy" THEN SnapsOf(op.vol[2]) ELSE {})

(* An image is not made or deleted while a container is made from it; zfs,   *)
(* which clones the snapshot that completes an image, needs no such care.    *)
Conflict(o1, o2) ==
  /\ driver # "zfs"
  /\ o1.fn = "ContainerCreateFromImage" /\ o2.vol = o1.arg

Startable(op) ==
  /\ \A t \in Threads : ~Conflict(op, threads[t].op) /\ ~Conflict(threads[t].op, op)
  /\ op.fn = "ContainerSnapshotRename" => op.arg \notin db
  /\ op.fn = "ContainerSnapshotStop" \/ DOMAIN Want(op) \cap started = {}
  /\ \A t \in Threads : Owns(t) \cap (DOMAIN Want(op) \cup {op.vol}) = {}
  /\ (DOMAIN Want(op) \cup Sources(op)) \cap torn = {}
  /\ FreeIds # {}

(* What the callers do when a volume could not be made: containerCreateAs... *)
(* removes the row, after a copy by way of the container's Delete.           *)
Unmade(op) ==
  When(op.fn = "ContainerCopy", <<CallOf("Delete", op.vol, <<>>)>>)
  \o When(op.fn \in Creates, <<Cmd("forget", Fs(op.vol), NoObject)>>)

Begin(t) ==
  /\ threads[t].phase = "idle"
  /\ t \in scene.threads /\ counted < scene.calls
  /\ counted' = IF Unharmed /\ Sequential THEN 0 ELSE counted + 1
  /\ \E op \in Requests :
       /\ Startable(op)
       /\ threads' = [threads EXCEPT ![t] =
            [phase |-> "busy", op |-> op, todo |-> <<OrElse(CallOf(op.fn, op.vol, op.arg), Unmade(op))>>,
             src |-> Sources(op), want |-> Want(op),
             was |-> IF op.vol \in Volumes THEN Seen(op.vol) ELSE Absent, failed |-> FALSE]]
       /\ db' = IF op.fn \in Creates THEN db \cup {op.vol} ELSE db
       /\ order' = IF op.fn = "ContainerSnapshotCreate" THEN Append(order, op.vol) ELSE order
  /\ UNCHANGED <<driver, scene, disk, links, started, torn, harm>>
-----------------------------------------------------------------------------
(* The container's Delete calls the driver if it finds the container's path. *)
ContainerPath(v) == IF driver \in {"zfs", "lvm"} THEN v \in links ELSE v \in DOMAIN disk

PlanOf(op) ==
  IF op.fn = "Delete"
  THEN When(ContainerPath(op.vol), <<CallOf("ContainerDelete", op.vol, <<>>)>>)
  ELSE CASE driver = "zfs" -> zfsPlan(op, disk, links, Min(FreeIds))
         [] driver = "btrfs" -> btrfsPlan(op, disk, links, Min(FreeIds))
         [] driver = "lvm" -> lvmPlan(op, disk, links, {v[3] : v \in SnapsOf(op.vol[2]) \cap db})
         [] driver = "dir" -> dirPlan(op)

(* What is left to run after the head worked, and after it failed.           *)
After(todo) ==
  IF Head(todo).do = "call"
  THEN Under(PlanOf(Head(todo).on), Head(todo).undo) \o Tail(todo)
  ELSE Tail(todo)

Phase(todo, failed) == IF todo # <<>> THEN "busy" ELSE IF failed THEN "error" ELSE "ok"

(* Sources that change are what a copy in progress may show.                 *)
Follow(ts, dsk) ==
  [t \in Threads |->
     [ts[t] EXCEPT !.want = [v \in DOMAIN @ |->
        @[v] \cup (IF threads[t].phase = "busy" THEN {SeenOn(x, dsk) : x \in ts[t].src}
                   ELSE {})]]]

Ran(t, todo, failed) ==
  threads' = Follow([threads EXCEPT ![t].todo = todo, ![t].failed = failed,
                                    ![t].phase = Phase(todo, failed)], disk')

(* What some drivers leave of a volume they failed to make.                  *)
LeavesTraces(op) ==
  /\ driver \in {"zfs", "lvm"} \/ op.fn \in {"ContainerCreate", "ContainerCreateFromImage"}
  /\ op.vol \in links \/ Exists(disk, Place(op.vol))

(* The head of a plan runs.                                                  *)
Run(t) ==
  /\ threads[t].phase = "busy"
  /\ LET cmd == Head(threads[t].todo)
         forget == IF cmd.do = "forget" THEN {cmd.on[1]} ELSE {}
     IN /\ ~Refused(cmd, disk, links)
        /\ disk' = DiskAfter(cmd, disk)
        /\ links' = LinksAfter(cmd, links)
        /\ db' = db \ forget
        /\ order' = SelectSeq(order, LAMBDA v : v \notin forget)
        /\ torn' = IF forget # {} /\ LeavesTraces(threads[t].op) THEN torn \cup forget ELSE torn
        /\ Ran(t, After(threads[t].todo), threads[t].failed)
  /\ UNCHANGED <<driver, scene, started, harm, counted>>

Failed(t, cmd) ==
  IF cmd.must THEN Ran(t, cmd.undo, TRUE) ELSE Ran(t, Tail(threads[t].todo), threads[t].failed)

Refuse(t) ==
  /\ threads[t].phase = "busy"
  /\ LET cmd == Head(threads[t].todo)
     IN Refused(cmd, disk, links) /\ UNCHANGED <<disk, links>> /\ Failed(t, cmd)
  /\ UNCHANGED <<driver, scene, db, order, started, torn, harm, counted>>

Fault(t) ==
  /\ threads[t].phase = "busy"
  /\ harm < scene.harm
  /\ harm' = harm + 1
  /\ LET cmd == Head(threads[t].todo)
     IN /\ disk' = DiskBroken(cmd, disk)
        /\ UNCHANGED links
        /\ Failed(t, cmd)
  /\ UNCHANGED <<driver, scene, db, order, started, torn, counted>>

(* The caller records what was done.                                         *)
Recorded(op) ==
  CASE op.fn \in {"ContainerDelete", "ContainerSnapshotDelete", "ImageDelete"} -> db \ {op.vol}
    [] op.fn = "ImageCreate" -> db \cup {op.vol}
    [] op.fn = "ContainerSnapshotRename" -> (db \ {op.vol}) \cup {op.arg}
    [] op.fn = "ContainerRename" -> {Moved(Moved(v, op.vol, op.arg),
                                           <<"snapshots", op.vol[2]>>, <<"snapshots", op.arg[2]>>) : v \in db}
    [] OTHER -> db

Reordered(op) ==
  CASE op.fn = "ContainerSnapshotDelete" -> SelectSeq(order, LAMBDA v : v # op.vol)
    [] op.fn = "ContainerRename" ->
         [i \in DOMAIN order |-> Moved(order[i], <<"snapshots", op.vol[2]>>, <<"snapshots", op.arg[2]>>)]
    [] op.fn = "ContainerSnapshotRename" ->
         [i \in DOMAIN order |-> IF order[i] = op.vol THEN op.arg ELSE order[i]]
    [] OTHER -> order

TornBy(t) ==
  IF threads[t].op.fn \in {"ContainerRename", "ContainerSnapshotRename"}
  THEN DOMAIN threads[t].want ELSE {}

Return(t) ==
  /\ threads[t].phase \in {"ok", "error"}
  /\ LET op == threads[t].op
         ok == threads[t].phase = "ok"
     IN /\ db' = IF ok THEN Recorded(op) ELSE db
        /\ order' = IF ok THEN Reordered(op) ELSE order
        /\ torn' = IF ok THEN torn ELSE torn \cup TornBy(t)
        /\ started' = CASE ok /\ op.fn = "ContainerSnapshotStart" -> started \cup {op.vol}
                        [] ok /\ op.fn = "ContainerSnapshotStop" -> started \ {op.vol}
                        [] OTHER -> started
  /\ threads' = [threads EXCEPT ![t] = Idle]
  /\ UNCHANGED <<driver, scene, disk, links, harm, counted>>
-----------------------------------------------------------------------------
(* The container changes its files, or makes a subvolume (on btrfs); a bound *)
(* of the model: it does so before anything fails.                           *)
Write(v, p) ==
  /\ Unharmed
  /\ v \in db /\ Seen(v) # Absent
  /\ \A t \in Threads : v \notin Owns(t)
  /\ disk' = IF p \in DOMAIN disk THEN [disk EXCEPT ![p].data = Written]
              ELSE With(disk, p, Volume(Written, NoObject))
  /\ threads' = Follow(threads, disk')
  /\ UNCHANGED <<driver, scene, links, db, order, started, torn, harm, counted>>

MakesSubvolume ==
  driver = "btrfs" /\ Cardinality({p \in DOMAIN disk : Last(p) = "sub"}) < MaxNested

(* The daemon is killed: what it was doing stays half done.                  *)
Crash ==
  /\ harm < scene.harm
  /\ \E t \in Threads : threads[t].phase = "busy"
  /\ harm' = harm + 1
  /\ torn' = torn \cup UNION {TornBy(t) : t \in Threads}
  /\ threads' = [t \in Threads |-> Idle]
  /\ UNCHANGED <<driver, scene, disk, links, db, order, started, counted>>

Init ==
  /\ driver \in Drivers /\ scene \in Scenes
  /\ disk = <<>> /\ links = {} /\ order = <<>> /\ started = {}
  /\ db = {}
  /\ torn = {} /\ harm = 0 /\ counted = 0
  /\ threads = [t \in Threads |-> Idle]

Next ==
  \/ \E t \in Threads : Begin(t) \/ Run(t) \/ Refuse(t) \/ Fault(t) \/ Return(t)
  \/ \E v \in ContainerVols : Write(v, v)
  \/ \E v \in ContainerVols : MakesSubvolume /\ Write(v, Nested(v))
  \/ Crash

Spec == Init /\ [][Next]_vars
-----------------------------------------------------------------------------
(* The order of the snapshots is that of the rows the database has, and the  *)
(* other variables have their types.                                         *)
TypeOK ==
  /\ scene \in Scenes
  /\ driver \in {"zfs", "btrfs", "lvm", "dir"}
  /\ \A p \in DOMAIN disk : DOMAIN disk[p] = {"data", "origin", "snaps"}
  /\ links \subseteq Volumes \cup ImageVols
  /\ db \subseteq Volumes \cup ImageVols
  /\ Range(order) = db \cap SnapshotVols
  /\ started \subseteq SnapshotVols
  /\ \A t \in Threads : threads[t].phase \in {"idle", "busy", "ok", "error"}

Quiet == \A t \in Threads : threads[t].phase = "idle"

(* A name the database does not hold, and no call is about, is free on the   *)
(* storage too, so that creating it again can work: drivers clean up after a *)
(* failure, but for a failed rename and what LeavesTraces exempts.           *)
NamesReusable ==
  \A v \in Volumes \ (db \cup torn) :
    (\A t \in Threads : v \notin Owns(t)) => v \notin links /\ ~Exists(disk, Place(v))

(* What a container, a snapshot or an image needs on the storage.            *)
Needed(p) ==
  CASE IsDeleted(p) -> \E q \in DOMAIN disk : disk[q].origin[1] = p
    [] p[1] = "back" -> FALSE
    [] OTHER -> \/ \E v \in db : IsPrefix(v, p)
                \/ \E v \in started : IsPrefix(Ro(v), p) \/ p = Rw(v)

(* With every call made in turn and no failure, what the database holds is   *)
(* on the storage and can be reached through its path.                       *)
Reachable ==
  (Quiet /\ Unharmed /\ Sequential) =>
    \A v \in db \cap Volumes :
      /\ Seen(v) # Absent
      /\ driver \in {"zfs", "lvm"} => v \in links

(* Nothing stays on the storage that no container, snapshot or image needs:  *)
(* what was moved out of sight or made for a copy goes with its last clone.  *)
NothingLeftOver ==
  (Quiet /\ Unharmed /\ Sequential) =>
    \A p \in DOMAIN disk :
      /\ Needed(p)
      /\ \A x \in Range(disk[p].snaps) : x.at[1] = "copy" => Clones(disk, At(p, x.at)) # {}

(* The container was copied after its last snapshot.                         *)
CopiedSince(v, snap) ==
  driver = "zfs" /\ Last(disk[v].snaps).at[1] = "copy"

(* One at a time and with every command working, no call fails, but for the  *)
(* restore of a zfs container that was copied after the snapshot.            *)
NoneRefused ==
  (Unharmed /\ Sequential) =>
    \A t \in Threads : threads[t].failed =>
      threads[t].op.fn = "ContainerRestore" /\ CopiedSince(threads[t].op.vol, threads[t].op.arg)

(* A restore that fails leaves the container as it was or as the snapshot.   *)
RestoreSafe ==
  \A t \in Threads :
    (threads[t].phase = "error" /\ threads[t].op.fn = "ContainerRestore" /\ driver \in {"zfs", "btrfs"}) =>
      Seen(threads[t].op.vol) \in {threads[t].was, Seen(threads[t].op.arg)}

Calls == [t \in Threads |-> [phase |-> threads[t].phase, src |-> threads[t].src, want |-> threads[t].want]]

Parts == Images \cup {"empty", "partial", "none", Written}

Promise == INSTANCE Storage WITH vols <- View, calls <- Calls, Data <- Parts \X Parts

(* Every backend keeps the promise of the storage interface.                 *)
KeepsPromise == Promise!Spec

(* The storage holds what the database says, reachable under its name, and   *)
(* nothing else: free names are free and hidden copies go with their last    *)
(* clone.                                                                    *)
StorageInv == TypeOK /\ NamesReusable /\ Reachable /\ NothingLeftOver
=============================================================================
