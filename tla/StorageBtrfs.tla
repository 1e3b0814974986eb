---------------------------- MODULE StorageBtrfs -----------------------------
(* lxd/storage_btrfs.go: containers, snapshots and images are subvolumes,    *)
(* copies are independent, and a container can hold subvolumes of its own,   *)
(* which neither "subvolume snapshot" nor "subvolume delete" follows.        *)
EXTENDS StorageCommands

Back(v) == <<"back", v[2]>>
Ro(v) == <<"snapshots", v[2], <<v[3], "ro">>>>

(* The helpers that run one btrfs command; a failed delete is only logged.   *)
isSubvolume(disk, p) == p \in DOMAIN disk
subvolCreate(p) == Cmd("create", NoObject, Fs(p))
subvolSnapshot(source, dest) == Cmd("copy", Fs(source), Fs(dest))
subvolDelete(p) == Ignoring(Cmd("delete", Fs(p), NoObject))

getSubVolumes(disk, p) == Tree(disk, p) \ {p}

(* A subvolume is deleted after the ones it holds.                           *)
subvolsDelete(p, disk) ==
  SetToSeq({subvolDelete(q) : q \in getSubVolumes(disk, p)})
  \o <<subvolDelete(p)>>

subvolsSnapshot(dest, source, disk) ==
  <<subvolSnapshot(source, dest)>>
  \o SetToSeq({subvolSnapshot(q, Moved(q, source, dest)) : q \in getSubVolumes(disk, source)})

Snapshot(source, dest) == CallOf("subvolsSnapshot", dest, source)
Delete(v) == CallOf("ContainerDelete", v, <<>>)

btrfsContainerCreate(v) == <<subvolCreate(v), Prepare(v)>>

btrfsContainerCreateFromImage(v, image, disk) ==
  When(~isSubvolume(disk, image), <<CallOf("ImageCreate", image, <<>>)>>)
  \o <<Snapshot(image, v), OrElse(Prepare(v), <<Delete(v)>>), Prepare(v)>>

btrfsContainerDelete(v, disk) ==
  When(isSubvolume(disk, v), <<CallOf("subvolsDelete", v, <<>>)>>)
  \o <<Cmd("rmall", Fs(v), NoObject)>>

btrfsContainerCopy(v, source, disk) ==
  IF isSubvolume(disk, source)
  THEN <<Snapshot(source, v), OrElse(Prepare(v), <<Delete(v)>>), Prepare(v)>>
  ELSE btrfsContainerCreate(v)
       \o <<OrElse(Cmd("rsync", Fs(source), Fs(v)), <<Delete(v)>>),
            OrElse(Prepare(v), <<Delete(v)>>), Prepare(v)>>

btrfsContainerRename(v, new, disk) ==
  <<Cmd("rename", Fs(v), Fs(new)),
    Cmd("renamedir", Fs(<<"snapshots", v[2]>>), Fs(<<"snapshots", new[2]>>))>>

(* Mutant: the failed restore is left as it is.                              *)
RestoreWithoutUndo(v, snap, disk) ==
  <<Cmd("rename", Fs(v), Fs(Back(v))), Snapshot(snap, v), Prepare(v),
    CallOf("subvolsDelete", Back(v), <<>>)>>

(* The container is put aside, and put back when the restore fails.          *)
btrfsContainerRestore(v, snap, disk) ==
  LET undo == <<Delete(v), Ignoring(Cmd("rename", Fs(Back(v)), Fs(v)))>>
  IN <<Cmd("rename", Fs(v), Fs(Back(v)))>>
     \o (IF isSubvolume(disk, snap) THEN <<OrElse(Snapshot(snap, v), undo)>>
         ELSE <<OrElse(subvolCreate(v), undo),
                OrElse(Cmd("rsync", Fs(snap), Fs(v)), undo)>>)
     \o <<OrElse(Prepare(v), undo), CallOf("subvolsDelete", Back(v), <<>>)>>

btrfsContainerSnapshotCreate(v, source, disk) ==
  LET undo == <<Delete(v)>>
  IN IF isSubvolume(disk, source) THEN <<OrElse(Snapshot(source, v), undo)>>
     ELSE <<OrElse(Cmd("rsync", Fs(source), Fs(v)), undo)>>

btrfsContainerSnapshotDelete(v) == <<Delete(v), Prepare(v)>>

btrfsContainerSnapshotRename(v, new, disk) ==
  IF isSubvolume(disk, v)
  THEN <<Snapshot(v, new), CallOf("subvolsDelete", v, <<>>), Prepare(v)>>
  ELSE <<Cmd("rename", Fs(v), Fs(new)), Prepare(v)>>

btrfsContainerSnapshotStart(v, disk) ==
  IF isSubvolume(disk, Ro(v)) THEN <<Error>>
  ELSE <<Cmd("rename", Fs(v), Fs(Ro(v))), Snapshot(Ro(v), v)>>

btrfsContainerSnapshotStop(v, disk) ==
  IF ~isSubvolume(disk, Ro(v)) THEN <<Error>>
  ELSE <<CallOf("subvolsDelete", v, <<>>), Cmd("rename", Fs(Ro(v)), Fs(v))>>

btrfsImageCreate(image) ==
  <<subvolCreate(image),
    OrElse(Cmd("unpack", Fs(image), Fs(image)), <<CallOf("subvolsDelete", image, <<>>)>>)>>

btrfsImageDelete(image, disk) ==
  When(isSubvolume(disk, image), <<CallOf("subvolsDelete", image, <<>>)>>)

btrfsPlan(op, disk, links, id) ==
  CASE op.fn = "ContainerCreate" -> btrfsContainerCreate(op.vol)
    [] op.fn = "ContainerCreateFromImage" -> btrfsContainerCreateFromImage(op.vol, op.arg, disk)
    [] op.fn = "ContainerDelete" -> btrfsContainerDelete(op.vol, disk)
    [] op.fn = "ContainerCopy" -> btrfsContainerCopy(op.vol, op.arg, disk)
    [] op.fn = "ContainerRename" -> btrfsContainerRename(op.vol, op.arg, disk)
    [] op.fn = "ContainerRestore" -> btrfsContainerRestore(op.vol, op.arg, disk)
    [] op.fn = "ContainerSnapshotCreate" -> btrfsContainerSnapshotCreate(op.vol, op.arg, disk)
    [] op.fn = "ContainerSnapshotDelete" -> btrfsContainerSnapshotDelete(op.vol)
    [] op.fn = "ContainerSnapshotRename" -> btrfsContainerSnapshotRename(op.vol, op.arg, disk)
    [] op.fn = "ContainerSnapshotStart" -> btrfsContainerSnapshotStart(op.vol, disk)
    [] op.fn = "ContainerSnapshotStop" -> btrfsContainerSnapshotStop(op.vol, disk)
    [] op.fn = "ImageCreate" -> btrfsImageCreate(op.vol)
    [] op.fn = "ImageDelete" -> btrfsImageDelete(op.vol, disk)
    [] op.fn = "subvolsSnapshot" -> subvolsSnapshot(op.vol, op.arg, disk)
    [] op.fn = "subvolsDelete" -> subvolsDelete(op.vol, disk)
=============================================================================
