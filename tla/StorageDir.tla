----------------------------- MODULE StorageDir ------------------------------
(* lxd/storage_dir.go: containers and snapshots are directories, copied with *)
(* rsync; an image is unpacked anew for every container.                     *)
EXTENDS StorageCommands

dirDelete(v) == CallOf("ContainerDelete", v, <<>>)

rsyncOrDelete(source, v) == OrElse(Cmd("rsync", Fs(source), Fs(v)), <<dirDelete(v)>>)

dirContainerCreate(v) == <<Cmd("mkdir", NoObject, Fs(v)), Prepare(v)>>

dirContainerCreateFromImage(v, image) ==
  <<Cmd("mkdir", NoObject, Fs(v)), Prepare(v),
    OrElse(Cmd("unpack", Fs(image), Fs(v)), <<dirDelete(v)>>),
    OrElse(Prepare(v), <<dirDelete(v)>>), Prepare(v)>>

dirContainerDelete(v) == <<Cmd("rmall", Fs(v), NoObject)>>

dirContainerCopy(v, source) == <<rsyncOrDelete(source, v), Prepare(v)>>

(* Mutant: the snapshots stay under the old name.                            *)
RenameContainerOnly(v, new) == <<Cmd("rename", Fs(v), Fs(new))>>

dirContainerRename(v, new) ==
  <<Cmd("rename", Fs(v), Fs(new)),
    Cmd("renamedir", Fs(<<"snapshots", v[2]>>), Fs(<<"snapshots", new[2]>>))>>

dirContainerRestore(v, snap) == <<Cmd("rsync", Fs(snap), Fs(v)), Prepare(v)>>

(* Of a running container: rsync runs a second time, with it frozen.         *)
dirContainerSnapshotCreate(v, source) == <<rsyncOrDelete(source, v), rsyncOrDelete(source, v)>>

dirContainerSnapshotDelete(v) == <<dirDelete(v), Prepare(v)>>

dirContainerSnapshotRename(v, new) == <<Prepare(new), Cmd("rename", Fs(v), Fs(new)), Prepare(v)>>

dirPlan(op) ==
  CASE op.fn = "ContainerCreate" -> dirContainerCreate(op.vol)
    [] op.fn = "ContainerCreateFromImage" -> dirContainerCreateFromImage(op.vol, op.arg)
    [] op.fn = "ContainerDelete" -> dirContainerDelete(op.vol)
    [] op.fn = "ContainerCopy" -> dirContainerCopy(op.vol, op.arg)
    [] op.fn = "ContainerRename" -> dirContainerRename(op.vol, op.arg)
    [] op.fn = "ContainerRestore" -> dirContainerRestore(op.vol, op.arg)
    [] op.fn = "ContainerSnapshotCreate" -> dirContainerSnapshotCreate(op.vol, op.arg)
    [] op.fn = "ContainerSnapshotDelete" -> dirContainerSnapshotDelete(op.vol)
    [] op.fn = "ContainerSnapshotRename" -> dirContainerSnapshotRename(op.vol, op.arg)
    [] OTHER -> <<>>
=============================================================================
