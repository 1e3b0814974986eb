----------------------------- MODULE StorageLvm ------------------------------
(* lxd/storage_lvm.go: containers, snapshots and images are thin logical     *)
(* volumes, found through a symbolic link next to the mount point; a copy is *)
(* a thin snapshot, which does not depend on its origin.                     *)
EXTENDS StorageCommands, FiniteSetsExt

Rw(v) == <<"rw", v[2], v[3]>>

isLVMContainer(v, links) == v \in links

(* The thin pool is checked, and made when it is not there.                  *)
createThinLV(v) == <<Prepare(v), Cmd("create", NoObject, Fs(v)), Prepare(v)>>

renameLV(v, new) == Cmd("rename", Fs(v), Fs(new))

removeLV(v) == Cmd("delete", Fs(v), NoObject)

createSnapshotLV(v, source) == <<Cmd("copy", Fs(source), Fs(v)), Prepare(v)>>

createSnapshotContainer(v, source) ==
  createSnapshotLV(v, source) \o <<Prepare(v), Cmd("link", NoObject, Fs(v))>>

lvmContainerCreate(v) == createThinLV(v) \o <<Prepare(v), Cmd("link", NoObject, Fs(v))>>

lvmDelete(v) == CallOf("ContainerDelete", v, <<>>)

lvmContainerCreateFromImage(v, image, links) ==
  When(image \notin links, <<CallOf("ImageCreate", image, <<>>)>>)
  \o createSnapshotContainer(v, image)
  \o <<OrElse(Prepare(v), <<lvmDelete(v)>>),              \* xfs uuid, mount
       OrElse(Prepare(v), <<Prepare(v), lvmDelete(v)>>),  \* shiftRootfs
       OrElse(Prepare(v), <<Prepare(v)>>), Prepare(v)>>   \* template, unmount

lvmContainerDelete(v) ==
  <<removeLV(v), Cmd("unlink", Fs(v), NoObject), Prepare(v)>>

lvmContainerCopy(v, source, links) ==
  (IF isLVMContainer(source, links) THEN createSnapshotContainer(v, source)
   ELSE lvmContainerCreate(v)
        \o <<OrElse(Prepare(v), <<lvmDelete(v)>>),
             OrElse(Cmd("rsync", Fs(source), Fs(v)), <<lvmDelete(v)>>), Prepare(v)>>)
  \o <<Prepare(v)>>

(* The snapshots move one by one, after the container's volume.              *)
lvmContainerRename(v, new, snaps) ==
  <<renameLV(v, new)>>
  \o FlattenSeq(SetToSeq({<<renameLV(Sn(v[2], s), Sn(new[2], s)),
                            Cmd("link", NoObject, Fs(Sn(new[2], s))),
                            Cmd("unlink", Fs(Sn(v[2], s)), NoObject), Prepare(new)>> : s \in snaps}))
  \o <<Cmd("link", NoObject, Fs(new)), Cmd("unlink", Fs(v), NoObject), Prepare(new)>>

lvmContainerRestore(v, snap) == <<removeLV(v)>> \o createSnapshotLV(v, snap)

lvmContainerSnapshotDelete(v) == <<lvmDelete(v), Prepare(v)>>

lvmContainerSnapshotRename(v, new) ==
  <<renameLV(v, new), Cmd("unlink", Fs(v), NoObject),
    Cmd("link", NoObject, Fs(new)), Prepare(new)>>

(* When the xfs uuid of the writable copy cannot be changed it is the        *)
(* snapshot itself that is deleted.                                          *)
lvmContainerSnapshotStart(v) ==
  createSnapshotLV(Rw(v), v) \o <<OrElse(Prepare(v), <<lvmDelete(v)>>), Prepare(v)>>

lvmContainerSnapshotStop(v) == <<Prepare(v), removeLV(Rw(v))>>

lvmImageCreate(image) ==
  createThinLV(image)
  \o <<Cmd("link", NoObject, Fs(image)), Prepare(image),
       OrElse(Cmd("unpack", Fs(image), Fs(image)), <<Prepare(image), Ignoring(removeLV(image))>>),
       Prepare(image)>>

lvmImageDelete(image) == <<removeLV(image), Cmd("unlink", Fs(image), NoObject)>>

lvmPlan(op, disk, links, snaps) ==
  CASE op.fn = "ContainerCreate" -> lvmContainerCreate(op.vol)
    [] op.fn = "ContainerCreateFromImage" -> lvmContainerCreateFromImage(op.vol, op.arg, links)
    [] op.fn = "ContainerDelete" -> lvmContainerDelete(op.vol)
    [] op.fn = "ContainerCopy" -> lvmContainerCopy(op.vol, op.arg, links)
    [] op.fn = "ContainerRename" -> lvmContainerRename(op.vol, op.arg, snaps)
    [] op.fn = "ContainerRestore" -> lvmContainerRestore(op.vol, op.arg)
    [] op.fn = "ContainerSnapshotCreate" -> createSnapshotContainer(op.vol, op.arg)
    [] op.fn = "ContainerSnapshotDelete" -> lvmContainerSnapshotDelete(op.vol)
    [] op.fn = "ContainerSnapshotRename" -> lvmContainerSnapshotRename(op.vol, op.arg)
    [] op.fn = "ContainerSnapshotStart" -> lvmContainerSnapshotStart(op.vol)
    [] op.fn = "ContainerSnapshotStop" -> lvmContainerSnapshotStop(op.vol)
    [] op.fn = "ImageCreate" -> lvmImageCreate(op.vol)
    [] op.fn = "ImageDelete" -> lvmImageDelete(op.vol)
=============================================================================
