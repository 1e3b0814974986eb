----------------------------- MODULE StorageZfs ------------------------------
(* lxd/storage_zfs.go: containers are datasets, images are datasets with a   *)
(* snapshot "readonly", and a container made from an image, a snapshot or    *)
(* another container is a clone, which keeps its origin on the pool. What    *)
(* cannot be destroyed because of its clones is moved out of sight.          *)
EXTENDS StorageCommands

Deleted(id) == <<"deleted", id>>
DeletedImage(f) == <<"deleted images", f>>

IsDeleted(p) == p[1] \in {"deleted", "deleted images"}

SnapAt(v) == <<"snapshot", v[3]>>
CopyAt(id) == <<"copy", id>>
ReadonlyAt == <<"readonly">>

(* The dataset or the dataset's snapshot that holds a container or snapshot. *)
zfsObject(v) == IF v[1] = "containers" THEN Fs(v) ELSE At(Ct(v[2]), SnapAt(v))

(* The helpers that run one zfs command.                                     *)
zfsExists(disk, o) == Exists(disk, o)
zfsCreate(p) == Cmd("create", NoObject, Fs(p))
zfsClone(o, p) == Cmd("clone", o, Fs(p))
zfsDestroy(p) == Cmd("destroy", Fs(p), NoObject)
zfsRename(p, q) == Cmd("rename", Fs(p), Fs(q))
zfsSnapshotCreate(o) == Cmd("snapshot", NoObject, o)
zfsSnapshotDestroy(o) == Cmd("destroy", o, NoObject)
zfsSnapshotRestore(o) == Cmd("rollback", o, NoObject)
zfsSnapshotRename(o, new) == Cmd("renameat", o, new)
zfsListSnapshots(disk, p) == {disk[p].snaps[i] : i \in DOMAIN disk[p].snaps}
zfsSnapshotRemovable(disk, o) == Clones(disk, o) = {}

zfsContainerCreate(v) ==
  <<zfsCreate(v), Cmd("link", NoObject, Fs(v)), Prepare(v)>>

zfsContainerCreateFromImage(v, image, disk) ==
  When(image \notin DOMAIN disk, <<CallOf("ImageCreate", image, <<>>)>>)
  \o <<zfsClone(At(image, ReadonlyAt), v), Cmd("link", NoObject, Fs(v)), Prepare(v)>>

(* Mutant: the link to the mount point stays.                                *)
DeleteKeepsLink(v, disk, id) ==
  When(v \in DOMAIN disk,
       <<zfsDestroy(v),
         CallOf("zfsCleanup", disk[v].origin[1], disk[v].origin[2])>>)
  \o <<Prepare(v)>>

zfsContainerDelete(v, disk, id) ==
  When(v \in DOMAIN disk,
       IF \A x \in zfsListSnapshots(disk, v) : zfsSnapshotRemovable(disk, At(v, x.at))
       THEN <<zfsDestroy(v),
              CallOf("zfsCleanup", disk[v].origin[1], disk[v].origin[2])>>
       ELSE <<Prepare(v), zfsRename(v, Deleted(id))>>)
  \o <<Cmd("rmlink", Fs(v), NoObject), Prepare(v),
       Ignoring(Cmd("rmall", Fs(<<"snapshots", v[2]>>), NoObject))>>

zfsContainerCopy(v, source, disk, id) ==
  LET temporary == At(source, CopyAt(id))
      cloneOf(o) == <<zfsClone(o, v), Cmd("link", NoObject, Fs(v)), Prepare(v)>>
  IN CASE ~zfsExists(disk, zfsObject(source)) ->
            zfsContainerCreate(v) \o <<Cmd("rsync", Fs(source), Fs(v)), Prepare(v)>>
       [] zfsExists(disk, zfsObject(source)) /\ source[1] = "containers" ->
            <<zfsSnapshotCreate(temporary)>> \o cloneOf(temporary)
       [] OTHER -> cloneOf(zfsObject(source))

zfsContainerRename(v, new) ==
  <<Prepare(v), zfsRename(v, new), Prepare(new),
    Cmd("unlink", Fs(v), NoObject), Cmd("link", NoObject, Fs(new)),
    Cmd("relink", Fs(<<"snapshots", v[2]>>), Fs(<<"snapshots", new[2]>>))>>

zfsContainerRestore(v, snap) == <<zfsSnapshotRestore(At(v, SnapAt(snap)))>>

(* Only the latest snapshot in the daemon's records can be restored.         *)
zfsContainerCanRestore(v, order) ==
  Last(SelectSeq(order, LAMBDA x : x[2] = v[2])) = v

zfsContainerSnapshotCreate(v) ==
  <<zfsSnapshotCreate(zfsObject(v)), Cmd("link", NoObject, Fs(v))>>

(* Mutant: a snapshot with clones is destroyed like any other.               *)
DestroyCloned(v, disk, id) ==
  <<zfsSnapshotDestroy(zfsObject(v)), Cmd("rmlink", Fs(v), NoObject)>>

zfsContainerSnapshotDelete(v, disk, id) ==
  LET o == zfsObject(v)
  IN When(zfsExists(disk, o),
          IF zfsSnapshotRemovable(disk, o)
          THEN <<zfsSnapshotDestroy(o)>>
          ELSE <<zfsSnapshotRename(o, At(o[1], CopyAt(id)))>>)
     \o <<Cmd("rmlink", Fs(v), NoObject)>>

zfsContainerSnapshotRename(v, new) ==
  When(v[3] # new[3], <<zfsSnapshotRename(zfsObject(v), zfsObject(new))>>)
  \o <<Cmd("unlink", Fs(v), NoObject), Cmd("link", NoObject, Fs(new))>>

zfsContainerSnapshotStart(v) == <<zfsClone(zfsObject(v), v)>>

zfsContainerSnapshotStop(v) == <<zfsDestroy(v), Prepare(v)>>

(* Mutant: the image is usable before it is unpacked.                        *)
ReadonlyFirst(image, disk) ==
  <<zfsCreate(image), zfsSnapshotCreate(At(image, ReadonlyAt)),
    Cmd("unpack", Fs(image), Fs(image))>>

(* An image whose dataset is still on the pool comes back under its name.    *)
zfsImageCreate(image, disk) ==
  LET cleanup == <<Ignoring(zfsDestroy(image))>>
  IN IF DeletedImage(image[2]) \in DOMAIN disk
     THEN <<zfsRename(DeletedImage(image[2]), image), Prepare(image)>>
     ELSE <<zfsCreate(image),
            OrElse(Cmd("unpack", Fs(image), Fs(image)), cleanup),
            OrElse(Prepare(image), cleanup),
            OrElse(zfsSnapshotCreate(At(image, ReadonlyAt)), cleanup)>>

zfsImageDelete(image, disk) ==
  LET o == At(image, ReadonlyAt)
  IN CASE image \notin DOMAIN disk -> <<Prepare(image)>>
       [] image \in DOMAIN disk /\ ~zfsExists(disk, o) -> <<Error>>
       [] zfsExists(disk, o) /\ zfsSnapshotRemovable(disk, o) ->
            <<zfsDestroy(image), Prepare(image)>>
       [] OTHER -> <<Prepare(image), zfsRename(image, DeletedImage(image[2])), Prepare(image)>>

(* Mutant: origins stay.                                                     *)
NoCleanup(o, disk) == <<>>

(* What nothing depends on any more goes, and so does its origin.            *)
zfsCleanup(o, disk) ==
  CASE IsPrefix(<<"containers">>, o[1]) /\ o[2] # <<>> ->
         When(o[2][1] = "copy", <<zfsSnapshotDestroy(o)>>)
    [] o # NoObject /\ IsDeleted(o[1]) ->
         IF ~zfsExists(disk, o) THEN <<Error>>
         ELSE When(zfsSnapshotRemovable(disk, o),
                   <<zfsSnapshotDestroy(o),
                     IF o[2] # <<>> THEN CallOf("zfsCleanupParent", o[1], <<>>)
                     ELSE CallOf("zfsCleanup", disk[o[1]].origin[1], disk[o[1]].origin[2])>>)
    [] OTHER -> <<>>

zfsCleanupParent(p, disk) ==
  When(p \in DOMAIN disk /\ zfsListSnapshots(disk, p) = {}, <<CallOf("zfsCleanup", p, <<>>)>>)

zfsPlan(op, disk, links, id) ==
  CASE op.fn = "ContainerCreate" -> zfsContainerCreate(op.vol)
    [] op.fn = "ContainerCreateFromImage" -> zfsContainerCreateFromImage(op.vol, op.arg, disk)
    [] op.fn = "ContainerDelete" -> zfsContainerDelete(op.vol, disk, id)
    [] op.fn = "ContainerCopy" -> zfsContainerCopy(op.vol, op.arg, disk, id)
    [] op.fn = "ContainerRename" -> zfsContainerRename(op.vol, op.arg)
    [] op.fn = "ContainerRestore" -> zfsContainerRestore(op.vol, op.arg)
    [] op.fn = "ContainerSnapshotCreate" -> zfsContainerSnapshotCreate(op.vol)
    [] op.fn = "ContainerSnapshotDelete" -> zfsContainerSnapshotDelete(op.vol, disk, id)
    [] op.fn = "ContainerSnapshotRename" -> zfsContainerSnapshotRename(op.vol, op.arg)
    [] op.fn = "ContainerSnapshotStart" -> zfsContainerSnapshotStart(op.vol)
    [] op.fn = "ContainerSnapshotStop" -> zfsContainerSnapshotStop(op.vol)
    [] op.fn = "ImageCreate" -> zfsImageCreate(op.vol, disk)
    [] op.fn = "ImageDelete" -> zfsImageDelete(op.vol, disk)
    [] op.fn = "zfsCleanup" -> zfsCleanup(<<op.vol, op.arg>>, disk)
    [] op.fn = "zfsCleanupParent" -> zfsCleanupParent(op.vol, disk)
=============================================================================
