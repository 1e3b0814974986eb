----------------------------- MODULE RootfsShift -----------------------------
(* The owners of the files in a container's rootfs. On disk they are host    *)
(* ids under the map in volatile.last_state.idmap; a start whose map differs *)
(* walks the rootfs twice, back to the container's ids and out to the new    *)
(* map, and an export walks it back and forth. Requests for files, updates   *)
(* of the configuration and the container itself go on meanwhile.            *)
EXTENDS IdMap

CONSTANTS Envs,          \* the hosts: uidmap tools, shadow files and kernel maps
          Served,        \* those of them on which containers are put to use
          Raws,          \* values of raw.idmap: sequences of entries
          Probes,        \* other values, of containers that nothing more is asked of
          Received,      \* maps of the hosts that containers were migrated from
          Ids,           \* container ids that own files
          Inodes,        \* files
          Layouts,       \* the order of paths in which a walk meets them, and their ACLs
          MaxRequests,   \* bound on the requests of a behaviour
          MaxHarm        \* bound on its failures and crashes

VARIABLES env, host,     \* the host and its OS.IdmapSet
          conf,          \* security.privileged or .isolated, and raw.idmap
          next, last,    \* volatile.idmap.next and volatile.last_state.idmap
          update,        \* an Update between its load and its commit
          running, mounted,
          layout,        \* the paths' inodes and the kind of their ACL entries
          disk,          \* inode -> its owner on disk
          view,          \* inode -> its owner in the container (history)
          jobs,          \* the start and the export under way
          file,          \* the request for a file under way
          torn,          \* a start whose walk was interrupted (history)
          exposed,       \* what has happened that can spoil the owners (history)
          mistold,       \* a wrong owner was told (history)
          requests, harm

config == <<env, host, conf, next, update>>
files == <<layout, disk, view>>
bounds == <<requests, harm>>
vars == <<config, last, running, mounted, files, jobs, file, torn, exposed, mistold, bounds>>

(* The empty map stands for "[]": no shifting, a privileged container.       *)
NoMap == <<>>
Configs(raws) == [kind : {"plain", "isolated"}, raw : raws] \cup [kind : {"privileged"}, raw : {<<>>}]

(* findIdmap; an isolated container is the only one and gets the first range *)
(* after the host's own 65536 ids.                                           *)
findIdmap(h, c) ==
  LET base == h[1].Hostid + MinIds
  IN CASE c.kind = "privileged" -> Ok(NoMap)
       [] c.kind # "privileged" /\ h = NoMap -> Error
       [] c.kind = "plain" /\ h # NoMap -> WithRaw(h, c.raw)
       [] c.kind = "isolated" /\ h # NoMap ->
            IF base + MinIds < h[1].Hostid + h[1].Maprange
            THEN WithRaw(<<Entry("uid", base, 0, MinIds), Entry("gid", base, 0, MinIds)>>, c.raw)
            ELSE Error

(* chown leaves an id alone that the map does not know.                      *)
Chown(m, class, id, how) ==
  LET new == doShiftIntoNs(m, class, id, how) IN IF new = None THEN id ELSE new

(* The owner on disk of a file that is o's in the container, under map m.    *)
OnDisk(m, o, tag) ==
  [o EXCEPT !.uid = Chown(m, "uid", o.uid, "in"), !.gid = Chown(m, "gid", o.gid, "in"),
            !.acl = IF tag = "none" THEN @
                    ELSE Chown(m, IF tag = "user" THEN "uid" ELSE "gid", o.acl, "in")]

Owned(id) == [there |-> TRUE, uid |-> id, gid |-> id, acl |-> id]
Idle == [plan |-> <<>>, from |-> NoMap, to |-> NoMap, at |-> 1, half |-> FALSE]
NoFile == [do |-> "none", ino |-> 0, uid |-> None, gid |-> None, root |-> <<0, 0>>, id |-> None,
           live |-> FALSE, last |-> NoMap]
Whole == [phase |-> "none", to |-> NoMap]
NoUpdate == [on |-> FALSE, last |-> NoMap]

Active(o) == jobs[o].plan # <<>>
Doing(o) == Head(jobs[o].plan)
Quiet == \A o \in DOMAIN jobs : ~Active(o)

----------------------------------------------------------------------------
(* What c.IdmapSet() returns of the configuration.                           *)
IdmapSet == IF conf.kind = "privileged" THEN NoMap ELSE next

(* The ids of a file's new owner in a request; absent ones are None.         *)
ParseLXDFileHeaders == Ids \cup {None}

----------------------------------------------------------------------------
(* Conditions on maps under which walks can be repeated.                     *)

AllIds == 0 .. TopId

(* Shifting twice, as happens to a file with two paths, is shifting once.    *)
Stable(m) ==
  \A class \in Classes, n \in AllIds, how \in {"in", "out"} :
    Chown(m, class, Chown(m, class, n, how), how) = Chown(m, class, n, how)

(* A walk from one map to the other that begins again on files of which some *)
(* have been walked brings all of them to the new map.                       *)
Resumable(from, to) ==
  \A class \in Classes, n \in AllIds :
    LET new == Chown(to, class, n, "in")
    IN \A got \in {n, new} : Chown(to, class, Chown(from, class, got, "out"), "in") = new

(* ACL entries of groups are shifted as if they were users.                  *)
SameClasses(m) == \A n \in AllIds, how \in {"in", "out"} :
  doShiftIntoNs(m, "uid", n, how) = doShiftIntoNs(m, "gid", n, how)

Linked == \E k, l \in DOMAIN layout.paths : k # l /\ layout.paths[k] = layout.paths[l]

(* What a walk with these maps is exposed to, however it goes.               *)
WalkExposes(maps) ==
  {r \in {"link", "acl"} :
     \/ r = "link" /\ Linked /\ \E m \in maps : ~Stable(m)
     \/ r = "acl" /\ (\E i \in Inodes : layout.tag[i] = "group") /\ \E m \in maps : ~SameClasses(m)}

If(cond, reason) == IF cond THEN {reason} ELSE {}

----------------------------------------------------------------------------
(* Nothing is said, and nothing more asked, of a container whose owners may  *)
(* be spoiled already.                                                       *)
Request ==
  /\ exposed = {} /\ conf.raw \in Raws /\ env \in Served
  /\ requests < MaxRequests /\ requests' = requests + 1
  /\ UNCHANGED harm

(* Update reads the configuration and later writes all of it back, the       *)
(* volatile keys included.                                                   *)
BeginUpdate ==
  /\ ~update.on
  /\ Request
  /\ update' = [on |-> TRUE, last |-> last]
  /\ UNCHANGED <<env, host, conf, next, last, running, mounted, files, jobs, file, torn, exposed, mistold>>

EndUpdate(c) ==
  /\ update.on
  /\ update' = NoUpdate
  /\ IF findIdmap(host, c).ok
     THEN /\ conf' = c
          /\ next' = findIdmap(host, c).map
          /\ last' = update.last
          /\ exposed' = exposed \cup If(update.last # last, "update")
                          \cup If(torn # Whole /\ next' # torn.to, "reconfigured")
     ELSE UNCHANGED <<conf, next, last, exposed>>
  /\ UNCHANGED <<env, host, running, mounted, files, jobs, file, torn, mistold, bounds>>

(* Mutant: the map is recorded before the files are walked.                  *)
SavedFirst(from, to) ==
  IF from = to THEN <<"save", "run">>
  ELSE SelectSeq(<<"save", "out", "in", "umount", "run">>,
                 LAMBDA p : ~(p = "out" /\ from = NoMap) /\ ~(p = "in" /\ to = NoMap))

(* startCommon: nothing is walked when the maps are the same.                *)
StartPlan(from, to) ==
  IF from = to THEN <<"save", "run">>
  ELSE SelectSeq(<<"out", "in", "umount", "save", "run">>,
                 LAMBDA p : ~(p = "out" /\ from = NoMap) /\ ~(p = "in" /\ to = NoMap))

ExportPlan(m) == IF m = NoMap THEN <<"tar", "umount">> ELSE <<"out", "tar", "in", "umount">>

BeginStart ==
  /\ ~running /\ ~Active("start")
  /\ Request
  /\ jobs' = [jobs EXCEPT !["start"] = [Idle EXCEPT !.plan = StartPlan(last, IdmapSet),
                                                    !.from = last, !.to = IdmapSet]]
  /\ mounted' = (mounted \/ last # IdmapSet)
  /\ exposed' = exposed \cup If(Active("export"), "concurrent")
                  \cup (IF last = IdmapSet THEN {} ELSE WalkExposes({last, IdmapSet}))
  /\ UNCHANGED <<config, last, running, files, file, torn, mistold>>

BeginExport ==
  /\ ~running /\ ~Active("export")
  /\ Request
  /\ jobs' = [jobs EXCEPT !["export"] = [Idle EXCEPT !.plan = ExportPlan(last),
                                                     !.from = last, !.to = last]]
  /\ mounted' = TRUE
  /\ exposed' = exposed \cup If(Active("start"), "concurrent")
                  \cup If(torn.phase = "in", "exported torn") \cup WalkExposes({last})
  /\ UNCHANGED <<config, last, running, files, file, torn, mistold>>

----------------------------------------------------------------------------
(* filepath.Walk: at each path ShiftOwner, then ShiftACL.                    *)

WalkMap(j) == IF Head(j.plan) = "out" THEN j.from ELSE j.to
Along(j) == IF j.at = Len(layout.paths)
            THEN [j EXCEPT !.plan = Tail(@), !.at = 1, !.half = FALSE]
            ELSE [j EXCEPT !.at = @ + 1, !.half = FALSE]

ShiftOwner(m, how, d) == [d EXCEPT !.uid = Chown(m, "uid", @, how), !.gid = Chown(m, "gid", @, how)]

(* The kernel refuses an ACL entry without an id.                            *)
ShiftACL(m, how, d) == [d EXCEPT !.acl = doShiftIntoNs(m, "uid", @, how)]

(* A walk that fails: a start gives up; an export that has not written the   *)
(* image yet gives up too, one that has ignores the error.                   *)
Broken(o) == [Idle EXCEPT !.plan = IF o = "start" THEN <<>> ELSE <<"umount">>]

(* What it means for the files when jobs stop before their end (history).    *)
Interrupted(os) ==
  LET s == jobs["start"]
      x == jobs["export"]
      remapping == "start" \in os /\ Active("start") /\ s.from # s.to /\ Doing("start") # "run"
  IN /\ torn' = IF ~remapping THEN torn
                ELSE [phase |-> IF Doing("start") = "out" /\ torn.phase # "in" THEN "out" ELSE "in",
                      to |-> s.to]
     /\ exposed' = exposed \cup If(remapping /\ ~Resumable(s.from, s.to), "interrupted")
                     \cup If(remapping /\ next # s.to, "reconfigured")
                     \cup If("export" \in os /\ Len(x.plan) > 1 /\ x.from # NoMap, "export")

Fails(o) ==
  /\ jobs' = [jobs EXCEPT ![o] = Broken(o)]
  /\ mounted' = IF o = "start" THEN FALSE ELSE mounted
  /\ Interrupted({o})

Walk(o) ==
  /\ Active(o) /\ Doing(o) \in {"out", "in"}
  /\ LET j == jobs[o]
         i == layout.paths[j.at]
         m == WalkMap(j)
         how == Doing(o)
         new == ShiftACL(m, how, disk[i])
     IN CASE ~mounted -> Fails(o) /\ UNCHANGED disk
          [] mounted /\ ~disk[i].there ->
               jobs' = [jobs EXCEPT ![o] = Along(j)] /\ UNCHANGED <<disk, mounted, torn, exposed>>
          [] mounted /\ disk[i].there /\ ~j.half ->
               /\ disk' = [disk EXCEPT ![i] = ShiftOwner(m, how, @)]
               /\ jobs' = [jobs EXCEPT ![o] = IF layout.tag[i] = "none" THEN Along(j)
                                              ELSE [j EXCEPT !.half = TRUE]]
               /\ UNCHANGED <<mounted, torn, exposed>>
          [] mounted /\ disk[i].there /\ j.half /\ new.acl = None -> Fails(o) /\ UNCHANGED disk
          [] OTHER -> /\ disk' = [disk EXCEPT ![i] = new]
                      /\ jobs' = [jobs EXCEPT ![o] = Along(j)]
                      /\ UNCHANGED <<mounted, torn, exposed>>
  /\ UNCHANGED <<config, last, running, layout, view, file, mistold, bounds>>

WalkFails(o) ==
  /\ Active(o) /\ Doing(o) \in {"out", "in"}
  /\ harm < MaxHarm /\ harm' = harm + 1
  /\ Fails(o)
  /\ UNCHANGED <<config, last, running, files, file, mistold, requests>>

Forward(o) == jobs' = [jobs EXCEPT ![o].plan = Tail(@)]

(* The owner of a file in an image is the one on disk.                       *)
tarStoreFile(i) == <<disk[i].uid, disk[i].gid>>

Export ==
  /\ Active("export") /\ Doing("export") = "tar"
  /\ mistold' = (mistold \/ (exposed = {} /\ torn.phase # "in" /\ mounted
                    /\ \E i \in Inodes : disk[i].there
                         /\ tarStoreFile(i) # <<view[i].uid, view[i].gid>>))
  /\ Forward("export")
  /\ UNCHANGED <<config, last, running, mounted, files, file, torn, exposed, bounds>>

StorageStop(o) ==
  /\ Active(o) /\ Doing(o) = "umount"
  /\ Forward(o)
  /\ mounted' = running
  /\ UNCHANGED <<config, last, running, files, file, torn, exposed, mistold, bounds>>

SaveLast ==
  /\ Active("start") /\ Doing("start") = "save"
  /\ last' = jobs["start"].to
  /\ torn' = IF jobs["start"].from # jobs["start"].to THEN Whole ELSE torn
  /\ Forward("start")
  /\ UNCHANGED <<config, running, mounted, files, file, exposed, mistold, bounds>>

(* The container comes up: its storage is mounted, and templates create the  *)
(* files that are missing, with the map that is configured at that moment.   *)
templateApplyNow(i) ==
  IF disk[i].there THEN disk[i]
  ELSE IF conf.kind = "privileged" THEN [Owned(0) EXCEPT !.acl = disk[i].acl]
  ELSE [there |-> TRUE, uid |-> Chown(next, "uid", 0, "in"), gid |-> Chown(next, "gid", 0, "in"),
        acl |-> disk[i].acl]

Run(i) ==
  /\ Active("start") /\ Doing("start") = "run"
  /\ Forward("start")
  /\ running' = TRUE /\ mounted' = TRUE
  /\ disk' = [disk EXCEPT ![i] = templateApplyNow(i)]
  /\ view' = [view EXCEPT ![i] = IF disk[i].there THEN @ ELSE [Owned(0) EXCEPT !.acl = view[i].acl]]
  /\ exposed' = exposed \cup If(next # jobs["start"].to, "template")
                  \cup If(last # jobs["start"].to, "update") \cup If(Active("export"), "concurrent")
  /\ torn' = Whole
  /\ UNCHANGED <<config, last, layout, file, mistold, bounds>>

Stop ==
  /\ running
  /\ running' = FALSE /\ mounted' = FALSE
  /\ UNCHANGED <<config, last, files, jobs, file, torn, exposed, mistold, bounds>>

(* The container changes the owner of one of its files.                      *)
ContainerChowns(i, id) ==
  /\ running /\ disk[i].there
  /\ \A class \in Classes : last # NoMap => ShiftIntoNs(last, class, id) # None
  /\ Request
  /\ view' = [view EXCEPT ![i].uid = id, ![i].gid = id]
  /\ disk' = [disk EXCEPT ![i] = [OnDisk(last, view'[i], "none") EXCEPT !.acl = disk[i].acl]]
  /\ UNCHANGED <<config, last, running, mounted, layout, jobs, file, torn, exposed, mistold>>

(* A device takes the place of a file, or the container removes it itself.   *)
FileRemove(i) ==
  /\ running /\ disk[i].there /\ layout.tag[i] = "none"
  /\ disk' = [disk EXCEPT ![i].there = FALSE]
  /\ UNCHANGED <<config, last, running, mounted, layout, view, jobs, file, torn, exposed, mistold, bounds>>

----------------------------------------------------------------------------
(* Requests for files. FilePush maps the ids while it sees the container     *)
(* stopped, and forkputfile then enters the container if it runs.            *)

Mapped(id) == IF running \/ last = NoMap THEN <<id, id>>
              ELSE <<ShiftIntoNs(last, "uid", id), ShiftIntoNs(last, "gid", id)>>

containerFilePut(i, id) ==
  /\ file.do = "none"
  /\ Request
  /\ file' = [do |-> "push", ino |-> i, uid |-> Mapped(id)[1], gid |-> Mapped(id)[2],
              root |-> Mapped(0), id |-> id, live |-> running, last |-> last]
  /\ mounted' = TRUE
  /\ UNCHANGED <<config, last, running, files, jobs, torn, exposed, mistold>>

(* The host's id for one of a process that has entered the container.        *)
attach_userns(class, id) == IF id = None \/ last = NoMap THEN id ELSE ShiftIntoNs(last, class, id)

(* manip_file_in_ns: ids that are not given are left alone, or those of the  *)
(* container's root when the file is new. In a container an id that its map  *)
(* does not know is refused, and the new file stays its root's.              *)
manip_file_in_ns(d) ==
  LET mine(class) == IF running THEN Chown(last, class, 0, "in") ELSE 0
      was == IF d.there THEN d
             ELSE [there |-> TRUE, uid |-> mine("uid"), gid |-> mine("gid"), acl |-> d.acl]
      uid == IF file.uid = None /\ ~d.there THEN file.root[1] ELSE file.uid
      gid == IF file.gid = None /\ ~d.there THEN file.root[2] ELSE file.gid
      refused(class, id) == running /\ id # None /\ attach_userns(class, id) = None
      set(old, class, id) ==
        IF id = None THEN old ELSE IF running THEN attach_userns(class, id) ELSE id
  IN IF refused("uid", uid) \/ refused("gid", gid) THEN was
     ELSE [was EXCEPT !.uid = set(@, "uid", uid), !.gid = set(@, "gid", gid)]

Known(class, id) == id # None /\ (file.last = NoMap \/ ShiftIntoNs(file.last, class, id) # None)

FilePush ==
  /\ file.do = "push" /\ mounted
  /\ LET i == file.ino
         there == disk[i].there
         seen(class, old) == IF Known(class, file.id) THEN file.id ELSE IF there THEN old ELSE 0
         whole == file.live => (file.id = None \/ \A class \in Classes : Known(class, file.id))
     IN /\ disk' = [disk EXCEPT ![i] = manip_file_in_ns(@)]
        /\ view' = [view EXCEPT ![i] =
                      IF whole THEN [there |-> TRUE, uid |-> seen("uid", @.uid), gid |-> seen("gid", @.gid),
                                     acl |-> @.acl]
                      ELSE IF there THEN @ ELSE [Owned(0) EXCEPT !.acl = view[i].acl]]
  /\ exposed' = exposed \cup If(file.live # running \/ file.last # last \/ ~Quiet, "push")
  /\ file' = NoFile
  /\ mounted' = running
  /\ UNCHANGED <<config, last, running, layout, jobs, torn, mistold, bounds>>

containerFileGet(i) ==
  /\ file.do = "none" /\ disk[i].there
  /\ Request
  /\ LET seen(class, id) == IF running /\ last # NoMap THEN ShiftFromNs(last, class, id) ELSE id
     IN file' = [NoFile EXCEPT !.do = "pull", !.ino = i, !.uid = seen("uid", disk[i].uid),
                   !.gid = seen("gid", disk[i].gid), !.live = running, !.last = last,
                   !.root = <<view[i].uid, view[i].gid>>]
  /\ mounted' = running
  /\ UNCHANGED <<config, last, running, files, jobs, torn, exposed, mistold>>

(* The owner that is told: unmapped if the container is not running.         *)
FilePull ==
  /\ file.do = "pull"
  /\ LET told(class, id) == IF running \/ last = NoMap THEN id ELSE ShiftFromNs(last, class, id)
         want(class, id) == IF last = NoMap \/ ShiftIntoNs(last, class, id) # None THEN id ELSE None
     IN mistold' = (mistold
          \/ /\ exposed = {} /\ torn = Whole /\ Quiet
             /\ file.live = running /\ file.last = last
             /\ \/ told("uid", file.uid) # want("uid", file.root[1])
                \/ told("gid", file.gid) # want("gid", file.root[2]))
  /\ file' = NoFile
  /\ UNCHANGED <<config, last, running, mounted, files, jobs, torn, exposed, bounds>>

(* A push that finds the storage unmounted by another request fails.         *)
FilePushFails ==
  /\ file.do = "push" /\ ~mounted
  /\ file' = NoFile
  /\ UNCHANGED <<config, last, running, mounted, files, jobs, torn, exposed, mistold, bounds>>

(* The daemon dies; the container runs on.                                   *)
Crash ==
  /\ harm < MaxHarm /\ harm' = harm + 1
  /\ ~Quiet \/ file.do # "none" \/ update.on
  /\ Interrupted(DOMAIN jobs)
  /\ jobs' = [o \in DOMAIN jobs |-> Idle]
  /\ file' = NoFile /\ update' = NoUpdate
  /\ UNCHANGED <<env, host, conf, next, last, running, mounted, files, mistold, requests>>

----------------------------------------------------------------------------
(* A container received by migration arrives with the owners of its source;  *)
(* the source's map is recorded when it differs.                             *)
ShiftIfNecessary(src, dst) == IF src # dst THEN src ELSE dst

(* A container created here, or received, and the owners of its files right. *)
Init ==
  /\ env \in Envs
  /\ host = GetIdmapSet(env)
  /\ conf \in {c \in Configs(Raws \cup Probes) : findIdmap(host, c).ok}
  /\ next = findIdmap(host, conf).map
  /\ layout \in Layouts
  /\ \E src \in Received \cup {next} :
       /\ last = ShiftIfNecessary(src, next)
       /\ view = [i \in Inodes |-> Owned(IF i = 1 THEN 0 ELSE 1)]
       /\ disk = [i \in Inodes |-> OnDisk(src, view[i], layout.tag[i])]
       /\ WalkExposes({src}) = {}
  /\ update = NoUpdate /\ running = FALSE /\ mounted = FALSE
  /\ jobs = [o \in {"start", "export"} |-> Idle]
  /\ file = NoFile /\ torn = Whole /\ exposed = {} /\ mistold = FALSE
  /\ requests = 0 /\ harm = 0

Next ==
  \/ BeginUpdate \/ \E c \in Configs(Raws) : EndUpdate(c)
  \/ BeginStart \/ BeginExport
  \/ \E o \in {"start", "export"} : Walk(o) \/ WalkFails(o) \/ StorageStop(o)
  \/ Export \/ SaveLast \/ (\E i \in Inodes : Run(i)) \/ Stop
  \/ \E i \in Inodes : FileRemove(i) \/ containerFileGet(i)
                       \/ (\E id \in Ids : ContainerChowns(i, id))
                       \/ (\E id \in ParseLXDFileHeaders : containerFilePut(i, id))
  \/ FilePush \/ FilePull \/ FilePushFails
  \/ Crash

Spec == Init /\ [][Next]_vars

----------------------------------------------------------------------------
(* Type invariant: maps are sequences of entries with ranges that are not    *)
(* empty, every file has an owner, and a job only walks while it is active.  *)
TypeOK ==
  /\ \A m \in {host, next, last} : \A e \in Range(m) :
       e.Maprange >= 1 /\ e.Nsid \in AllIds /\ e.Hostid \in AllIds /\ (e.Isuid \/ e.Isgid)
  /\ conf \in Configs(Raws \cup Probes) /\ {running, mounted, mistold} \subseteq BOOLEAN
  /\ \A i \in Inodes : disk[i].uid \in AllIds /\ disk[i].gid \in AllIds /\ disk[i].acl \in AllIds
  /\ \A o \in DOMAIN jobs : jobs[o].at \in 1 .. Len(layout.paths) /\ (jobs[o].half => Active(o))
  /\ file.do \in {"none", "push", "pull"} /\ torn.phase \in {"none", "out", "in"}

(* Whenever no walk is under way or waits to be taken up again, every file   *)
(* is on disk under the map in volatile.last_state.idmap with the owner that *)
(* it has in the container, whatever starts failed or were cut off by a      *)
(* crash, and whatever exports, pushes and updates there were in between     *)
(* (startCommon's walks). Not so after what `exposed` names.                 *)
OwnersKept ==
  (exposed = {} /\ torn = Whole /\ Quiet) =>
    \A i \in Inodes : disk[i].there =>
      disk[i] = [OnDisk(last, view[i], layout.tag[i]) EXCEPT !.there = TRUE]

(* The owners that FilePull tells and that Export writes into an image are   *)
(* the container's own, whether or not it runs and after every walk that was *)
(* taken up again.                                                           *)
OwnersTold == ~mistold

(* Files have the owners they have in the container: on disk under the       *)
(* recorded map, and in what is pulled or exported.                          *)
OwnersInv == TypeOK /\ OwnersKept /\ OwnersTold

----------------------------------------------------------------------------
(* Reference definitions for the maps.                                       *)

Base == IF conf.kind = "isolated"
        THEN <<Entry("uid", host[1].Hostid + MinIds, 0, MinIds),
               Entry("gid", host[1].Hostid + MinIds, 0, MinIds)>>
        ELSE host

NsIds(e) == e.Nsid .. e.Nsid + e.Maprange - 1
HostIds(e) == e.Hostid .. e.Hostid + e.Maprange - 1

(* Adding i to m meets none of AddSafe's two blind spots: an overlap that    *)
(* Intersects does not see, in the last id of a range, and an entry for both *)
(* classes of which i only takes the place of one.                           *)
Seen(m, i) ==
  \A e \in Range(m) :
    /\ (SameClass(e, i) /\ (NsIds(e) \cap NsIds(i)) \cup (HostIds(e) \cap HostIds(i)) # {})
         => Intersects(e, i)
    /\ Intersects(e, i) => (e.Isuid => i.Isuid) /\ (e.Isgid => i.Isgid)

AllSeen(m, lines) == \A k \in DOMAIN lines : Seen(AddAll(m, SubSeq(lines, 1, k - 1)).map, lines[k])

InSight == AllSeen(<<>>, conf.raw) /\ AllSeen(Base, parseRawIdmap(conf.raw).map)

(* The last line of raw.idmap for an id decides, else the map without lines. *)
Reference(class, n) ==
  LET for == {k \in DOMAIN conf.raw : Covers(conf.raw[k], class) /\ n \in NsIds(conf.raw[k])}
  IN IF for # {} THEN n - conf.raw[Max(for)].Nsid + conf.raw[Max(for)].Hostid
     ELSE ShiftIntoNs(Base, class, n)

(* A container's map takes each id where the last line of raw.idmap for it   *)
(* says, and every other id where it went before: AddSafe breaks ranges      *)
(* apart without losing or moving an id, unless it meets a blind spot.       *)
RawHonoured ==
  (conf.kind # "privileged" /\ InSight) =>
    \A class \in Classes, n \in AllIds : ShiftIntoNs(next, class, n) = Reference(class, n)

(* A container's map is one that the kernel accepts, and no two users of the *)
(* container are one user of the host: different entries of a class share    *)
(* neither container ids nor host ids (AddSafe and ErrHostIdIsSubId).        *)
IdsDistinct ==
  (conf.kind # "privileged" /\ InSight) =>
    \A e, i \in Range(next) :
      (e # i /\ SameClass(e, i)) => NsIds(e) \cap NsIds(i) = {} /\ HostIds(e) \cap HostIds(i) = {}

(* Every host id that the daemon hands out is one that the kernel has mapped *)
(* in the daemon's own namespace, and one that it found by itself is not one *)
(* of the host's own users (DefaultIdmapSet, GetIdmapSet and ValidRanges).   *)
AllocationUsable ==
  \A e \in Range(host), class \in Classes :
    Covers(e, class) =>
      /\ \A id \in HostIds(e) :
           \E t \in Range(env.proc[class]) : id >= t[1] /\ id < t[1] + t[3]
      /\ ~env.tools => e.Hostid >= Reserved /\ e.Maprange >= MinIds

(* A container's map is the one its configuration asks for, and one-to-one.  *)
MapsRight == RawHonoured /\ IdsDistinct
=============================================================================
