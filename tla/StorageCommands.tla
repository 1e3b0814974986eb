--------------------------- MODULE StorageCommands ---------------------------
(* The vocabulary the storage drivers are written in. A driver function is a *)
(* plan: the sequence of commands (zfs, btrfs, lvm, rsync, file system calls)*)
(* it runs, each with what the function does when that command fails. The    *)
(* commands are those of tools outside this repository, modelled by the      *)
(* effects and the refusals the drivers rely on.                             *)
EXTENDS Naturals, Sequences, SequencesExt

CONSTANTS Containers, Snaps, Images

(* Datasets, subvolumes, logical volumes and directories, by path.           *)
Ct(c) == <<"containers", c>>
Sn(c, s) == <<"snapshots", c, s>>
Im(f) == <<"images", f>>

(* A dataset p, or its snapshot at.                                          *)
Fs(p) == <<p, <<>>>>
At(p, at) == <<p, at>>
NoObject == Fs(<<>>)

\* on, to: what the command reads and what it makes; must: its failure is returned;
\* undo: what is run before returning that failure
Cmd(do, on, to) == [do |-> do, on |-> on, to |-> to, must |-> TRUE, undo |-> <<>>]

Ignoring(cmd) == [cmd EXCEPT !.must = FALSE]

OrElse(cmd, undo) == [cmd EXCEPT !.undo = undo]

(* A call of another driver function, whose plan depends on what it finds    *)
(* when it is called.                                                        *)
Fn(fn, vol, arg) == [fn |-> fn, vol |-> vol, arg |-> arg]

CallOf(fn, vol, arg) == Cmd("call", Fn(fn, vol, arg), NoObject)

(* Something the function reads cannot be read.                              *)
Error == Cmd("fail", NoObject, NoObject)

(* Steps that change no volume and may fail: chmod, templates, id shifting.  *)
Prepare(p) == Cmd("prepare", Fs(p), NoObject)

(* What fails inside a call is what fails in its caller.                     *)
Under(plan, undo) ==
  [i \in DOMAIN plan |-> [plan[i] EXCEPT !.undo = @ \o undo]]

When(cond, plan) == IF cond THEN plan ELSE <<>>
-----------------------------------------------------------------------------
\* disk: path -> [data, origin, snaps], snaps in order of creation
Volume(data, origin) == [data |-> data, origin |-> origin, snaps |-> <<>>]

SnapIndex(disk, p, at) ==
  {i \in DOMAIN disk[p].snaps : disk[p].snaps[i].at = at}

Exists(disk, o) ==
  /\ o[1] \in DOMAIN disk
  /\ o[2] = <<>> \/ SnapIndex(disk, o[1], o[2]) # {}

DataOf(disk, o) ==
  IF o[2] = <<>> THEN disk[o[1]].data
  ELSE disk[o[1]].snaps[CHOOSE i \in SnapIndex(disk, o[1], o[2]) : TRUE].data

Clones(disk, o) == {p \in DOMAIN disk : disk[p].origin = o}

(* The path p and what lies below it.                                        *)
Tree(disk, p) == {q \in DOMAIN disk : IsPrefix(p, q)}

(* An object whose destruction takes others' origin away is not destroyed.   *)
Destroyable(disk, o) ==
  /\ Exists(disk, o)
  /\ IF o[2] # <<>> THEN Clones(disk, o) = {}
     ELSE \A q \in DOMAIN disk \ Tree(disk, o[1]) :
            disk[q].origin[1] \notin Tree(disk, o[1])

Moved(p, from, to) == IF IsPrefix(from, p) THEN to \o SubSeq(p, Len(from) + 1, Len(p)) ELSE p

(* Renaming a path moves everything below it, origins included.              *)
RenameTree(disk, from, to) ==
  [q \in {Moved(p, from, to) : p \in DOMAIN disk} |->
     LET p == CHOOSE x \in DOMAIN disk : Moved(x, from, to) = q
         o == disk[p].origin
     IN [disk[p] EXCEPT !.origin = <<Moved(o[1], from, to), o[2]>>]]

Without(disk, S) == [p \in DOMAIN disk \ S |-> disk[p]]

With(disk, p, v) == [q \in DOMAIN disk \cup {p} |-> IF q = p THEN v ELSE disk[q]]
-----------------------------------------------------------------------------
(* Commands that cannot work in the present state.                           *)
Refused(cmd, disk, links) ==
  CASE cmd.do = "fail"     -> TRUE
    [] cmd.do = "create"   -> cmd.to[1] \in DOMAIN disk
    [] cmd.do \in {"clone", "copy"} -> ~(Exists(disk, cmd.on) /\ cmd.to[1] \notin DOMAIN disk)
    [] cmd.do = "snapshot" -> ~(cmd.to[1] \in DOMAIN disk /\ ~Exists(disk, cmd.to))
    [] cmd.do = "rsync"    -> ~Exists(disk, cmd.on)
    [] cmd.do = "unpack"   -> cmd.to[1] \notin DOMAIN disk
    [] cmd.do = "destroy"  -> ~Destroyable(disk, cmd.on)
    [] cmd.do = "delete"   -> Tree(disk, cmd.on[1]) # {cmd.on[1]}
    [] cmd.do = "rename"   -> ~(cmd.on[1] \in DOMAIN disk /\ cmd.to[1] \notin DOMAIN disk)
    [] cmd.do = "renameat" -> ~(Exists(disk, cmd.on) /\ ~Exists(disk, cmd.to))
    [] cmd.do = "rollback" -> ~(/\ Exists(disk, cmd.on)
                                /\ Last(disk[cmd.on[1]].snaps).at = cmd.on[2])
    [] cmd.do = "link"     -> cmd.to[1] \in links
    [] cmd.do = "unlink"   -> cmd.on[1] \notin links
    [] OTHER               -> FALSE

(* What a command that works leaves on the disk. The image's data is its     *)
(* fingerprint; on of an unpack names the image.                             *)
DiskAfter(cmd, disk) ==
  LET on == cmd.on
      to == cmd.to
  IN CASE cmd.do = "create" -> With(disk, to[1], Volume("empty", NoObject))
       [] cmd.do = "mkdir"  -> IF to[1] \in DOMAIN disk THEN disk
                               ELSE With(disk, to[1], Volume("empty", NoObject))
       [] cmd.do = "clone"  -> With(disk, to[1], Volume(DataOf(disk, on), on))
       [] cmd.do = "copy"   -> With(disk, to[1], Volume(DataOf(disk, on), NoObject))
       [] cmd.do = "rsync"  -> IF to[1] \in DOMAIN disk
                               THEN [disk EXCEPT ![to[1]].data = DataOf(disk, on)]
                               ELSE With(disk, to[1], Volume(DataOf(disk, on), NoObject))
       [] cmd.do = "unpack" -> [disk EXCEPT ![to[1]].data = on[1][2]]
       [] cmd.do = "snapshot" ->
            [disk EXCEPT ![to[1]].snaps = Append(@, [at |-> to[2], data |-> DataOf(disk, Fs(to[1]))])]
       [] cmd.do = "destroy" ->
            IF on[2] = <<>> THEN Without(disk, Tree(disk, on[1]))
            ELSE [disk EXCEPT ![on[1]].snaps = SelectSeq(@, LAMBDA x : x.at # on[2])]
       [] cmd.do \in {"delete", "rmall"} -> Without(disk, Tree(disk, on[1]))
       [] cmd.do = "rename" -> RenameTree(disk, on[1], to[1])
       [] cmd.do = "renamedir" -> RenameTree(disk, on[1], to[1])
       [] cmd.do = "renameat" ->
            [p \in DOMAIN disk |->
               [disk[p] EXCEPT
                  !.origin = IF @ = on THEN to ELSE @,
                  !.snaps = [i \in DOMAIN @ |->
                               IF p = on[1] /\ @[i].at = on[2]
                               THEN [@[i] EXCEPT !.at = to[2]] ELSE @[i]]]]
       [] cmd.do = "rollback" -> [disk EXCEPT ![on[1]].data = DataOf(disk, on)]
       [] OTHER -> disk

(* A transfer that fails has written part of its target.                     *)
DiskBroken(cmd, disk) ==
  IF cmd.do \in {"rsync", "unpack"} /\ cmd.to[1] \in DOMAIN disk
  THEN [disk EXCEPT ![cmd.to[1]].data = "partial"] ELSE disk

LinksAfter(cmd, links) ==
  CASE cmd.do = "link" -> links \cup {cmd.to[1]}
    [] cmd.do \in {"unlink", "rmlink"} -> links \ {cmd.on[1]}
    [] cmd.do = "relink" -> {Moved(p, cmd.on[1], cmd.to[1]) : p \in links}
    [] OTHER -> links
=============================================================================
