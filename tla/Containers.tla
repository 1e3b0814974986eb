----------------------------- MODULE Containers ------------------------------
(* The requests that create, copy, snapshot, rename, restore and delete      *)
(* containers (lxd/containers_post.go, container_snapshot.go, container.go,  *)
(* container_lxc.go), over the containers table and an abstract storage. A   *)
(* request is a plan: the steps its functions make one after the other, each *)
(* with what they do when that step fails. Isolated containers are given a   *)
(* range of host ids of their own (findIdmap).                               *)
EXTENDS Naturals, Sequences, SequencesExt, FiniteSets

CONSTANTS Names, Snaps, Threads,
          Kinds,          \* kinds of requests
          Sizes,          \* security.idmap.size; 0 when not isolated
          RoughSizes,     \* the same, once something has failed or overlaps
          HostBase, HostRange, \* the ids the daemon may use
          DefaultSize,    \* the ids of containers that are not isolated
          MaxRequests,
          MaxCalm,        \* requests, while nothing fails and none overlap
          MaxHarm         \* failing steps and crashes in a behaviour

ASSUME HostAssumption ==
  /\ HostBase \in Nat /\ HostRange \in Nat /\ DefaultSize \in Nat \ {0}
  /\ Sizes \cup RoughSizes \subseteq Nat /\ MaxHarm \in Nat

VARIABLES rows,           \* containers table: key -> [id, size, base]
          vols,           \* storage: key -> the request that made the volume
          threads, served, harm,
          seen,           \* of the behaviour so far: a "crash"; an "overlap" of
                          \* requests; a delete or rename that "cut" into one, or
                          \* the undoing of a creation that took another's row; one
                          \* that got "stuck"; a container that was "restored" to a
                          \* snapshot with another id range
          torn            \* volumes that a failed rename has left without a row

vars == <<rows, vols, threads, served, harm, seen, torn>>

(* A container <<c>> and its snapshots <<c, s>>.                             *)
ContainerKeys == {<<c>> : c \in Names}
SnapshotKeys == {<<c, s>> : c \in Names, s \in Snaps}
Keys == ContainerKeys \cup SnapshotKeys

IsSnapshot(k) == Len(k) = 2
Of(k) == <<k[1]>>

Renamed(k, new) == IF IsSnapshot(k) THEN <<new[1], k[2]>> ELSE new
-----------------------------------------------------------------------------
(* Steps. A step that must work ends the plan when it fails, after its undo; *)
(* another one is left at that, with the skip steps that follow it.          *)
Step(do, k, x) == [do |-> do, k |-> k, x |-> x, must |-> TRUE, skip |-> 0, undo |-> <<>>]
Check(k) == Step("check", k, k)

\* Steps that are functions with steps of their own.
Calls == {"Delete", "containerDeleteSnapshots", "RenameSnapshots"}

OrElse(step, undo) == [step EXCEPT !.undo = undo]
Ignoring(step) == [step EXCEPT !.must = FALSE]
Quietly(plan) == [i \in DOMAIN plan |-> [plan[i] EXCEPT !.must = FALSE, !.skip = Len(plan) - i]]

ContainerRemove(k) == Step("remove", k, k)
Delete(k) == Ignoring(Step("Delete", k, k))

(* containerLXCCreate: whatever fails, the container is deleted, and its row *)
(* is removed once more by containerCreateInternal.                          *)
containerLXCCreate(k) ==
  LET undo == <<Delete(k), Ignoring(ContainerRemove(k))>>
  IN <<OrElse(Check(k), undo), OrElse(Step("findIdmap", k, k), undo),
       OrElse(Step("setbase", k, k), undo), OrElse(Check(k), undo)>>

containerCreateInternal(k) ==
  <<Check(k), Step("insert", k, k), OrElse(Check(k), <<ContainerRemove(k)>>)>> \o containerLXCCreate(k)

(* Mutant: only the row is taken back.                                       *)
ConfigureRemovingRow(k) == OrElse(Check(k), <<ContainerRemove(k)>>)

containerConfigureInternal(k) == OrElse(Check(k), <<Delete(k)>>)

containerCreateAsEmpty(k) ==
  containerCreateInternal(k)
  \o <<OrElse(Step("create", k, k), <<ContainerRemove(k)>>), containerConfigureInternal(k)>>

containerCreateFromImage(k) ==
  containerCreateInternal(k)
  \o <<OrElse(Check(k), <<ContainerRemove(k)>>),          \* ImageLastAccessUpdate
       OrElse(Step("create", k, k), <<ContainerRemove(k)>>), containerConfigureInternal(k)>>

containerCreateAsCopy(k, source) ==
  containerCreateInternal(k)
  \o <<OrElse(Step("copy", k, source), <<Delete(k)>>), containerConfigureInternal(k)>>

containerCreateAsSnapshot(k) ==
  <<Check(k)>> \o containerCreateInternal(k)              \* CRIU's dump first
  \o <<OrElse(Step("copy", k, Of(k)), <<ContainerRemove(k)>>)>>

SnapshotsOf(k) == {x \in DOMAIN rows : IsSnapshot(x) /\ Of(x) = k}

(* Each snapshot, whatever becomes of the one before it.                     *)
containerDeleteSnapshots(k) ==
  LET snaps == SetToSeq(SnapshotsOf(k))
      delete(x) == Quietly(<<Step("destroy", x, x), ContainerRemove(x)>>)
  IN [i \in 1..(2 * Cardinality(SnapshotsOf(k))) |-> delete(snaps[(i + 1) \div 2])[2 - (i % 2)]]

(* Mutant: a volume that is not there cannot be deleted.                     *)
DeleteForgetting(k) ==
  <<Step("containerDeleteSnapshots", k, k), Step("restore", k, k), Step("destroy", k, k), ContainerRemove(k)>>

DeletePlan(k) ==
  IF IsSnapshot(k) THEN <<Step("destroy", k, k), ContainerRemove(k)>>
  ELSE <<Step("containerDeleteSnapshots", k, k), Step("destroy", k, k), ContainerRemove(k)>>

RenameSnapshots(k, new) ==
  LET snaps == SetToSeq(SnapshotsOf(k))
  IN [i \in 1..Cardinality(SnapshotsOf(k)) |-> Step("renamerow", snaps[i], Renamed(snaps[i], new))]

Rename(k, new) ==
  <<Check(k), Step("move", k, new), Step("renamerow", k, new), Step("RenameSnapshots", k, new)>>

Restore(k, snap) == <<Check(k), Step("restore", k, snap), Step("update", k, snap)>>

PlanOf(step) ==
  CASE step.do = "Delete" -> Quietly(DeletePlan(step.k))
    [] step.do = "containerDeleteSnapshots" -> containerDeleteSnapshots(step.k)
    [] step.do = "RenameSnapshots" -> RenameSnapshots(step.k, step.x)
-----------------------------------------------------------------------------
(* The ranges of the isolated containers, all but the one asking, by base.   *)
mapentries(k) ==
  LET isolated == {x \in DOMAIN rows : ~IsSnapshot(x) /\ x # k /\ rows[x].size > 0}
      entries == {[key |-> x, base |-> rows[x].base, end |-> rows[x].base + rows[x].size] : x \in isolated}
      N == Cardinality(entries)
  IN CHOOSE e \in [1..N -> entries] :
       /\ \A f \in entries : \E i \in 1..N : e[i] = f
       /\ \A i, j \in 1..N : i < j => e[i].base <= e[j].base

(* Mutant: a gap is taken when the range only touches the next one's start,  *)
(* its last id included.                                                     *)
ScanTooFar(e, size, at, i) ==
  CASE at.found -> at
    [] ~at.found /\ i = 1 /\ e[1].base < at.offset -> [at EXCEPT !.offset = e[1].end]
    [] ~at.found /\ i = 1 -> [at EXCEPT !.found = TRUE]
    [] OTHER -> [at EXCEPT !.offset = e[i].end]

(* One turn of the loop over the entries: the first gap that is wide enough. *)
Scan(e, size, at, i) ==
  LET last == IF i = 1 THEN 0 ELSE e[i - 1].end
  IN CASE at.found -> at
       [] ~at.found /\ i = 1 ->
            IF e[1].base < at.offset + size THEN [at EXCEPT !.offset = e[1].end]
            ELSE [at EXCEPT !.found = TRUE]
       [] ~at.found /\ i > 1 /\ last > at.offset -> [at EXCEPT !.offset = last]
       [] ~at.found /\ i > 1 /\ last <= at.offset ->
            IF last + size < e[i].base THEN [offset |-> last, found |-> TRUE]
            ELSE [at EXCEPT !.offset = e[i].end]

NoRange == HostBase + HostRange

(* The first id of a range for k, or NoRange; 0 when k is not isolated.      *)
findIdmap(k, size) ==
  LET e == mapentries(k)
      at[i \in 0..Len(e)] ==
        IF i = 0 THEN [offset |-> HostBase + DefaultSize, found |-> FALSE]
        ELSE Scan(e, size, at[i - 1], i)
      end == at[Len(e)]
  IN CASE size = 0 -> 0
       [] size > 0 /\ (end.found \/ end.offset + size < HostBase + HostRange) -> end.offset
       [] OTHER -> NoRange
-----------------------------------------------------------------------------
Creates == {"none", "image", "copy", "snapshot"}

Idle == [phase |-> "idle", kind |-> "none", k |-> <<>>, size |-> 0, id |-> 0, base |-> 0,
         todo |-> <<>>, failed |-> FALSE, fault |-> FALSE, inserted |-> FALSE]

Busy(t) == threads[t].phase = "busy"
Quiet == \A t \in Threads : threads[t].phase = "idle"

Calm == harm = 0 /\ seen \subseteq {"restored"} /\ Quiet

Serve(t, kind, k, size, plan) ==
  /\ kind \in Kinds
  /\ threads[t].phase = "idle"
  /\ served < (IF Calm THEN MaxCalm ELSE MaxRequests)
  /\ served' = served + 1
  /\ seen' = seen \cup {w \in {"overlap", "cut"} : \E u \in Threads :
                          /\ threads[u].phase # "idle"
                          /\ w = "cut" => kind \in {"delete", "rename"} /\ threads[u].k = k}
  /\ threads' = [threads EXCEPT ![t] =
       [Idle EXCEPT !.phase = "busy", !.kind = kind, !.k = k, !.size = size,
                    !.id = served + 1, !.todo = plan]]
  /\ UNCHANGED <<rows, vols, harm, torn>>

(* containersPost, by its source.                                            *)
createFromNone(t, k, size) == Serve(t, "none", k, size, containerCreateAsEmpty(k))

createFromImage(t, k, size) == Serve(t, "image", k, size, containerCreateFromImage(k))

createFromCopy(t, k, source) ==
  /\ source \in DOMAIN rows
  /\ Serve(t, "copy", k, rows[source].size, containerCreateAsCopy(k, source))

containerSnapshotsPost(t, k) ==
  /\ Of(k) \in DOMAIN rows
  /\ Serve(t, "snapshot", k, rows[Of(k)].size, containerCreateAsSnapshot(k))

containerDelete(t, k) == k \in DOMAIN rows /\ Serve(t, "delete", k, 0, DeletePlan(k))

snapshotDelete(t, k) == k \in DOMAIN rows /\ Serve(t, "delete", k, 0, DeletePlan(k))

(* The name is looked up before the operation starts. A rename and another   *)
(* request about the new name are not served together.                       *)
containerPost(t, k, new) ==
  /\ k \in DOMAIN rows /\ new \notin DOMAIN rows
  /\ \A u \in Threads : threads[u].k # new
  /\ Serve(t, "rename", k, 0, Rename(k, new))

containerSnapRestore(t, snap) ==
  /\ {snap, Of(snap)} \subseteq DOMAIN rows
  /\ Serve(t, "restore", Of(snap), 0, Restore(Of(snap), snap))

Renaming(k) == \E u \in Threads : threads[u].kind = "rename" /\ \E i \in DOMAIN threads[u].todo :
                 Of(threads[u].todo[i].x) = Of(k)

Request(t) ==
  \/ \E k \in ContainerKeys, size \in IF Calm THEN Sizes ELSE RoughSizes :
       ~Renaming(k) /\ (createFromNone(t, k, size) \/ createFromImage(t, k, size))
  \/ \E k \in ContainerKeys, source \in Keys : ~Renaming(k) /\ createFromCopy(t, k, source)
  \/ \E k \in SnapshotKeys : containerSnapshotsPost(t, k) \/ snapshotDelete(t, k)
  \/ \E k \in ContainerKeys : containerDelete(t, k)
  \/ \E k, new \in ContainerKeys : containerPost(t, k, new)
  \/ \E k \in SnapshotKeys : containerSnapRestore(t, k)
-----------------------------------------------------------------------------
Without(f, S) == [k \in DOMAIN f \ S |-> f[k]]
With(f, k, v) == [x \in DOMAIN f \cup {k} |-> IF x = k THEN v ELSE f[x]]

(* The volume and those of its snapshots under the new name.                 *)
Tree(f, c) == {x \in f : Of(x) = c}
MovedTo(S, to) == {Renamed(x, to) : x \in S}

MovedTree(f, from, to) ==
  LET others == DOMAIN f \ Tree(DOMAIN f, from)
  IN [y \in others \cup MovedTo(Tree(DOMAIN f, from), to) |->
        IF y \in others THEN f[y] ELSE f[Renamed(y, from)]]

(* Mutant: the name is looked up too early to see a row inserted since.      *)
RefusedIfOld(step, t) ==
  CASE step.do = "insert" ->
         step.k \in DOMAIN rows /\ \A u \in Threads : threads[u].id # rows[step.k].id
    [] step.do = "remove" -> step.k \notin DOMAIN rows
    [] step.do \in {"create", "copy"} -> step.k \in DOMAIN vols
    [] OTHER -> FALSE

Refused(step, t) ==
  CASE step.do = "insert" -> step.k \in DOMAIN rows
    [] step.do = "remove" -> step.k \notin DOMAIN rows
    [] step.do = "renamerow" -> step.x \in DOMAIN rows
    [] step.do = "findIdmap" -> findIdmap(step.k, threads[t].size) = NoRange
    [] step.do = "create" -> step.k \in DOMAIN vols
    [] step.do = "copy" -> ~(step.x \in DOMAIN vols /\ step.k \notin DOMAIN vols)
    [] step.do = "move" -> ~(step.k \in DOMAIN vols /\ step.x \notin DOMAIN vols)
    [] step.do = "restore" -> ~({step.k, step.x} \subseteq DOMAIN vols)
    [] OTHER -> FALSE

(* Statements that find no row change nothing.                               *)
RowsAfter(step, t) ==
  CASE step.do = "insert" -> With(rows, step.k, [id |-> threads[t].id, size |-> threads[t].size, base |-> 0])
    [] step.do = "remove" -> Without(rows, {step.k})
    [] step.do = "renamerow" /\ step.k \in DOMAIN rows ->
         With(Without(rows, {step.k}), step.x, rows[step.k])
    [] step.do = "setbase" -> [k \in DOMAIN rows |->
         IF rows[k].id = threads[t].id THEN [rows[k] EXCEPT !.base = threads[t].base] ELSE rows[k]]
    [] step.do = "update" /\ {step.k, step.x} \subseteq DOMAIN rows ->
         [rows EXCEPT ![step.k].size = rows[step.x].size, ![step.k].base = rows[step.x].base]
    [] OTHER -> rows

VolsAfter(step, t) ==
  CASE step.do \in {"create", "copy"} -> With(vols, step.k, threads[t].id)
    [] step.do = "destroy" -> Without(vols, {step.k})
    [] step.do = "move" -> MovedTree(vols, step.k, step.x)
    [] OTHER -> vols

TornAfter(step) ==
  CASE step.do = "destroy" -> torn \ {step.k}
    [] step.do = "move" -> (torn \ Tree(torn, step.k)) \cup MovedTo(Tree(torn, step.k), step.x)
    [] OTHER -> torn

SeenAfter(step, t) ==
  CASE step.do = "remove" /\ threads[t].kind \in Creates /\ step.k = threads[t].k
         /\ rows[step.k].id # threads[t].id -> seen \cup {"cut"}
    [] step.do = "update" /\ RowsAfter(step, t) # rows -> seen \cup {"restored"}
    [] OTHER -> seen

After(step, rest) == IF step.do \in Calls THEN PlanOf(step) \o rest ELSE rest

Goes(t, todo, failed) ==
  [threads[t] EXCEPT !.todo = todo, !.failed = failed,
                     !.phase = IF todo # <<>> THEN "busy" ELSE IF failed THEN "error" ELSE "ok"]

Run(t) ==
  /\ Busy(t)
  /\ LET step == Head(threads[t].todo)
     IN /\ ~Refused(step, t)
        /\ rows' = RowsAfter(step, t)
        /\ vols' = VolsAfter(step, t)
        /\ threads' = [threads EXCEPT ![t] =
             [Goes(t, After(step, Tail(threads[t].todo)), threads[t].failed) EXCEPT
                !.base = IF step.do = "findIdmap" THEN findIdmap(step.k, threads[t].size) ELSE @,
                !.inserted = @ \/ step.do = "insert"]]
        /\ seen' = SeenAfter(step, t)
        /\ torn' = TornAfter(step)
  /\ UNCHANGED <<served, harm>>

(* The step is refused, or fails for a reason of its own.                    *)
Fails(t) ==
  LET step == Head(threads[t].todo)
      todo == IF step.must THEN step.undo
              ELSE SubSeq(threads[t].todo, 2 + step.skip, Len(threads[t].todo))
  IN /\ threads' = [threads EXCEPT ![t] = [Goes(t, todo, threads[t].failed \/ step.must) EXCEPT
                       !.fault = @ \/ ~Refused(step, t)]]
     /\ torn' = IF step.do = "renamerow"
                THEN torn \cup {x \in Tree(DOMAIN vols, Of(step.x)) : x \notin DOMAIN rows \/ x = step.x}
                ELSE torn
     /\ UNCHANGED <<rows, vols, served>>

Refuse(t) ==
  /\ Busy(t) /\ Refused(Head(threads[t].todo), t)
  /\ Fails(t)
  /\ UNCHANGED <<harm, seen>>

(* Nothing is done to the volume of a container that has none.               *)
Absent(step) == step.do = "destroy" /\ ~IsSnapshot(step.k) /\ step.k \notin DOMAIN vols

Fault(t) ==
  /\ Busy(t)
  /\ LET step == Head(threads[t].todo)
     IN ~Refused(step, t) /\ step.do \notin Calls /\ ~Absent(step)
  /\ harm < MaxHarm /\ harm' = harm + 1
  /\ seen' = IF threads[t].failed THEN seen \cup {"stuck"} ELSE seen
  /\ Fails(t)

Return(t) ==
  /\ threads[t].phase \in {"ok", "error"}
  /\ threads' = [threads EXCEPT ![t] = Idle]
  /\ UNCHANGED <<rows, vols, served, harm, seen, torn>>

Crash ==
  /\ \E t \in Threads : Busy(t)
  /\ harm < MaxHarm /\ harm' = harm + 1
  /\ seen' = seen \cup {"crash"}
  /\ torn' = torn \cup {x \in DOMAIN vols \ DOMAIN rows : Renaming(x)}
  /\ threads' = [t \in Threads |-> Idle]
  /\ UNCHANGED <<rows, vols, served>>

Init ==
  /\ rows = <<>> /\ vols = <<>> /\ served = 0 /\ harm = 0
  /\ seen = {} /\ torn = {}
  /\ threads = [t \in Threads |-> Idle]

Next == (\E t \in Threads : Request(t) \/ Run(t) \/ Refuse(t) \/ Fault(t) \/ Return(t)) \/ Crash

Spec == Init /\ [][Next]_vars
-----------------------------------------------------------------------------
(* Every variable has its type, rows come from requests, and what a failed   *)
(* rename has left is there.                                                 *)
TypeOK ==
  /\ DOMAIN rows \subseteq Keys /\ DOMAIN vols \subseteq Keys /\ torn \subseteq DOMAIN vols
  /\ \A k \in DOMAIN rows : rows[k].id \in 1..served /\ rows[k].base \in Nat
  /\ \A t \in Threads : threads[t].phase \in {"idle", "busy", "ok", "error"}
  /\ harm \in 0..MaxHarm

Apart == "overlap" \notin seen

(* Once requests are done, one after the other, a volume has its row, so     *)
(* that it can be seen and deleted, whatever failed or was killed before;    *)
(* only a rename that fails in the database leaves one without.              *)
NoOrphanVolume == Quiet /\ Apart => DOMAIN vols \subseteq DOMAIN rows \cup torn

(* A creation that fails takes back everything it did, unless taking it back *)
(* fails too.                                                                *)
AllOrNothing ==
  \A t \in Threads :
    (threads[t].phase = "error" /\ threads[t].kind \in Creates /\ threads[t].inserted
       /\ Apart /\ "stuck" \notin seen) =>
      threads[t].k \notin DOMAIN rows \cup (DOMAIN vols \ torn)

(* A delete in which nothing fails works, and leaves neither row nor volume, *)
(* whatever state earlier failures and crashes have left.                    *)
DeleteWorks ==
  \A t \in Threads :
    (threads[t].kind = "delete" /\ ~threads[t].fault /\ Apart) =>
      /\ ~threads[t].failed
      /\ threads[t].phase = "ok" => threads[t].k \notin DOMAIN rows \cup DOMAIN vols

(* Served one after the other and without failures, a container that goes    *)
(* takes its snapshots along, and one that is renamed brings them.           *)
SnapshotsHaveContainer ==
  (Quiet /\ Apart /\ harm = 0) =>
    \A k \in DOMAIN rows : IsSnapshot(k) => Of(k) \in DOMAIN rows /\ k \in DOMAIN vols

Isolated == {k \in DOMAIN rows : ~IsSnapshot(k) /\ rows[k].size > 0 /\ rows[k].base > 0}

RangeOf(k) == rows[k].base..(rows[k].base + rows[k].size - 1)

(* Isolated containers have ranges of their own, within the daemon's, as     *)
(* long as they are created one after the other, none is left half created   *)
(* and none has been given the range of a snapshot.                          *)
IsolatedDisjoint ==
  seen = {} =>
    \A j, k \in Isolated :
      /\ RangeOf(j) \subseteq (HostBase + DefaultSize)..(HostBase + HostRange - 1)
      /\ j # k => RangeOf(j) \cap RangeOf(k) = {}

(* A container's volume is destroyed by a request to delete it or by the     *)
(* undoing of the request that made it, also when requests overlap. Three    *)
(* cases are excepted: a delete or rename of what another request still      *)
(* works on; the second ContainerRemove of a creation that failed, which may *)
(* find the row of the next one; and the volume that a failed rename has     *)
(* left under the new name, which a copy to that name destroys on giving up. *)
KeepsData ==
  "cut" \notin seen =>
    \A k \in (DOMAIN vols \cap ContainerKeys) \ torn : vols[k] \in Range(vols') \/
      \E t \in Threads :
        \/ threads[t].kind = "delete" /\ threads[t].k = k
        \/ threads[t].failed /\ threads[t].id = vols[k]

DataKept == [][KeepsData]_vars

(* Rows and volumes belong together: a volume has a row that can delete it,  *)
(* a failed creation leaves neither, and a snapshot has its container.       *)
ContainersInv == TypeOK /\ NoOrphanVolume /\ AllOrNothing /\ SnapshotsHaveContainer
=============================================================================
