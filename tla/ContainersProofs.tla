-------------------------- MODULE ContainersProofs ---------------------------
(* Proofs about Containers, for any containers, snapshots, requests, ranges, *)
(* failures and crashes: rows and volumes belong together, deletes work, and *)
(* isolated containers have ranges of their own.                             *)
EXTENDS Containers, FiniteSetTheorems, SequenceTheorems, TLAPS

Dos == {"check", "insert", "findIdmap", "setbase", "create", "copy", "remove",
        "destroy", "restore", "move", "renamerow", "update"} \cup Calls
DeleteAndRemove(k) == <<Delete(k), Ignoring(ContainerRemove(k))>>
Undos == {<<>>} \cup {<<ContainerRemove(k)>> : k \in Keys}
         \cup {<<Delete(k)>> : k \in Keys} \cup {DeleteAndRemove(k) : k \in Keys}
Steps == [do : Dos, k : Keys, x : Keys, must : BOOLEAN, skip : Nat, undo : Undos]

Kinds7 == Creates \cup {"delete", "rename", "restore"}
Records == [phase : {"idle", "busy", "ok", "error"}, kind : Kinds7, k : Keys \cup {<<>>},
            size : Nat, id : Nat, base : Nat, todo : Seq(Steps),
            failed : BOOLEAN, fault : BOOLEAN, inserted : BOOLEAN]
RowSet == [id : Nat, size : Nat, base : Nat]
Marks == {"crash", "overlap", "cut", "stuck", "restored"}

ThreadType(th) ==
  /\ th.phase \in {"busy"} <=> th.todo # <<>>
  /\ th.phase = "idle" => th = Idle
  /\ th.phase # "idle" => th.k \in Keys /\ th.id \in 1..served
  /\ th.phase = "ok" => ~th.failed
  /\ th.phase = "error" => th.failed
  /\ th.kind = "snapshot" => th.k \in SnapshotKeys
  /\ th.kind \notin {"snapshot", "delete"} /\ th.phase # "idle" => th.k \in ContainerKeys

TypeInv ==
  /\ rows = [k \in DOMAIN rows |-> rows[k]] /\ DOMAIN rows \subseteq Keys /\ IsFiniteSet(DOMAIN rows)
  /\ \A k \in DOMAIN rows : rows[k] \in RowSet /\ rows[k].id \in 1..served
  /\ vols = [k \in DOMAIN vols |-> vols[k]] /\ DOMAIN vols \subseteq Keys
  /\ torn \subseteq DOMAIN vols
  /\ threads \in [Threads -> Records] /\ \A t \in Threads : ThreadType(threads[t])
  /\ served \in Nat /\ harm \in 0..MaxHarm /\ seen \subseteq Marks

-----------------------------------------------------------------------------
(* The plans, by what is left of them.                                       *)

\* The keys of what goes with k.
Family(k) == {x \in Keys : x = k \/ (IsSnapshot(x) /\ Of(x) = k)}

\* How far a creation is: checks, its row, its range, its volume, its configuration.
Rank(step) ==
  CASE step.do = "insert" -> 1
    [] step.do \in {"findIdmap", "setbase"} -> 2
    [] step.do \in {"create", "copy"} -> 3
    [] OTHER -> IF step.undo = <<>> THEN 0 ELSE IF step.undo = <<Delete(step.k)>> THEN 4 ELSE 2

MakingUndo(step) ==
  CASE Rank(step) \in {0, 1} -> {<<>>}
    [] Rank(step) = 2 -> {<<ContainerRemove(step.k)>>, DeleteAndRemove(step.k)}
    [] Rank(step) = 3 -> {<<ContainerRemove(step.k)>>, <<Delete(step.k)>>}
    [] OTHER -> {<<Delete(step.k)>>}

Holds(todo, do) == \E i \in DOMAIN todo : todo[i].do = do
Ranked(todo, n) == \E i \in DOMAIN todo : Rank(todo[i]) = n

Making(th) ==
  LET todo == th.todo IN
  /\ \A i \in DOMAIN todo :
       /\ todo[i].k = th.k /\ todo[i].must
       /\ todo[i].do \in {"check", "insert", "findIdmap", "setbase", "create", "copy"}
       /\ todo[i].undo \in MakingUndo(todo[i])
       /\ todo[i].do = "setbase" => i = 1 \/ todo[i - 1].do = "findIdmap"
       /\ todo[i].do = "insert" => Holds(todo, "setbase")
       /\ Rank(todo[i]) < 3 => Ranked(todo, 3)
       /\ th.inserted => Rank(todo[i]) >= 2
  /\ \A i, j \in DOMAIN todo :
       i < j => \/ Rank(todo[i]) < Rank(todo[j])
                \/ Rank(todo[i]) = Rank(todo[j]) /\ Rank(todo[i]) \notin {1, 3}
  /\ todo # <<>> /\ ~th.inserted => Holds(todo, "insert")
  /\ todo = <<>> /\ th.phase # "idle" => th.inserted

\* Steps that take a container or snapshot and what goes with it away: the volume
\* before the row, which stays when the volume does.
Drops(todo, k) ==
  \A i \in DOMAIN todo :
    /\ todo[i].do \in {"Delete", "containerDeleteSnapshots", "destroy", "remove"}
    /\ todo[i].k \in Family(k) /\ todo[i].undo = <<>>
    /\ todo[i].do \in Calls => todo[i].k = k
    /\ todo[i].do = "destroy" => /\ i + 1 \in DOMAIN todo
                                 /\ todo[i + 1].do = "remove" /\ todo[i + 1].k = todo[i].k
                                 /\ todo[i].must \/ todo[i].skip = 1
    /\ todo[i].do = "remove" => todo[i].must \/ todo[i].skip = 0

Dropping(th) == Drops(th.todo, th.k)

Undoing(th) ==
  /\ Dropping(th)
  /\ \A i \in DOMAIN th.todo :
       th.todo[i].must /\ th.todo[i].do \notin Calls => Len(th.todo) = 1

Deleting(th) ==
  LET todo == th.todo
      N == Len(todo) IN
  /\ Dropping(th)
  /\ \A i \in DOMAIN todo : todo[i].do # "Delete"
  /\ todo # <<>> => todo[N].do = "remove" /\ todo[N].k = th.k
  /\ \A i \in DOMAIN todo : i < N /\ todo[i].do = "remove" => ~todo[i].must /\ todo[i].k # th.k
  /\ th.failed => todo = <<>>

\* The steps of a rename after its checks: the volumes, the row, the snapshots' rows.
RenamingPlan(th) ==
  LET todo == th.todo IN
  /\ \A i \in DOMAIN todo :
       /\ todo[i].do \in {"check", "move", "renamerow", "RenameSnapshots"}
       /\ todo[i].must /\ todo[i].undo = <<>>
       /\ todo[i].do \in {"move", "RenameSnapshots"} => todo[i].k = th.k /\ todo[i].x \in ContainerKeys
       /\ todo[i].do = "renamerow" => /\ Of(todo[i].k) = th.k
                                      /\ todo[i].x = Renamed(todo[i].k, Of(todo[i].x))
       /\ todo[i].do # "check" => Of(todo[i].x) # th.k
       /\ todo[i].do = "check" => i = 1 /\ Len(todo) = 4 /\ todo[2].do = "move"
       /\ todo[i].do = "move" => i + 2 = Len(todo) /\ todo[i + 1].do = "renamerow"
                                 /\ todo[i + 1].k = th.k /\ todo[i + 2].do = "RenameSnapshots"
  /\ \A i, j \in DOMAIN todo : i < j =>
       /\ todo[i].do # "check" => Of(todo[i].x) = Of(todo[j].x)
       /\ todo[j].do = "move" => todo[i].do = "check"
       /\ todo[i].do = "renamerow" /\ todo[j].do = "renamerow" => todo[i].k # todo[j].k
       /\ todo[j].do = "renamerow" /\ todo[j].k = th.k => todo[i].do \in {"check", "move"}
       /\ todo[j].do = "RenameSnapshots" => todo[i].do \in {"check", "move"} \/ todo[i].k = th.k
       /\ todo[i].do # "RenameSnapshots"
  /\ th.failed => todo = <<>>

Restoring(th) ==
  /\ \A i \in DOMAIN th.todo : /\ th.todo[i].do \in {"check", "restore", "update"} /\ th.todo[i].must
                               /\ th.todo[i].undo = <<>>
                               /\ th.todo[i].do = "update" => th.todo[i].k \in ContainerKeys
  /\ th.failed => th.todo = <<>>

PlanInv(th) ==
  /\ th.kind \in Creates /\ ~th.failed => Making(th)
  /\ th.kind \in Creates /\ th.failed => Undoing(th)
  /\ th.kind = "delete" => Deleting(th)
  /\ th.kind = "rename" => RenamingPlan(th)
  /\ th.kind = "restore" => Restoring(th)

Plans == \A t \in Threads : PlanInv(threads[t])

-----------------------------------------------------------------------------
(* One request after the other.                                              *)

Alone == \A t, u \in Threads : t # u /\ threads[t].phase # "idle" => threads[u].phase = "idle"

Kept(k) == k \in DOMAIN vols \ torn

\* A creation has its row, and its volume when it has got that far.
Created(th) ==
  th.kind \in Creates /\ th.inserted /\ ~th.failed =>
    /\ th.k \in DOMAIN rows /\ rows[th.k].id = th.id /\ rows[th.k].size = th.size
    /\ th.todo # <<>> /\ Rank(th.todo[1]) <= 3 => ~Kept(th.k)
    /\ th.todo = <<>> \/ Rank(th.todo[1]) = 4 => th.k \in DOMAIN vols

Pending(todo, do, k) == \E i \in DOMAIN todo : todo[i].do = do /\ todo[i].k = k

\* What a failed creation has not taken back yet it still will.
Undone(th) ==
  th.kind \in Creates /\ th.inserted /\ th.failed /\ "stuck" \notin seen =>
    /\ th.k \in DOMAIN rows => Pending(th.todo, "remove", th.k) \/ Holds(th.todo, "Delete")
    /\ Kept(th.k) => Pending(th.todo, "destroy", th.k) \/ Holds(th.todo, "Delete")

Bare(todo, i) == todo[i].do = "remove" /\ ~(i > 1 /\ todo[i - 1].do = "destroy")

\* A row is only removed when its volume is gone.
Loose(th) == \A i \in DOMAIN th.todo : Bare(th.todo, i) => ~Kept(th.todo[i].k)

Deleted(th) ==
  th.kind = "delete" /\ ~th.fault =>
    /\ ~th.failed
    /\ th.todo # <<>> => th.k \in DOMAIN rows
    /\ th.k \in DOMAIN vols => Pending(th.todo, "destroy", th.k)
    /\ th.todo = <<>> => th.k \notin DOMAIN rows

Past(th) == th.kind = "rename" /\ th.todo # <<>> /\ th.todo[1].do \in {"renamerow", "RenameSnapshots"}

Moved(th) == Past(th) => Tree(DOMAIN vols, th.k) = {}

\* A volume that has been renamed and whose row is about to be.
AwaitedBy(th, y) ==
  /\ Past(th)
  /\ \E i \in DOMAIN th.todo :
       LET step == th.todo[i] IN
       \/ step.do = "renamerow" /\ step.x = y /\ step.k \in DOMAIN rows
       \/ step.do = "RenameSnapshots" /\ IsSnapshot(y) /\ Of(y) = step.x
          /\ Renamed(y, step.k) \in DOMAIN rows

Awaited(y) == \E t \in Threads : AwaitedBy(threads[t], y)

NoOrphan == \A y \in DOMAIN vols : Kept(y) => y \in DOMAIN rows \/ Awaited(y)

\* The row of a request under way.
OwnRows(th) ==
  th.phase # "idle" => \A j \in DOMAIN rows :
    rows[j].id = th.id => th.kind \in Creates /\ th.inserted /\ j = th.k

Solo(th) == Created(th) /\ Undone(th) /\ Loose(th) /\ Deleted(th) /\ Moved(th) /\ OwnRows(th)

ApartInv == Apart => Alone /\ NoOrphan /\ \A t \in Threads : Solo(threads[t])

-----------------------------------------------------------------------------
(* ... of which none fails: snapshots have their container.                  *)

\* A row that the rename under way will give another name.
LeavingBy(th, x) ==
  /\ Past(th)
  /\ \E i \in DOMAIN th.todo :
       LET step == th.todo[i] IN
       \/ step.do = "renamerow" /\ step.k = x /\ step.x \in DOMAIN vols
       \/ step.do = "RenameSnapshots" /\ IsSnapshot(x) /\ Of(x) = step.k
          /\ Renamed(x, step.x) \in DOMAIN vols

\* One that is not there yet, or no longer.
UnfinishedBy(th, x) ==
  \/ th.kind \in Creates /\ th.inserted /\ th.k = x /\ th.phase = "busy"
  \/ th.kind = "delete" /\ Pending(th.todo, "remove", x)

Belongs(x) ==
  /\ Of(x) \in DOMAIN rows \/ \E t \in Threads : LeavingBy(threads[t], x)
  /\ x \in DOMAIN vols \/ \E t \in Threads : LeavingBy(threads[t], x) \/ UnfinishedBy(threads[t], x)

SnapMaking(th) ==
  th.kind \in Creates =>
    /\ th.kind = "snapshot" /\ th.phase # "idle" => Of(th.k) \in DOMAIN rows
    /\ th.kind # "snapshot" /\ th.inserted => SnapshotsOf(th.k) = {}
    /\ th.failed /\ th.todo # <<>> => th.inserted

SnapDeleting(th) ==
  th.kind = "delete" /\ th.todo # <<>> /\ th.k \in ContainerKeys =>
    \A x \in SnapshotsOf(th.k) : Holds(th.todo, "containerDeleteSnapshots") \/ Pending(th.todo, "remove", x)

SnapRenaming(th) ==
  th.kind = "rename" =>
    \A i \in DOMAIN th.todo : LET step == th.todo[i] IN
      /\ step.do = "move" => step.k \in DOMAIN rows /\ SnapshotsOf(step.x) = {}
      /\ step.do = "renamerow" =>
           /\ step.k \in DOMAIN rows /\ step.x \notin DOMAIN rows
           /\ IsSnapshot(step.k) => Of(step.x) \in DOMAIN rows
      /\ step.do = "RenameSnapshots" => SnapshotsOf(step.x) = {} /\ (i = 1 => step.x \in DOMAIN rows)

SnapThread(th) == SnapMaking(th) /\ SnapDeleting(th) /\ SnapRenaming(th)

SnapInv ==
  Apart /\ harm = 0 =>
    /\ "stuck" \notin seen
    /\ \A x \in DOMAIN rows : IsSnapshot(x) => Belongs(x)
    /\ \A t \in Threads : SnapThread(threads[t])

-----------------------------------------------------------------------------
(* Ranges.                                                                   *)

Claims(j) == j \in ContainerKeys /\ j \in DOMAIN rows /\ rows[j].size > 0

Beside(j, base, size) == base + size <= rows[j].base \/ rows[j].base + rows[j].size <= base

Fits(k, base, size) ==
  size > 0 => /\ HostBase + DefaultSize <= base /\ base + size <= HostBase + HostRange
              /\ \A j \in ContainerKeys : Claims(j) /\ j # k /\ rows[j].base > 0 => Beside(j, base, size)

Ranges ==
  seen = {} =>
    /\ \A j \in ContainerKeys : Claims(j) =>
         \/ Fits(j, rows[j].base, rows[j].size)
         \/ /\ rows[j].base = 0
            /\ \E t \in Threads : /\ threads[t].kind \in Creates /\ threads[t].inserted
                                  /\ threads[t].phase # "idle" /\ threads[t].k = j
    /\ \A t \in Threads : LET th == threads[t] IN
         (th.kind \in Creates /\ th.inserted /\ ~th.failed /\ th.k \in ContainerKeys) =>
            IF Holds(th.todo, "setbase")
            THEN th.todo[1].do = "setbase" => Fits(th.k, th.base, th.size)
            ELSE Fits(th.k, rows[th.k].base, rows[th.k].size)


-----------------------------------------------------------------------------
(* Keys.                                                                     *)

\* A key is a container's or a snapshot's.
LEMMA KeyFacts ==
  /\ \A k \in ContainerKeys : k \in Keys /\ ~IsSnapshot(k) /\ Of(k) = k
  /\ \A k \in SnapshotKeys : k \in Keys /\ IsSnapshot(k)
  /\ \A k \in Keys : (k \in ContainerKeys <=> ~IsSnapshot(k)) /\ (k \in SnapshotKeys <=> IsSnapshot(k))
  /\ \A k \in Keys : Of(k) \in ContainerKeys /\ k # <<>>
<1>1. \A c \in Names : Len(<<c>>) = 1 /\ Of(<<c>>) = <<c>> /\ <<c>> # <<>>
  BY DEF Of
<1>2. \A c \in Names, s \in Snaps : Len(<<c, s>>) = 2 /\ Of(<<c, s>>) = <<c>> /\ <<c, s>> # <<>>
  BY DEF Of
<1> QED
  BY <1>1, <1>2 DEF Keys, ContainerKeys, SnapshotKeys, IsSnapshot

\* Renaming keeps what a key is.
LEMMA RenamedFacts ==
  ASSUME NEW k \in Keys, NEW n \in ContainerKeys
  PROVE  /\ Renamed(k, n) \in Keys /\ (IsSnapshot(Renamed(k, n)) <=> IsSnapshot(k))
         /\ Of(Renamed(k, n)) = n /\ Renamed(k, Of(k)) = k
         /\ ~IsSnapshot(k) => Renamed(k, n) = n
         /\ \A m \in ContainerKeys : Renamed(Renamed(k, n), m) = Renamed(k, m)
<1>1. PICK c \in Names : n = <<c>>
  BY DEF ContainerKeys
<1>2. CASE k \in ContainerKeys
  <2>1. ~IsSnapshot(k) /\ Of(k) = k /\ ~IsSnapshot(n) /\ Of(n) = n /\ n \in Keys
    BY <1>2, KeyFacts
  <2> QED
    BY <2>1 DEF Renamed
<1>3. CASE k \in SnapshotKeys
  <2>1. PICK b \in Names, s \in Snaps : k = <<b, s>>
    BY <1>3 DEF SnapshotKeys
  <2>2. IsSnapshot(k) /\ Renamed(k, n) = <<c, s>> /\ <<c, s>> \in SnapshotKeys
    BY <1>1, <1>3, <2>1, KeyFacts DEF Renamed, SnapshotKeys
  <2>3. IsSnapshot(<<c, s>>) /\ <<c, s>> \in Keys
    BY <2>2, KeyFacts
  <2>4. Of(<<c, s>>) = <<c>> /\ Renamed(k, Of(k)) = k
    BY <2>1, <2>2 DEF Of, Renamed
  <2>5. ASSUME NEW m \in ContainerKeys
        PROVE  Renamed(Renamed(k, n), m) = Renamed(k, m)
    BY <2>1, <2>2, <2>3 DEF Renamed
  <2> QED
    BY <1>1, <2>2, <2>3, <2>4, <2>5
<1> QED
  BY <1>2, <1>3 DEF Keys

\* Two keys of one container that get the same name are the same.
LEMMA RenamedApart ==
  ASSUME NEW j \in Keys, NEW k \in Keys, NEW n \in ContainerKeys,
         Of(j) = Of(k), Renamed(j, n) = Renamed(k, n)
  PROVE  j = k
<1>1. Of(j) \in ContainerKeys
  BY KeyFacts
<1>2. Renamed(Renamed(j, n), Of(j)) = j /\ Renamed(Renamed(k, n), Of(j)) = k
  BY <1>1, RenamedFacts
<1> QED
  BY <1>2

-----------------------------------------------------------------------------
(* Sequences of steps.                                                       *)

\* Only the undo of the step changes.
LEMMA OrElseFacts ==
  ASSUME NEW s \in Steps, NEW u \in Undos
  PROVE  LET o == OrElse(s, u) IN
         /\ o \in Steps /\ o.do = s.do /\ o.k = s.k /\ o.x = s.x /\ o.must = s.must
         /\ o.skip = s.skip /\ o.undo = u
BY DEF OrElse, Steps

\* The parts of a step.
LEMMA Types ==
  ASSUME NEW s \in Steps
  PROVE  /\ s.do \in Dos /\ s.k \in Keys /\ s.x \in Keys /\ s.must \in BOOLEAN /\ s.skip \in Nat
         /\ s.undo \in Undos
BY DEF Steps

\* What is left of a plan after its first n steps.
LEMMA Rest ==
  ASSUME NEW S, NEW todo \in Seq(S), NEW n \in Nat
  PROVE  LET rest == SubSeq(todo, n + 1, Len(todo)) IN
         /\ rest \in Seq(S) /\ Len(rest) = (IF n < Len(todo) THEN Len(todo) - n ELSE 0)
         /\ DOMAIN rest = 1..Len(rest)
         /\ \A i \in DOMAIN rest : i + n \in DOMAIN todo /\ rest[i] = todo[i + n]
         /\ \A i \in DOMAIN todo : i > n => i - n \in DOMAIN rest /\ rest[i - n] = todo[i]
<1> DEFINE rest == SubSeq(todo, n + 1, Len(todo))
<1>1. Len(todo) \in Nat /\ DOMAIN todo = 1..Len(todo) /\ \A i \in 1..Len(todo) : todo[i] \in S
  BY LenProperties, ElementOfSeq
<1>2. PICK L \in Nat : L = Len(todo)
  BY <1>1, Zenon
<1>3. /\ rest \in Seq(S)
      /\ Len(rest) = IF n + 1 <= L THEN L - (n + 1) + 1 ELSE 0
      /\ \A i \in 1..(L - (n + 1) + 1) : rest[i] = todo[n + 1 + i - 1]
  <2>1. \A i \in (n + 1)..L : todo[i] \in S
    BY <1>1, <1>2
  <2> QED
    BY <1>2, <2>1, SubSeqProperties
<1>4. DOMAIN rest = 1..Len(rest)
  BY <1>3, LenProperties
<1> HIDE DEF rest
<1>5. PICK M \in Nat : M = Len(rest) /\ M = IF n < L THEN L - n ELSE 0
  <2>1. (IF n + 1 <= L THEN L - (n + 1) + 1 ELSE 0) = IF n < L THEN L - n ELSE 0
    BY <1>2
  <2>2. (IF n < L THEN L - n ELSE 0) \in Nat
    BY <1>2
  <2> QED
    BY <1>3, <2>1, <2>2, Zenon
<1>6. ASSUME NEW i \in 1..M
      PROVE  i + n \in 1..L /\ rest[i] = todo[i + n]
  <2>1. i \in 1..(L - (n + 1) + 1) /\ n + 1 + i - 1 = i + n
    BY <1>5
  <2> QED
    BY <1>3, <1>5, <2>1
<1>7. ASSUME NEW i \in 1..L, i > n
      PROVE  i - n \in 1..M /\ rest[i - n] = todo[i]
  <2>1. i - n \in 1..M /\ (i - n) + n = i
    BY <1>5, <1>7
  <2> QED
    BY <1>6, <2>1
<1> QED
  BY <1>1, <1>2, <1>3, <1>4, <1>5, <1>6, <1>7, Zenon DEF rest

\* A plan without its first step.
LEMMA TailRest ==
  ASSUME NEW S, NEW todo \in Seq(S), todo # <<>>
  PROVE  LET rest == Tail(todo) IN
         /\ rest \in Seq(S) /\ Len(rest) = Len(todo) - 1 /\ Len(todo) \in Nat \ {0}
         /\ DOMAIN rest = 1..Len(rest) /\ DOMAIN todo = 1..Len(todo)
         /\ Head(todo) = todo[1] /\ todo[1] \in S
         /\ \A i \in DOMAIN rest : i + 1 \in DOMAIN todo /\ rest[i] = todo[i + 1]
         /\ \A i \in DOMAIN todo : i > 1 => i - 1 \in DOMAIN rest /\ rest[i - 1] = todo[i]
         /\ rest = <<>> <=> Len(todo) = 1
<1>1. Len(todo) \in Nat \ {0} /\ DOMAIN todo = 1..Len(todo)
  BY EmptySeq, LenProperties
<1>2. /\ Tail(todo) \in Seq(S) /\ Len(Tail(todo)) = Len(todo) - 1
      /\ \A i \in 1..Len(Tail(todo)) : Tail(todo)[i] = todo[i + 1]
  BY HeadTailProperties
<1>3. DOMAIN Tail(todo) = 1..Len(Tail(todo))
  BY <1>2, LenProperties
<1>4. Head(todo) = todo[1] /\ todo[1] \in S
  BY <1>1, ElementOfSeq
<1>5. Tail(todo) = <<>> <=> Len(Tail(todo)) = 0
  BY <1>2, EmptySeq, Zenon
<1> QED
  BY <1>1, <1>2, <1>3, <1>4, <1>5

\* Two plans, one after the other.
LEMMA Joined ==
  ASSUME NEW S, NEW p \in Seq(S), NEW q \in Seq(S)
  PROVE  LET s == p \o q IN
         /\ s \in Seq(S) /\ Len(s) = Len(p) + Len(q) /\ Len(p) \in Nat /\ Len(q) \in Nat
         /\ DOMAIN s = 1..Len(s) /\ DOMAIN p = 1..Len(p) /\ DOMAIN q = 1..Len(q)
         /\ \A i \in DOMAIN s : s[i] = IF i <= Len(p) THEN p[i] ELSE q[i - Len(p)]
         /\ \A i \in DOMAIN p : i \in DOMAIN s /\ s[i] = p[i]
         /\ \A i \in DOMAIN q : i + Len(p) \in DOMAIN s /\ s[i + Len(p)] = q[i]
<1>1. /\ p \o q \in Seq(S) /\ Len(p \o q) = Len(p) + Len(q)
      /\ \A i \in 1..(Len(p) + Len(q)) : (p \o q)[i] = IF i <= Len(p) THEN p[i] ELSE q[i - Len(p)]
  BY ConcatProperties
<1>2. /\ Len(p) \in Nat /\ Len(q) \in Nat /\ DOMAIN p = 1..Len(p) /\ DOMAIN q = 1..Len(q)
      /\ DOMAIN (p \o q) = 1..Len(p \o q)
  BY <1>1, LenProperties
<1>3. \A i \in DOMAIN q : i + Len(p) \in 1..(Len(p) + Len(q)) /\ ~(i + Len(p) <= Len(p))
                          /\ i + Len(p) - Len(p) = i
  BY <1>2
<1> QED
  BY <1>1, <1>2, <1>3

\* A plan written as a function.
LEMMA Written ==
  ASSUME NEW S, NEW n \in Nat, NEW f, f \in [1..n -> S]
  PROVE  f \in Seq(S) /\ Len(f) = n /\ DOMAIN f = 1..n
<1>1. f \in Seq(S)
  BY SeqDef
<1> QED
  BY <1>1, LenProperties

-----------------------------------------------------------------------------
(* What the actions do to a thread.                                          *)

\* The parts of a request.
LEMMA RecordFacts ==
  ASSUME NEW r \in Records
  PROVE  /\ r.phase \in {"idle", "busy", "ok", "error"} /\ r.kind \in Kinds7
         /\ r.k \in Keys \cup {<<>>} /\ r.size \in Nat /\ r.id \in Nat /\ r.base \in Nat
         /\ r.todo \in Seq(Steps) /\ r.failed \in BOOLEAN /\ r.fault \in BOOLEAN /\ r.inserted \in BOOLEAN
BY DEF Records

\* The same, for a thread.
LEMMA ThreadFacts ==
  ASSUME TypeInv, NEW t \in Threads
  PROVE  LET r == threads[t] IN
         /\ r \in Records /\ ThreadType(r)
         /\ r.phase \in {"idle", "busy", "ok", "error"} /\ r.kind \in Kinds7
         /\ r.k \in Keys \cup {<<>>} /\ r.size \in Nat /\ r.id \in Nat /\ r.base \in Nat
         /\ r.todo \in Seq(Steps) /\ r.failed \in BOOLEAN /\ r.fault \in BOOLEAN /\ r.inserted \in BOOLEAN
<1>1. threads[t] \in Records /\ ThreadType(threads[t])
  BY DEF TypeInv
<1> QED
  BY <1>1, RecordFacts

\* A thread at work has a step to make.
LEMMA BusyFacts ==
  ASSUME TypeInv, NEW t \in Threads, Busy(t)
  PROVE  LET r == threads[t]
             step == Head(r.todo) IN
         /\ r.todo # <<>> /\ r.k \in Keys /\ r.id \in 1..served
         /\ step \in Steps /\ step = r.todo[1] /\ 1 \in DOMAIN r.todo
         /\ step.do \in Dos /\ step.k \in Keys /\ step.x \in Keys /\ step.must \in BOOLEAN /\ step.skip \in Nat
         /\ step.undo \in Undos
<1>1. threads[t].todo # <<>> /\ threads[t].k \in Keys /\ threads[t].id \in 1..served
  BY ThreadFacts DEF Busy, ThreadType
<1>2. threads[t].todo \in Seq(Steps)
  BY ThreadFacts
<1>3. Head(threads[t].todo) = threads[t].todo[1] /\ threads[t].todo[1] \in Steps /\ 1 \in DOMAIN threads[t].todo
  BY <1>1, <1>2, TailRest
<1> QED
  BY <1>1, <1>3, Types

\* The thread that Run leaves, Fails leaves, and a request makes.
RanOn(old, new, step, todo) ==
  /\ new.kind = old.kind /\ new.k = old.k /\ new.size = old.size /\ new.id = old.id
  /\ new.todo = todo /\ new.failed = old.failed /\ new.fault = old.fault
  /\ new.inserted = (old.inserted \/ step.do = "insert")
  /\ new.base = IF step.do = "findIdmap" THEN findIdmap(step.k, old.size) ELSE old.base
  /\ new.phase = IF todo # <<>> THEN "busy" ELSE IF old.failed THEN "error" ELSE "ok"

FailedOn(old, new, step, todo) ==
  /\ new.kind = old.kind /\ new.k = old.k /\ new.size = old.size /\ new.id = old.id
  /\ new.todo = todo /\ new.inserted = old.inserted /\ new.base = old.base
  /\ new.failed = (old.failed \/ step.must)
  /\ new.phase = IF todo # <<>> THEN "busy" ELSE IF new.failed THEN "error" ELSE "ok"

TodoAfterFailure(todo) ==
  LET step == Head(todo)
  IN IF step.must THEN step.undo ELSE SubSeq(todo, 2 + step.skip, Len(todo))

\* A step that works moves its own thread only.
LEMMA RunThread ==
  ASSUME TypeInv, NEW t \in Threads, Run(t),
         After(Head(threads[t].todo), Tail(threads[t].todo)) \in Seq(Steps),
         findIdmap(Head(threads[t].todo).k, threads[t].size) \in Nat
  PROVE  LET step == Head(threads[t].todo) IN
         /\ \A u \in Threads : u # t => threads'[u] = threads[u]
         /\ threads' \in [Threads -> Records]
         /\ RanOn(threads[t], threads'[t], step, After(step, Tail(threads[t].todo)))
<1> DEFINE step == Head(threads[t].todo)
           todo == After(step, Tail(threads[t].todo))
           phase == IF todo # <<>> THEN "busy" ELSE IF threads[t].failed THEN "error" ELSE "ok"
           g == Goes(t, todo, threads[t].failed)
           base == IF step.do = "findIdmap" THEN findIdmap(step.k, threads[t].size) ELSE g.base
           inserted == g.inserted \/ step.do = "insert"
           new == [g EXCEPT !.base = base, !.inserted = inserted]
<1>1. threads[t] \in Records /\ threads \in [Threads -> Records] /\ threads[t].failed \in BOOLEAN
      /\ threads[t].inserted \in BOOLEAN /\ threads[t].base \in Nat
  BY ThreadFacts DEF TypeInv
<1>2. threads' = [threads EXCEPT ![t] = new]
  BY DEF Run
<1>3. g = [threads[t] EXCEPT !.todo = todo, !.failed = threads[t].failed, !.phase = phase]
  BY DEF Goes
<1>4. phase \in {"idle", "busy", "ok", "error"} /\ todo \in Seq(Steps)
  OBVIOUS
<1> HIDE DEF phase, todo, g
<1>5. /\ g.kind = threads[t].kind /\ g.k = threads[t].k /\ g.size = threads[t].size /\ g.id = threads[t].id
      /\ g.todo = todo /\ g.failed = threads[t].failed /\ g.fault = threads[t].fault
      /\ g.phase = phase /\ g.base = threads[t].base /\ g.inserted = threads[t].inserted
      /\ g \in Records
  BY <1>1, <1>3, <1>4, Zenon DEF Records
<1>6. base \in Nat /\ inserted \in BOOLEAN
  BY <1>1, <1>5
<1>7. inserted = (threads[t].inserted \/ step.do = "insert")
  BY <1>5
<1>8. base = IF step.do = "findIdmap" THEN findIdmap(step.k, threads[t].size) ELSE threads[t].base
  BY <1>5
<1> HIDE DEF base, inserted
<1>9. /\ new.kind = g.kind /\ new.k = g.k /\ new.size = g.size /\ new.id = g.id
      /\ new.todo = g.todo /\ new.failed = g.failed /\ new.fault = g.fault /\ new.phase = g.phase
      /\ new.inserted = inserted /\ new.base = base /\ new \in Records
  BY <1>5, <1>6, Zenon DEF Records
<1> HIDE DEF new
<1>10. threads'[t] = new
  BY <1>1, <1>2
<1>11. (\A u \in Threads : u # t => threads'[u] = threads[u]) /\ threads' \in [Threads -> Records]
  BY <1>1, <1>2, <1>9
<1>12. RanOn(threads[t], new, step, todo)
  BY <1>5, <1>7, <1>8, <1>9 DEF RanOn, phase
<1> QED
  BY <1>10, <1>11, <1>12 DEF todo

\* So does one that fails.
LEMMA FailThread ==
  ASSUME TypeInv, NEW t \in Threads, Fails(t),
         TodoAfterFailure(threads[t].todo) \in Seq(Steps), Head(threads[t].todo).must \in BOOLEAN
  PROVE  LET step == Head(threads[t].todo) IN
         /\ \A u \in Threads : u # t => threads'[u] = threads[u]
         /\ threads' \in [Threads -> Records]
         /\ FailedOn(threads[t], threads'[t], step, TodoAfterFailure(threads[t].todo))
         /\ threads'[t].fault = (threads[t].fault \/ ~Refused(step, t))
<1> DEFINE step == Head(threads[t].todo)
           todo == TodoAfterFailure(threads[t].todo)
           failed == threads[t].failed \/ step.must
           phase == IF todo # <<>> THEN "busy" ELSE IF failed THEN "error" ELSE "ok"
           g == Goes(t, todo, failed)
           fault == g.fault \/ ~Refused(step, t)
           new == [g EXCEPT !.fault = fault]
<1>1. threads[t] \in Records /\ threads \in [Threads -> Records] /\ threads[t].failed \in BOOLEAN
      /\ threads[t].fault \in BOOLEAN
  BY ThreadFacts DEF TypeInv
<1>2. threads' = [threads EXCEPT ![t] = new]
  BY DEF Fails, TodoAfterFailure
<1>3. g = [threads[t] EXCEPT !.todo = todo, !.failed = failed, !.phase = phase]
  BY DEF Goes
<1>4. phase \in {"idle", "busy", "ok", "error"} /\ todo \in Seq(Steps) /\ failed \in BOOLEAN
  BY <1>1
<1> HIDE DEF phase, todo, g, failed
<1>5. /\ g.kind = threads[t].kind /\ g.k = threads[t].k /\ g.size = threads[t].size /\ g.id = threads[t].id
      /\ g.todo = todo /\ g.failed = failed /\ g.fault = threads[t].fault
      /\ g.phase = phase /\ g.base = threads[t].base /\ g.inserted = threads[t].inserted
      /\ g \in Records
  BY <1>1, <1>3, <1>4, Zenon DEF Records
<1>6. fault \in BOOLEAN
  BY <1>1, <1>5
<1>7. fault = (threads[t].fault \/ ~Refused(step, t))
  BY <1>5
<1> HIDE DEF fault
<1>8. /\ new.kind = g.kind /\ new.k = g.k /\ new.size = g.size /\ new.id = g.id
      /\ new.todo = g.todo /\ new.failed = g.failed /\ new.fault = fault /\ new.phase = g.phase
      /\ new.inserted = g.inserted /\ new.base = g.base /\ new \in Records
  BY <1>5, <1>6, Zenon DEF Records
<1> HIDE DEF new
<1>9. threads'[t] = new
  BY <1>1, <1>2
<1>10. (\A u \in Threads : u # t => threads'[u] = threads[u]) /\ threads' \in [Threads -> Records]
  BY <1>1, <1>2, <1>8
<1>11. failed = (threads[t].failed \/ step.must)
  BY DEF failed
<1>12. new.phase = IF todo # <<>> THEN "busy" ELSE IF new.failed THEN "error" ELSE "ok"
  BY <1>5, <1>8 DEF phase
<1>13. FailedOn(threads[t], new, step, todo)
  BY <1>5, <1>8, <1>11, <1>12 DEF FailedOn
<1>14. new.fault = (threads[t].fault \/ ~Refused(step, t))
  BY <1>7, <1>8
<1> QED
  BY <1>9, <1>10, <1>13, <1>14 DEF todo

\* So does a request that begins.
LEMMA ServeThread ==
  ASSUME TypeInv, NEW t \in Threads, NEW kind \in Kinds7, NEW k \in Keys, NEW size \in Nat,
         NEW plan, plan \in Seq(Steps), Serve(t, kind, k, size, plan)
  PROVE  LET new == threads'[t] IN
         /\ threads[t].phase = "idle" /\ served' = served + 1
         /\ \A u \in Threads : u # t => threads'[u] = threads[u]
         /\ threads' \in [Threads -> Records]
         /\ new.phase = "busy" /\ new.kind = kind /\ new.k = k /\ new.size = size /\ new.id = served + 1
         /\ new.base = 0 /\ new.todo = plan /\ new.failed = FALSE /\ new.fault = FALSE
         /\ new.inserted = FALSE
<1> DEFINE new == [Idle EXCEPT !.phase = "busy", !.kind = kind, !.k = k, !.size = size,
                               !.id = served + 1, !.todo = plan]
<1>1. threads' = [threads EXCEPT ![t] = new] /\ threads[t].phase = "idle" /\ served' = served + 1
  BY Zenon DEF Serve
<1>2. threads \in [Threads -> Records] /\ served \in Nat
  BY DEF TypeInv
<1>3. /\ new.phase = "busy" /\ new.kind = kind /\ new.k = k /\ new.size = size /\ new.id = served + 1
      /\ new.base = 0 /\ new.todo = plan /\ new.failed = FALSE /\ new.fault = FALSE
      /\ new.inserted = FALSE
  BY DEF Idle
<1>4. new \in Records
  <2>1. Idle \in Records
    BY EmptySeq DEF Idle, Records, Kinds7, Creates
  <2>2. PICK n \in Nat : n = served + 1
    BY <1>2
  <2>3. k \in Keys \cup {<<>>}
    OBVIOUS
  <2>4. [Idle EXCEPT !.phase = "busy", !.kind = kind, !.k = k, !.size = size, !.id = n, !.todo = plan] \in Records
    BY <2>1, <2>3, Zenon DEF Records
  <2> QED
    BY <2>2, <2>4
<1> HIDE DEF new
<1>5. threads'[t] = new
  BY <1>1, <1>2
<1>6. (\A u \in Threads : u # t => threads'[u] = threads[u]) /\ threads' \in [Threads -> Records]
  BY <1>1, <1>2, <1>4
<1> QED
  BY <1>1, <1>3, <1>5, <1>6

-----------------------------------------------------------------------------
(* The plans of requests.                                                    *)

\* A creation: checks, the row at p, further steps that take it back when they fail,
\* the volume at q, and the configuration, if any.
LEMMA CreationShape ==
  ASSUME NEW th, NEW p \in Nat, NEW q \in Nat, NEW f \in Nat,
         th.todo \in Seq(Steps), th.inserted = FALSE,
         0 < p, p + 1 < f, f < q, Len(th.todo) \in {q, q + 1},
         \A i \in DOMAIN th.todo :
           /\ th.todo[i].k = th.k /\ th.todo[i].must = TRUE
           /\ i < p => th.todo[i].do = "check" /\ th.todo[i].undo = <<>>
           /\ i = p => th.todo[i].do = "insert" /\ th.todo[i].undo = <<>>
           /\ p < i /\ i < q =>
                /\ i = f => th.todo[i].do = "setbase"
                /\ i = f - 1 => th.todo[i].do = "findIdmap"
                /\ i \notin {f - 1, f} => th.todo[i].do = "check"
                /\ th.todo[i].undo \in {<<ContainerRemove(th.k)>>, DeleteAndRemove(th.k)}
           /\ i = q => /\ th.todo[i].do \in {"create", "copy"}
                       /\ th.todo[i].undo \in {<<ContainerRemove(th.k)>>, <<Delete(th.k)>>}
           /\ i = q + 1 => th.todo[i].do = "check" /\ th.todo[i].undo = <<Delete(th.k)>>
  PROVE  Making(th)
<1> DEFINE todo == th.todo
           rank(i) == IF i < p THEN 0 ELSE IF i = p THEN 1 ELSE IF i < q THEN 2 ELSE IF i = q THEN 3 ELSE 4
<1>1. DOMAIN todo = 1..Len(todo) /\ Len(todo) \in {q, q + 1}
  BY LenProperties
<1>2. ASSUME NEW i \in DOMAIN todo
      PROVE  Rank(todo[i]) = rank(i)
  <2>1. /\ <<ContainerRemove(th.k)>> # <<>> /\ DeleteAndRemove(th.k) # <<>> /\ <<Delete(th.k)>> # <<>>
        /\ DeleteAndRemove(th.k) # <<Delete(th.k)>>
    BY DEF DeleteAndRemove
  <2>2. <<ContainerRemove(th.k)>> # <<Delete(th.k)>>
    <3>1. ContainerRemove(th.k).do = "remove" /\ Delete(th.k).do = "Delete"
      BY DEF ContainerRemove, Delete, Ignoring, Step
    <3> QED
      BY <3>1
  <2>3. CASE i < p
    BY <2>3 DEF Rank
  <2>4. CASE i = p
    BY <2>4 DEF Rank
  <2>5. CASE p < i /\ i < q
    BY <2>1, <2>2, <2>5, Zenon DEF Rank
  <2>6. CASE i = q
    BY <2>6 DEF Rank
  <2>7. CASE i = q + 1
    <3>1. todo[i].do = "check" /\ todo[i].undo = <<Delete(th.k)>> /\ todo[i].k = th.k
      BY <2>7
    <3>2. todo[i].undo = <<Delete(todo[i].k)>> /\ todo[i].undo # <<>>
      BY <2>1, <3>1
    <3> QED
      BY <2>7, <3>1, <3>2 DEF Rank
  <2> QED
    BY <1>1, <2>3, <2>4, <2>5, <2>6, <2>7
<1>3. ASSUME NEW i \in DOMAIN todo
      PROVE  /\ todo[i].do \in {"check", "insert", "findIdmap", "setbase", "create", "copy"}
             /\ todo[i].undo \in MakingUndo(todo[i])
             /\ todo[i].do = "setbase" => i = 1 \/ todo[i - 1].do = "findIdmap"
             /\ todo[i].do = "insert" => Holds(todo, "setbase")
             /\ Rank(todo[i]) < 3 => Ranked(todo, 3)
             /\ th.inserted => Rank(todo[i]) >= 2
  <2>1. i \in Nat /\ (i < p \/ i = p \/ (p < i /\ i < q) \/ i = q \/ i = q + 1)
    BY <1>1
  <2>2. todo[i].do \in {"check", "insert", "findIdmap", "setbase", "create", "copy"}
    BY <2>1
  <2>3. todo[i].undo \in MakingUndo(todo[i])
    <3>1. todo[i].k = th.k
      OBVIOUS
    <3>2. /\ ContainerRemove(todo[i].k) = ContainerRemove(th.k) /\ Delete(todo[i].k) = Delete(th.k)
          /\ DeleteAndRemove(todo[i].k) = DeleteAndRemove(th.k)
      BY <3>1
    <3>3. Rank(todo[i]) = rank(i)
      BY <1>2
    <3>4. CASE i <= p
      <4>1. Rank(todo[i]) \in {0, 1} /\ todo[i].undo = <<>>
        BY <2>1, <3>3, <3>4
      <4> QED
        BY <4>1 DEF MakingUndo
    <3>5. CASE p < i /\ i < q
      <4>1. Rank(todo[i]) = 2 /\ todo[i].undo \in {<<ContainerRemove(th.k)>>, DeleteAndRemove(th.k)}
        BY <3>3, <3>5
      <4> QED
        BY <3>2, <4>1 DEF MakingUndo
    <3>6. CASE i = q
      <4>1. Rank(todo[i]) = 3 /\ todo[i].undo \in {<<ContainerRemove(th.k)>>, <<Delete(th.k)>>}
        BY <3>3, <3>6
      <4> QED
        BY <3>2, <4>1 DEF MakingUndo
    <3>7. CASE i = q + 1
      <4>1. Rank(todo[i]) = 4 /\ todo[i].undo = <<Delete(th.k)>>
        BY <3>3, <3>7
      <4> QED
        BY <3>2, <4>1 DEF MakingUndo
    <3> QED
      BY <2>1, <3>4, <3>5, <3>6, <3>7
  <2>4. todo[i].do = "setbase" => i = f
    BY <2>1, Zenon
  <2>5. f \in DOMAIN todo /\ f - 1 \in DOMAIN todo /\ q \in DOMAIN todo
    BY <1>1
  <2>6. todo[f].do = "setbase" /\ todo[f - 1].do = "findIdmap" /\ Rank(todo[q]) = 3
    BY <1>2, <2>5, SMTT(60)
  <2> QED
    BY <1>2, <2>2, <2>3, <2>4, <2>5, <2>6, Zenon DEF Holds, Ranked
<1>4. ASSUME NEW i \in DOMAIN todo, NEW j \in DOMAIN todo, i < j
      PROVE  \/ Rank(todo[i]) < Rank(todo[j])
             \/ Rank(todo[i]) = Rank(todo[j]) /\ Rank(todo[i]) \notin {1, 3}
  <2>1. i \in Nat /\ j \in Nat /\ j <= q + 1
    BY <1>1
  <2>2. rank(i) < rank(j) \/ (rank(i) = rank(j) /\ rank(i) \notin {1, 3})
    BY <1>4, <2>1
  <2> QED
    BY <1>2, <2>2
<1>5. todo # <<>> /\ Holds(todo, "insert")
  <2>1. p \in DOMAIN todo
    BY <1>1
  <2> QED
    BY <1>1, <2>1 DEF Holds
<1> QED
  BY <1>3, <1>4, <1>5 DEF Making

Is(step, do, k, undo) == step.do = do /\ step.k = k /\ step.must = TRUE /\ step.undo = undo

\* The undos there are.
LEMMA UndoFacts ==
  ASSUME NEW k \in Keys
  PROVE  /\ <<>> \in Undos /\ <<ContainerRemove(k)>> \in Undos /\ <<Delete(k)>> \in Undos
         /\ DeleteAndRemove(k) \in Undos
BY DEF Undos

\* A step of a creation is what it was written as.
LEMMA IsOrElse ==
  ASSUME NEW do \in Dos, NEW k \in Keys, NEW x \in Keys, NEW u \in Undos
  PROVE  /\ OrElse(Step(do, k, x), u) \in Steps /\ Is(OrElse(Step(do, k, x), u), do, k, u)
         /\ Step(do, k, x) \in Steps /\ Is(Step(do, k, x), do, k, <<>>)
<1>1. PICK s : s = Step(do, k, x)
  OBVIOUS
<1>2. s \in Steps /\ s.do = do /\ s.k = k /\ s.must = TRUE /\ s.undo = <<>>
  <2>1. <<>> \in Undos
    BY DEF Undos
  <2> QED
    BY <1>1, <2>1 DEF Step, Steps
<1>3. OrElse(s, u) \in Steps /\ OrElse(s, u).do = s.do /\ OrElse(s, u).k = s.k
      /\ OrElse(s, u).must = s.must /\ OrElse(s, u).undo = u
  BY <1>2, OrElseFacts
<1> QED
  BY <1>1, <1>2, <1>3 DEF Is

\* containerCreateInternal, step by step.
LEMMA InternalPlan ==
  ASSUME NEW k \in Keys
  PROVE  LET s == containerCreateInternal(k)
             r == <<ContainerRemove(k)>>
             d == DeleteAndRemove(k) IN
         /\ s \in Seq(Steps) /\ Len(s) = 7
         /\ Is(s[1], "check", k, <<>>) /\ Is(s[2], "insert", k, <<>>) /\ Is(s[3], "check", k, r)
         /\ Is(s[4], "check", k, d) /\ Is(s[5], "findIdmap", k, d) /\ Is(s[6], "setbase", k, d)
         /\ Is(s[7], "check", k, d)
<1> DEFINE r == <<ContainerRemove(k)>>
           d == DeleteAndRemove(k)
           a == Check(k)
           b == Step("insert", k, k)
           c == OrElse(Check(k), r)
           x == OrElse(Check(k), d)
           y == OrElse(Step("findIdmap", k, k), d)
           z == OrElse(Step("setbase", k, k), d)
           s == <<a, b, c>>
           t == <<x, y, z, x>>
<1>1. r \in Undos /\ d \in Undos /\ <<>> \in Undos
  BY UndoFacts, Zenon
<1>2. {"check", "insert", "findIdmap", "setbase"} \subseteq Dos
  BY DEF Dos
<1>3. a \in Steps /\ b \in Steps /\ Is(a, "check", k, <<>>) /\ Is(b, "insert", k, <<>>)
  BY <1>1, <1>2, IsOrElse DEF Check
<1>4. c \in Steps /\ x \in Steps /\ Is(c, "check", k, r) /\ Is(x, "check", k, d)
  BY <1>1, <1>2, IsOrElse DEF Check
<1>5. y \in Steps /\ z \in Steps /\ Is(y, "findIdmap", k, d) /\ Is(z, "setbase", k, d)
  BY <1>1, <1>2, IsOrElse
<1>6. containerCreateInternal(k) = s \o t
  BY DEF containerCreateInternal, containerLXCCreate, DeleteAndRemove
<1> HIDE DEF a, b, c, x, y, z
<1>7. s \in Seq(Steps) /\ t \in Seq(Steps) /\ Len(s) = 3 /\ Len(t) = 4
  BY <1>3, <1>4, <1>5
<1>8. /\ s[1] = a /\ s[2] = b /\ s[3] = c /\ t[1] = x /\ t[2] = y /\ t[3] = z /\ t[4] = x
  OBVIOUS
<1> HIDE DEF s, t
<1>9. /\ s \o t \in Seq(Steps) /\ Len(s \o t) = 7
      /\ \A i \in 1..7 : (s \o t)[i] = IF i <= 3 THEN s[i] ELSE t[i - 3]
  <2>1. s \o t \in Seq(Steps) /\ Len(s \o t) = Len(s) + Len(t)
        /\ \A i \in 1 .. Len(s) + Len(t) : (s \o t)[i] = IF i <= Len(s) THEN s[i] ELSE t[i - Len(s)]
    BY <1>7, ConcatProperties, Zenon
  <2> QED
    BY <1>7, <2>1
<1>10. /\ (s \o t)[1] = a /\ (s \o t)[2] = b /\ (s \o t)[3] = c /\ (s \o t)[4] = x /\ (s \o t)[5] = y
       /\ (s \o t)[6] = z /\ (s \o t)[7] = x
  BY <1>8, <1>9, SMTT(60)
<1> HIDE DEF r, d
<1>11. /\ Is((s \o t)[1], "check", k, <<>>) /\ Is((s \o t)[2], "insert", k, <<>>)
       /\ Is((s \o t)[3], "check", k, r) /\ Is((s \o t)[4], "check", k, d)
       /\ Is((s \o t)[5], "findIdmap", k, d) /\ Is((s \o t)[6], "setbase", k, d)
       /\ Is((s \o t)[7], "check", k, d)
  BY <1>3, <1>4, <1>5, <1>10
<1> QED
  BY <1>6, <1>9, <1>11, Zenon DEF r, d

\* The plans of the three ways to create a container, and of a snapshot.
LEMMA CreationPlans ==
  ASSUME NEW k \in Keys, NEW source \in Keys, NEW plan,
         plan \in {containerCreateAsEmpty(k), containerCreateFromImage(k),
                   containerCreateAsCopy(k, source), containerCreateAsSnapshot(k)}
  PROVE  /\ plan \in Seq(Steps) /\ plan # <<>>
         /\ \A th : th.todo = plan /\ th.k = k /\ th.inserted = FALSE => Making(th)
<1> DEFINE r == <<ContainerRemove(k)>>
           d == DeleteAndRemove(k)
           e == <<Delete(k)>>
           s == containerCreateInternal(k)
<1>1. r \in Undos /\ d \in Undos /\ e \in Undos /\ <<>> \in Undos /\ {"check", "create", "copy"} \subseteq Dos
  BY UndoFacts DEF Dos
<1>2. /\ s \in Seq(Steps) /\ Len(s) = 7
      /\ Is(s[1], "check", k, <<>>) /\ Is(s[2], "insert", k, <<>>) /\ Is(s[3], "check", k, r)
      /\ Is(s[4], "check", k, d) /\ Is(s[5], "findIdmap", k, d) /\ Is(s[6], "setbase", k, d)
      /\ Is(s[7], "check", k, d)
  BY InternalPlan
<1> HIDE DEF r, d, e, s
<1>3. CASE plan \in {containerCreateAsEmpty(k), containerCreateAsCopy(k, source)}
  <2>1. PICK v, w : /\ v \in Steps /\ w \in Steps /\ plan = s \o <<v, w>>
                    /\ \E do \in {"create", "copy"}, u \in {r, e} : Is(v, do, k, u)
                    /\ Is(w, "check", k, e)
    <3>1. CASE plan = containerCreateAsEmpty(k)
      <4>1. plan = s \o <<OrElse(Step("create", k, k), r), OrElse(Step("check", k, k), e)>>
        BY <3>1 DEF containerCreateAsEmpty, containerConfigureInternal, Check, r, e, s
      <4> QED
        BY <1>1, <4>1, IsOrElse, Zenon
    <3>2. CASE plan = containerCreateAsCopy(k, source)
      <4>1. plan = s \o <<OrElse(Step("copy", k, source), e), OrElse(Step("check", k, k), e)>>
        BY <3>2 DEF containerCreateAsCopy, containerConfigureInternal, Check, r, e, s
      <4> QED
        BY <1>1, <4>1, IsOrElse, Zenon
    <3> QED
      BY <1>3, <3>1, <3>2, Zenon
  <2>2. PICK t : t = <<v, w>>
    BY Zenon
  <2>3. t \in Seq(Steps) /\ Len(t) = 2 /\ t[1] = v /\ t[2] = w
    BY <2>1, <2>2
  <2>4. /\ plan \in Seq(Steps) /\ Len(plan) = 9
        /\ \A i \in 1..9 : plan[i] = IF i <= 7 THEN s[i] ELSE t[i - 7]
    <3>1. s \o t \in Seq(Steps) /\ Len(s \o t) = Len(s) + Len(t)
          /\ \A i \in 1 .. Len(s) + Len(t) : (s \o t)[i] = IF i <= Len(s) THEN s[i] ELSE t[i - Len(s)]
      BY <1>2, <2>1, <2>2, <2>3, ConcatProperties, Zenon
    <3> QED
      BY <1>2, <2>1, <2>2, <2>3, <3>1
  <2>5. /\ plan[1] = s[1] /\ plan[2] = s[2] /\ plan[3] = s[3] /\ plan[4] = s[4] /\ plan[5] = s[5]
        /\ plan[6] = s[6] /\ plan[7] = s[7] /\ plan[8] = v /\ plan[9] = w
    BY <2>3, <2>4
  <2>6. DOMAIN plan = 1..9 /\ plan # <<>>
    <3>1. plan \in Seq(Steps) /\ Len(plan) = 9
      BY <2>4
    <3> QED
      BY <3>1, SMTT(60)
  <2>7. ASSUME NEW th, th.todo = plan, th.k = k, th.inserted = FALSE
        PROVE  Making(th)
    <3>1. ASSUME NEW i \in 1..9
          PROVE  /\ plan[i].k = k /\ plan[i].must = TRUE
                 /\ i < 2 => plan[i].do = "check" /\ plan[i].undo = <<>>
                 /\ i = 2 => plan[i].do = "insert" /\ plan[i].undo = <<>>
                 /\ 2 < i /\ i < 8 =>
                      /\ i = 6 => plan[i].do = "setbase"
                      /\ i = 6 - 1 => plan[i].do = "findIdmap"
                      /\ i \notin {6 - 1, 6} => plan[i].do = "check"
                      /\ plan[i].undo \in {r, d}
                 /\ i = 8 => plan[i].do \in {"create", "copy"} /\ plan[i].undo \in {r, e}
                 /\ i = 8 + 1 => plan[i].do = "check" /\ plan[i].undo = e
      <4>1. i \in {1, 2, 3, 4, 5, 6, 7, 8, 9}
        OBVIOUS
      <4> QED
        BY <1>2, <2>1, <2>5, <4>1, SMTT(60) DEF Is
    <3>2. PICK p \in Nat, q \in Nat, f \in Nat : p = 2 /\ q = 8 /\ f = 6
      OBVIOUS
    <3>3. DOMAIN th.todo = 1..9 /\ th.todo \in Seq(Steps) /\ Len(th.todo) = 9
      BY <2>4, <2>6, <2>7
    <3>4. 0 < p /\ p + 1 < f /\ f < q /\ Len(th.todo) \in {q, q + 1}
      BY <3>2, <3>3
    <3>5. ASSUME NEW i \in DOMAIN th.todo
          PROVE  /\ th.todo[i].k = th.k /\ th.todo[i].must = TRUE
                 /\ i < p => th.todo[i].do = "check" /\ th.todo[i].undo = <<>>
                 /\ i = p => th.todo[i].do = "insert" /\ th.todo[i].undo = <<>>
                 /\ p < i /\ i < q =>
                      /\ i = f => th.todo[i].do = "setbase"
                      /\ i = f - 1 => th.todo[i].do = "findIdmap"
                      /\ i \notin {f - 1, f} => th.todo[i].do = "check"
                      /\ th.todo[i].undo \in {<<ContainerRemove(th.k)>>, DeleteAndRemove(th.k)}
                 /\ i = q => th.todo[i].do \in {"create", "copy"}
                             /\ th.todo[i].undo \in {<<ContainerRemove(th.k)>>, <<Delete(th.k)>>}
                 /\ i = q + 1 => th.todo[i].do = "check" /\ th.todo[i].undo = <<Delete(th.k)>>
      <4>1. <<ContainerRemove(th.k)>> = r /\ DeleteAndRemove(th.k) = d /\ <<Delete(th.k)>> = e
        BY <2>7 DEF r, d, e
      <4> QED
        BY <2>7, <3>1, <3>2, <3>3, <4>1, ZenonT(60)
    <3> QED
      BY <2>7, <3>3, <3>4, <3>5, CreationShape, Zenon
  <2> QED
    BY <2>4, <2>6, <2>7, Zenon
<1>4. CASE plan = containerCreateFromImage(k)
  <2>1. PICK c, v, w : /\ c \in Steps /\ v \in Steps /\ w \in Steps /\ plan = s \o <<c, v, w>>
                       /\ Is(c, "check", k, r) /\ Is(v, "create", k, r) /\ Is(w, "check", k, e)
    <3>1. plan = s \o <<OrElse(Step("check", k, k), r), OrElse(Step("create", k, k), r),
                        OrElse(Step("check", k, k), e)>>
      BY <1>4 DEF containerCreateFromImage, containerConfigureInternal, Check, r, e, s
    <3> QED
      BY <1>1, <3>1, IsOrElse, Zenon
  <2>2. PICK t : t = <<c, v, w>>
    BY Zenon
  <2>3. t \in Seq(Steps) /\ Len(t) = 3 /\ t[1] = c /\ t[2] = v /\ t[3] = w
    BY <2>1, <2>2
  <2>4. /\ plan \in Seq(Steps) /\ Len(plan) = 10
        /\ \A i \in 1..10 : plan[i] = IF i <= 7 THEN s[i] ELSE t[i - 7]
    <3>1. s \o t \in Seq(Steps) /\ Len(s \o t) = Len(s) + Len(t)
          /\ \A i \in 1 .. Len(s) + Len(t) : (s \o t)[i] = IF i <= Len(s) THEN s[i] ELSE t[i - Len(s)]
      BY <1>2, <2>1, <2>2, <2>3, ConcatProperties, Zenon
    <3> QED
      BY <1>2, <2>1, <2>2, <2>3, <3>1
  <2>5. /\ plan[1] = s[1] /\ plan[2] = s[2] /\ plan[3] = s[3] /\ plan[4] = s[4] /\ plan[5] = s[5]
        /\ plan[6] = s[6] /\ plan[7] = s[7] /\ plan[8] = c /\ plan[9] = v /\ plan[10] = w
    BY <2>3, <2>4
  <2>6. DOMAIN plan = 1..10 /\ plan # <<>>
    <3>1. plan \in Seq(Steps) /\ Len(plan) = 10
      BY <2>4
    <3> QED
      BY <3>1
  <2>7. ASSUME NEW th, th.todo = plan, th.k = k, th.inserted = FALSE
        PROVE  Making(th)
    <3>1. ASSUME NEW i \in 1..10
          PROVE  /\ plan[i].k = k /\ plan[i].must = TRUE
                 /\ i < 2 => plan[i].do = "check" /\ plan[i].undo = <<>>
                 /\ i = 2 => plan[i].do = "insert" /\ plan[i].undo = <<>>
                 /\ 2 < i /\ i < 9 =>
                      /\ i = 6 => plan[i].do = "setbase"
                      /\ i = 6 - 1 => plan[i].do = "findIdmap"
                      /\ i \notin {6 - 1, 6} => plan[i].do = "check"
                      /\ plan[i].undo \in {r, d}
                 /\ i = 9 => plan[i].do \in {"create", "copy"} /\ plan[i].undo \in {r, e}
                 /\ i = 9 + 1 => plan[i].do = "check" /\ plan[i].undo = e
      <4>1. i \in {1, 2, 3, 4, 5, 6, 7, 8, 9, 10}
        OBVIOUS
      <4> QED
        BY <1>2, <2>1, <2>5, <4>1, SMTT(60) DEF Is
    <3>2. PICK p \in Nat, q \in Nat, f \in Nat : p = 2 /\ q = 9 /\ f = 6
      OBVIOUS
    <3>3. DOMAIN th.todo = 1..10 /\ th.todo \in Seq(Steps) /\ Len(th.todo) = 10
      BY <2>4, <2>6, <2>7
    <3>4. 0 < p /\ p + 1 < f /\ f < q /\ Len(th.todo) \in {q, q + 1}
      BY <3>2, <3>3
    <3>5. ASSUME NEW i \in DOMAIN th.todo
          PROVE  /\ th.todo[i].k = th.k /\ th.todo[i].must = TRUE
                 /\ i < p => th.todo[i].do = "check" /\ th.todo[i].undo = <<>>
                 /\ i = p => th.todo[i].do = "insert" /\ th.todo[i].undo = <<>>
                 /\ p < i /\ i < q =>
                      /\ i = f => th.todo[i].do = "setbase"
                      /\ i = f - 1 => th.todo[i].do = "findIdmap"
                      /\ i \notin {f - 1, f} => th.todo[i].do = "check"
                      /\ th.todo[i].undo \in {<<ContainerRemove(th.k)>>, DeleteAndRemove(th.k)}
                 /\ i = q => th.todo[i].do \in {"create", "copy"}
                             /\ th.todo[i].undo \in {<<ContainerRemove(th.k)>>, <<Delete(th.k)>>}
                 /\ i = q + 1 => th.todo[i].do = "check" /\ th.todo[i].undo = <<Delete(th.k)>>
      <4>1. <<ContainerRemove(th.k)>> = r /\ DeleteAndRemove(th.k) = d /\ <<Delete(th.k)>> = e
        BY <2>7 DEF r, d, e
      <4> QED
        BY <2>7, <3>1, <3>2, <3>3, <4>1, ZenonT(60)
    <3> QED
      BY <2>7, <3>3, <3>4, <3>5, CreationShape, Zenon
  <2> QED
    BY <2>4, <2>6, <2>7, Zenon
<1>5. CASE plan = containerCreateAsSnapshot(k)
  <2>1. PICK c, v : /\ c \in Steps /\ v \in Steps /\ plan = (<<c>> \o s) \o <<v>>
                    /\ Is(c, "check", k, <<>>) /\ Is(v, "copy", k, r)
    <3>1. plan = (<<Step("check", k, k)>> \o s) \o <<OrElse(Step("copy", k, Of(k)), r)>>
      BY <1>5 DEF containerCreateAsSnapshot, Check, r, s
    <3>2. Of(k) \in Keys
      BY KeyFacts
    <3> QED
      BY <1>1, <3>1, <3>2, IsOrElse, Zenon
  <2>2. PICK a, t : a = <<c>> /\ t = <<v>>
    BY Zenon
  <2>3. a \in Seq(Steps) /\ Len(a) = 1 /\ a[1] = c /\ t \in Seq(Steps) /\ Len(t) = 1 /\ t[1] = v
    BY <2>1, <2>2
  <2>4. PICK b : b = a \o s
    BY Zenon
  <2>5. /\ b \in Seq(Steps) /\ Len(b) = 8
        /\ \A i \in 1..8 : b[i] = IF i <= 1 THEN a[i] ELSE s[i - 1]
    <3>1. a \o s \in Seq(Steps) /\ Len(a \o s) = Len(a) + Len(s)
          /\ \A i \in 1 .. Len(a) + Len(s) : (a \o s)[i] = IF i <= Len(a) THEN a[i] ELSE s[i - Len(a)]
      BY <1>2, <2>3, <2>4, ConcatProperties, Zenon
    <3> QED
      BY <1>2, <2>3, <2>4, <3>1
  <2>6. /\ plan \in Seq(Steps) /\ Len(plan) = 9
        /\ \A i \in 1..9 : plan[i] = IF i <= 8 THEN b[i] ELSE t[i - 8]
    <3>1. b \o t \in Seq(Steps) /\ Len(b \o t) = Len(b) + Len(t)
          /\ \A i \in 1 .. Len(b) + Len(t) : (b \o t)[i] = IF i <= Len(b) THEN b[i] ELSE t[i - Len(b)]
      BY <2>1, <2>2, <2>3, <2>4, <2>5, ConcatProperties
    <3> QED
      BY <2>1, <2>2, <2>3, <2>4, <2>5, <3>1
  <2>7. /\ plan[1] = c /\ plan[2] = s[1] /\ plan[3] = s[2] /\ plan[4] = s[3] /\ plan[5] = s[4] /\ plan[6] = s[5]
        /\ plan[7] = s[6] /\ plan[8] = s[7] /\ plan[9] = v
    BY <2>3, <2>5, <2>6
  <2>8. DOMAIN plan = 1..9 /\ plan # <<>>
    <3>1. plan \in Seq(Steps) /\ Len(plan) = 9
      BY <2>6
    <3> QED
      BY <3>1
  <2>9. ASSUME NEW th, th.todo = plan, th.k = k, th.inserted = FALSE
        PROVE  Making(th)
    <3>1. ASSUME NEW i \in 1..9
          PROVE  /\ plan[i].k = k /\ plan[i].must = TRUE
                 /\ i < 3 => plan[i].do = "check" /\ plan[i].undo = <<>>
                 /\ i = 3 => plan[i].do = "insert" /\ plan[i].undo = <<>>
                 /\ 3 < i /\ i < 9 =>
                      /\ i = 7 => plan[i].do = "setbase"
                      /\ i = 7 - 1 => plan[i].do = "findIdmap"
                      /\ i \notin {7 - 1, 7} => plan[i].do = "check"
                      /\ plan[i].undo \in {r, d}
                 /\ i = 9 => plan[i].do \in {"create", "copy"} /\ plan[i].undo \in {r, e}
                 /\ i = 9 + 1 => plan[i].do = "check" /\ plan[i].undo = e
      <4>1. i \in {1, 2, 3, 4, 5, 6, 7, 8, 9}
        OBVIOUS
      <4>2. /\ Is(plan[1], "check", k, <<>>) /\ Is(plan[2], "check", k, <<>>) /\ Is(plan[3], "insert", k, <<>>)
            /\ Is(plan[4], "check", k, r) /\ Is(plan[5], "check", k, d) /\ Is(plan[6], "findIdmap", k, d)
            /\ Is(plan[7], "setbase", k, d) /\ Is(plan[8], "check", k, d) /\ Is(plan[9], "copy", k, r)
        BY <1>2, <2>1, <2>7, Zenon
      <4> QED
        BY <4>1, <4>2 DEF Is
    <3>2. PICK p \in Nat, q \in Nat, f \in Nat : p = 3 /\ q = 9 /\ f = 7
      OBVIOUS
    <3>3. DOMAIN th.todo = 1..9 /\ th.todo \in Seq(Steps) /\ Len(th.todo) = 9
      BY <2>6, <2>8, <2>9
    <3>4. 0 < p /\ p + 1 < f /\ f < q /\ Len(th.todo) \in {q, q + 1}
      BY <3>2, <3>3
    <3>5. ASSUME NEW i \in DOMAIN th.todo
          PROVE  /\ th.todo[i].k = th.k /\ th.todo[i].must = TRUE
                 /\ i < p => th.todo[i].do = "check" /\ th.todo[i].undo = <<>>
                 /\ i = p => th.todo[i].do = "insert" /\ th.todo[i].undo = <<>>
                 /\ p < i /\ i < q =>
                      /\ i = f => th.todo[i].do = "setbase"
                      /\ i = f - 1 => th.todo[i].do = "findIdmap"
                      /\ i \notin {f - 1, f} => th.todo[i].do = "check"
                      /\ th.todo[i].undo \in {<<ContainerRemove(th.k)>>, DeleteAndRemove(th.k)}
                 /\ i = q => th.todo[i].do \in {"create", "copy"}
                             /\ th.todo[i].undo \in {<<ContainerRemove(th.k)>>, <<Delete(th.k)>>}
                 /\ i = q + 1 => th.todo[i].do = "check" /\ th.todo[i].undo = <<Delete(th.k)>>
      <4>1. <<ContainerRemove(th.k)>> = r /\ DeleteAndRemove(th.k) = d /\ <<Delete(th.k)>> = e
        BY <2>9 DEF r, d, e
      <4> QED
        BY <2>9, <3>1, <3>2, <3>3, <4>1, ZenonT(60)
    <3> QED
      BY <2>9, <3>3, <3>4, <3>5, CreationShape, Zenon
  <2> QED
    BY <2>6, <2>8, <2>9, Zenon
<1> QED
  BY <1>3, <1>4, <1>5, Zenon

-----------------------------------------------------------------------------
(* The plans that go through the snapshots of a container.                   *)

(* SetToSeq goes through all elements of a finite set, each once.            *)
LEMMA InOrder ==
  ASSUME NEW S, IsFiniteSet(S)
  PROVE  /\ Cardinality(S) \in Nat
         /\ SetToSeq(S) \in [1..Cardinality(S) -> S]
         /\ \A x \in S : \E i \in 1..Cardinality(S) : SetToSeq(S)[i] = x
         /\ \A i, j \in 1..Cardinality(S) : SetToSeq(S)[i] = SetToSeq(S)[j] => i = j
<1>1. Cardinality(S) \in Nat /\ ExistsBijection(1..Cardinality(S), S)
  BY FS_CardinalityType
<1>2. PICK f \in [1..Cardinality(S) -> S] : IsInjective(f)
  BY <1>1 DEF ExistsBijection, Bijection, Injection
<1>3. SetToSeq(S) \in [1..Cardinality(S) -> S] /\ IsInjective(SetToSeq(S))
  BY <1>2, Zenon DEF SetToSeq
<1>4. SetToSeq(S) \in Injection(1..Cardinality(S), S)
  BY <1>3 DEF Injection
<1>5. Cardinality(1..Cardinality(S)) = Cardinality(S)
  BY <1>1, FS_Interval
<1>6. SetToSeq(S) \in Surjection(1..Cardinality(S), S)
  BY <1>4, <1>5, FS_Injection
<1>7. \A i, j \in 1..Cardinality(S) : SetToSeq(S)[i] = SetToSeq(S)[j] => i = j
  BY <1>3 DEF IsInjective
<1> QED
  BY <1>1, <1>3, <1>6, <1>7 DEF Surjection

\* A container has finitely many snapshots.
LEMMA SnapshotsFinite ==
  ASSUME TypeInv, NEW k
  PROVE  /\ SnapshotsOf(k) \subseteq Keys /\ SnapshotsOf(k) \subseteq DOMAIN rows
         /\ IsFiniteSet(SnapshotsOf(k))
         /\ \A x \in SnapshotsOf(k) : IsSnapshot(x) /\ Of(x) = k
<1>1. SnapshotsOf(k) \subseteq DOMAIN rows /\ \A x \in SnapshotsOf(k) : IsSnapshot(x) /\ Of(x) = k
  BY DEF SnapshotsOf
<1>2. DOMAIN rows \subseteq Keys /\ IsFiniteSet(DOMAIN rows)
  BY DEF TypeInv
<1> QED
  BY <1>1, <1>2, FS_Subset

\* A step whose failure is ignored, with the n after it.
LEMMA QuietStep ==
  ASSUME NEW a \in Steps, NEW n \in Nat
  PROVE  LET b == [a EXCEPT !.must = FALSE, !.skip = n] IN
         /\ b \in Steps /\ b.do = a.do /\ b.k = a.k /\ b.x = a.x /\ b.undo = a.undo
         /\ b.must = FALSE /\ b.skip = n
BY Zenon DEF Steps

\* The deletion of one snapshot.
LEMMA QuietPair ==
  ASSUME NEW x \in Keys
  PROVE  LET q == Quietly(<<Step("destroy", x, x), ContainerRemove(x)>>) IN
         /\ q[1] \in Steps /\ q[1].do = "destroy" /\ q[1].k = x /\ q[1].must = FALSE /\ q[1].skip = 1
         /\ q[2] \in Steps /\ q[2].do = "remove" /\ q[2].k = x /\ q[2].must = FALSE /\ q[2].skip = 0
         /\ q[1].undo = <<>> /\ q[2].undo = <<>> /\ q \in Seq(Steps) /\ Len(q) = 2
<1> DEFINE p == <<Step("destroy", x, x), ContainerRemove(x)>>
<1>1. /\ p[1] \in Steps /\ p[1].do = "destroy" /\ p[1].k = x /\ p[1].undo = <<>>
      /\ p[2] \in Steps /\ p[2].do = "remove" /\ p[2].k = x /\ p[2].undo = <<>>
  <2>1. "destroy" \in Dos /\ "remove" \in Dos /\ <<>> \in Undos
    BY UndoFacts, Zenon DEF Dos
  <2>2. PICK a, b : a = Step("destroy", x, x) /\ b = Step("remove", x, x)
    OBVIOUS
  <2>3. a \in Steps /\ Is(a, "destroy", x, <<>>) /\ b \in Steps /\ Is(b, "remove", x, <<>>)
    BY <2>1, <2>2, IsOrElse
  <2>4. p = <<a, b>>
    BY <2>2 DEF ContainerRemove
  <2> QED
    BY <2>3, <2>4 DEF Is
<1>2. Len(p) = 2 /\ DOMAIN p = 1..2
  OBVIOUS
<1> HIDE DEF p
<1>3. Quietly(p) = [i \in 1..2 |-> [p[i] EXCEPT !.must = FALSE, !.skip = 2 - i]]
  BY <1>2 DEF Quietly
<1>4. /\ Quietly(p)[1] = [p[1] EXCEPT !.must = FALSE, !.skip = 1]
      /\ Quietly(p)[2] = [p[2] EXCEPT !.must = FALSE, !.skip = 0]
  BY <1>3
<1>5. /\ Quietly(p)[1] \in Steps /\ Quietly(p)[1].do = "destroy" /\ Quietly(p)[1].k = x
      /\ Quietly(p)[1].must = FALSE /\ Quietly(p)[1].skip = 1 /\ Quietly(p)[1].undo = <<>>
  <2>1. PICK a : a = p[1]
    OBVIOUS
  <2>2. a \in Steps /\ a.do = "destroy" /\ a.k = x /\ a.undo = <<>>
    BY <1>1, <2>1
  <2>4. PICK n \in Nat : n = 1
    OBVIOUS
  <2>5. PICK b : b = [a EXCEPT !.must = FALSE, !.skip = n]
    OBVIOUS
  <2>6. b \in Steps /\ b.do = a.do /\ b.k = a.k /\ b.undo = a.undo /\ b.must = FALSE /\ b.skip = n
    BY <2>2, <2>5, QuietStep, Zenon
  <2>3. Quietly(p)[1] = [a EXCEPT !.must = FALSE, !.skip = 1]
    BY <1>4, <2>1
  <2> QED
    BY <2>2, <2>3, <2>4, <2>5, <2>6
<1>6. /\ Quietly(p)[2] \in Steps /\ Quietly(p)[2].do = "remove" /\ Quietly(p)[2].k = x
      /\ Quietly(p)[2].must = FALSE /\ Quietly(p)[2].skip = 0 /\ Quietly(p)[2].undo = <<>>
  <2>1. PICK a : a = p[2]
    OBVIOUS
  <2>2. a \in Steps /\ a.do = "remove" /\ a.k = x /\ a.undo = <<>>
    BY <1>1, <2>1
  <2>4. PICK n \in Nat : n = 0
    OBVIOUS
  <2>5. PICK b : b = [a EXCEPT !.must = FALSE, !.skip = n]
    OBVIOUS
  <2>6. b \in Steps /\ b.do = a.do /\ b.k = a.k /\ b.undo = a.undo /\ b.must = FALSE /\ b.skip = n
    BY <2>2, <2>5, QuietStep, Zenon
  <2>3. Quietly(p)[2] = [a EXCEPT !.must = FALSE, !.skip = 0]
    BY <1>4, <2>1
  <2> QED
    BY <2>2, <2>3, <2>4, <2>5, <2>6
<1>7. Quietly(p) \in Seq(Steps) /\ Len(Quietly(p)) = 2
  <2>1. Quietly(p) \in [1..2 -> Steps]
    BY <1>3, <1>5, <1>6
  <2> QED
    BY <2>1, Written, Zenon
<1> QED
  BY <1>5, <1>6, <1>7 DEF p

\* containerDeleteSnapshots destroys, and removes, each snapshot.
LEMMA SnapDeletes ==
  ASSUME TypeInv, NEW k \in Keys
  PROVE  LET p == containerDeleteSnapshots(k) IN
         /\ p \in Seq(Steps)
         /\ \A i \in DOMAIN p :
              /\ p[i].do \in {"destroy", "remove"} /\ p[i].k \in SnapshotsOf(k) /\ p[i].must = FALSE
              /\ p[i].undo = <<>>
              /\ p[i].do = "destroy" => /\ i + 1 \in DOMAIN p /\ p[i].skip = 1
                                        /\ p[i + 1].do = "remove" /\ p[i + 1].k = p[i].k
              /\ p[i].do = "remove" => p[i].skip = 0 /\ i > 1 /\ p[i - 1].do = "destroy"
         /\ \A x \in SnapshotsOf(k) : Pending(p, "destroy", x) /\ Pending(p, "remove", x)
<1> DEFINE S == SnapshotsOf(k)
           snaps == SetToSeq(S)
           delete(x) == Quietly(<<Step("destroy", x, x), ContainerRemove(x)>>)
           p == containerDeleteSnapshots(k)
<1>1. IsFiniteSet(S) /\ S \subseteq Keys
  BY SnapshotsFinite
<1>2. PICK N \in Nat : N = Cardinality(S)
  BY <1>1, InOrder
<1>3. /\ snaps \in [1..N -> S] /\ \A x \in S : \E i \in 1..N : snaps[i] = x
  BY <1>1, <1>2, InOrder
<1>4. p = [i \in 1..(2 * N) |-> delete(snaps[(i + 1) \div 2])[2 - (i % 2)]]
  BY <1>2 DEF containerDeleteSnapshots
<1>5. \A x \in S :
        /\ delete(x)[1] \in Steps /\ delete(x)[1].do = "destroy" /\ delete(x)[1].k = x
        /\ delete(x)[1].must = FALSE /\ delete(x)[1].skip = 1 /\ delete(x)[1].undo = <<>>
        /\ delete(x)[2] \in Steps /\ delete(x)[2].do = "remove" /\ delete(x)[2].k = x
        /\ delete(x)[2].must = FALSE /\ delete(x)[2].skip = 0 /\ delete(x)[2].undo = <<>>
  BY <1>1, QuietPair, Zenon
<1> HIDE DEF S, snaps, delete, p
<1>6. ASSUME NEW i \in 1..(2 * N)
      PROVE  \E n \in 1..N : /\ n = (i + 1) \div 2
                             /\ \/ i = 2 * n - 1 /\ p[i] = delete(snaps[n])[1]
                                \/ i = 2 * n /\ p[i] = delete(snaps[n])[2]
  <2>1. PICK n \in 1..N : i = 2 * n - 1 \/ i = 2 * n
    <3>1. PICK n \in Nat : n = (i + 1) \div 2
      OBVIOUS
    <3>2. n \in 1..N /\ (i = 2 * n - 1 \/ i = 2 * n)
      BY <3>1
    <3> QED
      BY <3>2
  <2>2. CASE i = 2 * n - 1
    <3>1. (i + 1) \div 2 = n /\ i % 2 = 1
      BY <2>2
    <3>2. p[i] = delete(snaps[n])[2 - 1]
      BY <1>4, <3>1
    <3> QED
      BY <2>2, <3>1, <3>2
  <2>3. CASE i = 2 * n
    <3>1. (i + 1) \div 2 = n /\ i % 2 = 0
      BY <2>3
    <3>2. p[i] = delete(snaps[n])[2 - 0]
      BY <1>4, <3>1
    <3> QED
      BY <2>3, <3>1, <3>2
  <2> QED
    BY <2>1, <2>2, <2>3
<1>7. ASSUME NEW n \in 1..N
      PROVE  /\ 2 * n - 1 \in 1..(2 * N) /\ p[2 * n - 1] = delete(snaps[n])[1]
             /\ 2 * n \in 1..(2 * N) /\ p[2 * n] = delete(snaps[n])[2]
  <2>1. 2 * n - 1 \in 1..(2 * N) /\ 2 * n \in 1..(2 * N)
    OBVIOUS
  <2>2. PICK i \in 1..(2 * N), j \in 1..(2 * N) : i = 2 * n - 1 /\ j = 2 * n
    BY <2>1
  <2>3. p[i] = delete(snaps[n])[1]
    <3>1. PICK m \in 1..N : \/ i = 2 * m - 1 /\ p[i] = delete(snaps[m])[1]
                            \/ i = 2 * m /\ p[i] = delete(snaps[m])[2]
      BY <1>6
    <3>2. m = n /\ i = 2 * m - 1
      BY <2>2, <3>1
    <3> QED
      BY <3>1, <3>2
  <2>4. p[j] = delete(snaps[n])[2]
    <3>1. PICK m \in 1..N : \/ j = 2 * m - 1 /\ p[j] = delete(snaps[m])[1]
                            \/ j = 2 * m /\ p[j] = delete(snaps[m])[2]
      BY <1>6
    <3>2. m = n /\ j = 2 * m
      BY <2>2, <3>1
    <3> QED
      BY <3>1, <3>2
  <2> QED
    BY <2>2, <2>3, <2>4
<1>8. ASSUME NEW i \in 1..(2 * N)
      PROVE  /\ p[i] \in Steps
             /\ p[i].do \in {"destroy", "remove"} /\ p[i].k \in S /\ p[i].must = FALSE
             /\ p[i].undo = <<>>
             /\ p[i].do = "destroy" => /\ i + 1 \in 1..(2 * N) /\ p[i].skip = 1
                                       /\ p[i + 1].do = "remove" /\ p[i + 1].k = p[i].k
             /\ p[i].do = "remove" => p[i].skip = 0 /\ i > 1 /\ p[i - 1].do = "destroy"
  <2>1. PICK n \in 1..N : \/ i = 2 * n - 1 /\ p[i] = delete(snaps[n])[1]
                          \/ i = 2 * n /\ p[i] = delete(snaps[n])[2]
    BY <1>6, Zenon
  <2>2. snaps[n] \in S
    BY <1>3
  <2>3. CASE i = 2 * n - 1 /\ p[i] = delete(snaps[n])[1]
    <3>1. i + 1 = 2 * n /\ i + 1 \in 1..(2 * N)
      BY <2>3
    <3>2. p[i + 1] = delete(snaps[n])[2]
      BY <1>7, <3>1
    <3> QED
      BY <1>5, <2>2, <2>3, <3>1, <3>2
  <2>4. CASE i = 2 * n /\ p[i] = delete(snaps[n])[2]
    <3>1. i - 1 = 2 * n - 1 /\ i > 1
      BY <2>4
    <3>2. p[i - 1] = delete(snaps[n])[1]
      BY <1>7, <3>1
    <3> QED
      BY <1>5, <2>2, <2>4, <3>1, <3>2
  <2> QED
    BY <2>1, <2>3, <2>4, Zenon
<1>9. p \in Seq(Steps) /\ DOMAIN p = 1..(2 * N)
  <2>1. PICK M \in Nat : M = 2 * N
    OBVIOUS
  <2>2. p \in [1..M -> Steps]
    BY <1>4, <1>8, <2>1, Zenon
  <2> QED
    BY <2>1, <2>2, Written
<1>10. ASSUME NEW x \in S
       PROVE  Pending(p, "destroy", x) /\ Pending(p, "remove", x)
  <2>1. PICK n \in 1..N : snaps[n] = x
    BY <1>3
  <2>2. PICK i \in 1..(2 * N), j \in 1..(2 * N) : i = 2 * n - 1 /\ j = 2 * n
    OBVIOUS
  <2>3. p[i] = delete(x)[1] /\ p[j] = delete(x)[2]
    BY <1>7, <2>1, <2>2
  <2> QED
    BY <1>5, <1>9, <2>3 DEF Pending
<1> QED
  BY <1>8, <1>9, <1>10, ZenonT(60) DEF p, S

\* A rename moves each snapshot's row, once.
LEMMA SnapRenames ==
  ASSUME TypeInv, NEW k \in Keys, NEW new \in ContainerKeys
  PROVE  LET p == RenameSnapshots(k, new) IN
         /\ p \in Seq(Steps)
         /\ \A i \in DOMAIN p :
              /\ p[i].do = "renamerow" /\ p[i].k \in SnapshotsOf(k) /\ p[i].x = Renamed(p[i].k, new)
              /\ p[i].must = TRUE /\ p[i].undo = <<>>
         /\ \A i, j \in DOMAIN p : p[i].k = p[j].k => i = j
         /\ \A x \in SnapshotsOf(k) : Pending(p, "renamerow", x)
<1> DEFINE S == SnapshotsOf(k)
           snaps == SetToSeq(S)
           p == RenameSnapshots(k, new)
           step(x) == Step("renamerow", x, Renamed(x, new))
<1>1. IsFiniteSet(S) /\ S \subseteq Keys
  BY SnapshotsFinite
<1>2. PICK N \in Nat : N = Cardinality(S)
  BY <1>1, InOrder
<1>3. /\ snaps \in [1..N -> S] /\ \A x \in S : \E i \in 1..N : snaps[i] = x
      /\ \A i, j \in 1..N : snaps[i] = snaps[j] => i = j
  BY <1>1, <1>2, InOrder
<1>4. p = [i \in 1..N |-> step(snaps[i])]
  BY <1>2 DEF RenameSnapshots
<1>5. ASSUME NEW x \in S
      PROVE  /\ step(x) \in Steps /\ step(x).do = "renamerow" /\ step(x).k = x /\ step(x).x = Renamed(x, new)
             /\ step(x).must = TRUE /\ step(x).undo = <<>>
  <2>1. x \in Keys /\ Renamed(x, new) \in Keys /\ "renamerow" \in Dos
    BY <1>1, RenamedFacts DEF Dos
  <2>2. PICK y \in Keys : y = Renamed(x, new)
    BY <2>1
  <2>3. <<>> \in Undos /\ step(x) = Step("renamerow", x, y)
    BY <2>2, UndoFacts, <2>1, Zenon
  <2>4. Step("renamerow", x, y) \in Steps /\ Is(Step("renamerow", x, y), "renamerow", x, <<>>)
    BY <2>1, <2>3, IsOrElse
  <2>5. Step("renamerow", x, y).x = y
    BY DEF Step
  <2> QED
    BY <2>2, <2>3, <2>4, <2>5 DEF Is
<1> HIDE DEF S, snaps, p, step
<1>6. \A i \in 1..N : p[i] = step(snaps[i]) /\ snaps[i] \in S
  BY <1>3, <1>4
<1>7. p \in Seq(Steps) /\ DOMAIN p = 1..N
  <2>1. p \in [1..N -> Steps]
    BY <1>4, <1>5, <1>6, Zenon
  <2> QED
    BY <2>1, Written
<1>8. ASSUME NEW x \in S
      PROVE  Pending(p, "renamerow", x)
  <2>1. PICK i \in 1..N : snaps[i] = x
    BY <1>3
  <2>2. p[i] = step(x) /\ i \in DOMAIN p
    BY <1>6, <1>7, <2>1
  <2> QED
    BY <1>5, <2>2, Zenon DEF Pending
<1>9. ASSUME NEW i \in 1..N
      PROVE  /\ p[i].do = "renamerow" /\ p[i].k \in S /\ p[i].x = Renamed(p[i].k, new)
             /\ p[i].must = TRUE /\ p[i].undo = <<>> /\ p[i].k = snaps[i]
  <2>1. PICK x \in S : x = snaps[i] /\ p[i] = step(x)
    BY <1>6
  <2> QED
    BY <1>5, <2>1, ZenonT(60)
<1>10. /\ \A i \in DOMAIN p :
            /\ p[i].do = "renamerow" /\ p[i].k \in S /\ p[i].x = Renamed(p[i].k, new)
            /\ p[i].must = TRUE /\ p[i].undo = <<>>
       /\ \A i, j \in DOMAIN p : p[i].k = p[j].k => i = j
  <2>1. ASSUME NEW i \in 1..N, NEW j \in 1..N, p[i].k = p[j].k
        PROVE  i = j
    <3>1. snaps[i] = snaps[j]
      BY <1>9, <2>1, Zenon
    <3> QED
      BY <1>3, <3>1
  <2> QED
    BY <1>7, <1>9, <2>1, Zenon
<1> QED
  BY <1>7, <1>8, <1>10 DEF p, S

\* The steps of a delete.
LEMMA DeleteSteps ==
  ASSUME NEW k \in Keys
  PROVE  LET p == DeletePlan(k) IN
         /\ p \in Seq(Steps)
         /\ k \in SnapshotKeys => /\ Len(p) = 2 /\ DOMAIN p = 1..2
                                  /\ Is(p[1], "destroy", k, <<>>) /\ Is(p[2], "remove", k, <<>>)
         /\ k \in ContainerKeys => /\ Len(p) = 3 /\ DOMAIN p = 1..3
                                   /\ Is(p[1], "containerDeleteSnapshots", k, <<>>)
                                   /\ Is(p[2], "destroy", k, <<>>) /\ Is(p[3], "remove", k, <<>>)
<1>1. {"containerDeleteSnapshots", "destroy", "remove"} \subseteq Dos /\ <<>> \in Undos
  BY UndoFacts, Zenon DEF Dos, Calls
<1>2. PICK a, b, c : /\ a = Step("containerDeleteSnapshots", k, k) /\ b = Step("destroy", k, k)
                     /\ c = Step("remove", k, k)
  OBVIOUS
<1>3. /\ a \in Steps /\ Is(a, "containerDeleteSnapshots", k, <<>>) /\ b \in Steps /\ Is(b, "destroy", k, <<>>)
      /\ c \in Steps /\ Is(c, "remove", k, <<>>)
  BY <1>1, <1>2, IsOrElse
<1>4. IsSnapshot(k) => DeletePlan(k) = <<b, c>>
  BY <1>2 DEF DeletePlan, ContainerRemove
<1>5. ~IsSnapshot(k) => DeletePlan(k) = <<a, b, c>>
  BY <1>2 DEF DeletePlan, ContainerRemove
<1>6. PICK p, q : p = <<b, c>> /\ q = <<a, b, c>>
  BY Zenon
<1>7. /\ p \in Seq(Steps) /\ Len(p) = 2 /\ DOMAIN p = 1..2 /\ p[1] = b /\ p[2] = c
      /\ q \in Seq(Steps) /\ Len(q) = 3 /\ DOMAIN q = 1..3 /\ q[1] = a /\ q[2] = b /\ q[3] = c
  BY <1>3, <1>6
<1>8. (k \in SnapshotKeys /\ IsSnapshot(k)) \/ (k \in ContainerKeys /\ ~IsSnapshot(k))
  BY KeyFacts
<1>9. /\ k \in SnapshotKeys => DeletePlan(k) = p /\ k \notin ContainerKeys
      /\ k \in ContainerKeys => DeletePlan(k) = q /\ k \notin SnapshotKeys
      /\ k \in SnapshotKeys \cup ContainerKeys
  BY <1>4, <1>5, <1>6, <1>8, KeyFacts
<1>10. CASE k \in SnapshotKeys
  BY <1>3, <1>7, <1>9, <1>10
<1>11. CASE k \in ContainerKeys
  BY <1>3, <1>7, <1>9, <1>11
<1> QED
  BY <1>9, <1>10, <1>11

\* The steps of the function Delete: none must work.
LEMMA QuietDelete ==
  ASSUME NEW k \in Keys
  PROVE  LET q == Quietly(DeletePlan(k)) IN
         /\ q \in Seq(Steps) /\ q # <<>>
         /\ \A i \in DOMAIN q :
              /\ q[i].do \in {"containerDeleteSnapshots", "destroy", "remove"} /\ q[i].k = k
              /\ q[i].must = FALSE /\ q[i].undo = <<>>
              /\ q[i].do = "destroy" => /\ i + 1 \in DOMAIN q /\ q[i].skip = 1
                                        /\ q[i + 1].do = "remove" /\ q[i + 1].k = q[i].k
              /\ q[i].do = "remove" => q[i].skip = 0 /\ i > 1 /\ q[i - 1].do = "destroy"
         /\ Pending(q, "destroy", k) /\ Pending(q, "remove", k)
<1> DEFINE p == DeletePlan(k)
           q == Quietly(p)
<1>1. p \in Seq(Steps)
  BY DeleteSteps
<1>2. PICK N \in Nat : N = Len(p) /\ DOMAIN p = 1..N
  BY <1>1, LenProperties
<1>3. q = [i \in 1..N |-> [p[i] EXCEPT !.must = FALSE, !.skip = N - i]]
  BY <1>2 DEF Quietly
<1>4. /\ k \in SnapshotKeys => /\ N = 2
                               /\ Is(p[1], "destroy", k, <<>>) /\ Is(p[2], "remove", k, <<>>)
      /\ k \in ContainerKeys => /\ N = 3
                                /\ Is(p[1], "containerDeleteSnapshots", k, <<>>)
                                /\ Is(p[2], "destroy", k, <<>>) /\ Is(p[3], "remove", k, <<>>)
  BY <1>2, DeleteSteps, Zenon
<1>5. \A i \in 1..N : p[i] \in Steps
  BY <1>1, <1>2, ElementOfSeq
<1> HIDE DEF p, q
<1>6. ASSUME NEW i \in 1..N
      PROVE  /\ q[i] \in Steps /\ q[i].do = p[i].do /\ q[i].k = p[i].k /\ q[i].undo = p[i].undo
             /\ q[i].must = FALSE /\ q[i].skip = N - i
  <2>1. PICK a : a = p[i] /\ a \in Steps
    BY <1>5
  <2>2. PICK n \in Nat : n = N - i
    OBVIOUS
  <2>3. PICK b : b = [a EXCEPT !.must = FALSE, !.skip = n]
    OBVIOUS
  <2>4. q[i] = b
    BY <1>3, <2>1, <2>2, <2>3, Zenon
  <2>5. b \in Steps /\ b.do = a.do /\ b.k = a.k /\ b.undo = a.undo /\ b.must = FALSE /\ b.skip = n
    BY <2>1, <2>3, QuietStep, ZenonT(60)
  <2> QED
    BY <2>1, <2>2, <2>4, <2>5
<1>7. q \in Seq(Steps) /\ DOMAIN q = 1..N /\ Len(q) = N
  <2>1. q \in [1..N -> Steps]
    BY <1>3, <1>6, Zenon
  <2> QED
    BY <2>1, Written
<1>8. CASE k \in SnapshotKeys
  <2>1. /\ N = 2 /\ q[1].do = "destroy" /\ q[1].k = k /\ q[1].undo = <<>> /\ q[1].must = FALSE /\ q[1].skip = 1
        /\ q[2].do = "remove" /\ q[2].k = k /\ q[2].undo = <<>> /\ q[2].must = FALSE /\ q[2].skip = 0
    <3>1. N = 2 /\ Is(p[1], "destroy", k, <<>>) /\ Is(p[2], "remove", k, <<>>)
      BY <1>4, <1>8
    <3>2. 1 \in 1..N /\ 2 \in 1..N /\ N - 1 = 1 /\ N - 2 = 0
      BY <3>1
    <3>3. /\ q[1].do = p[1].do /\ q[1].k = p[1].k /\ q[1].undo = p[1].undo
          /\ q[1].must = FALSE /\ q[1].skip = N - 1
      BY <1>6, <3>2, Zenon
    <3>4. /\ q[2].do = p[2].do /\ q[2].k = p[2].k /\ q[2].undo = p[2].undo
          /\ q[2].must = FALSE /\ q[2].skip = N - 2
      BY <1>6, <3>2, Zenon
    <3> QED
      BY <3>1, <3>2, <3>3, <3>4 DEF Is
  <2>2. DOMAIN q = 1..2 /\ q # <<>>
    <3>1. q \in Seq(Steps) /\ Len(q) = 2
      BY <1>7, <2>1
    <3> QED
      BY <3>1
  <2>3. Pending(q, "destroy", k) /\ Pending(q, "remove", k)
    BY <2>1, <2>2 DEF Pending
  <2> QED
    BY <1>7, <2>1, <2>2, <2>3 DEF q, p
<1>9. CASE k \in ContainerKeys
  <2>1. /\ N = 3 /\ q[1].do = "containerDeleteSnapshots" /\ q[1].k = k /\ q[1].undo = <<>> /\ q[1].must = FALSE
        /\ q[2].do = "destroy" /\ q[2].k = k /\ q[2].undo = <<>> /\ q[2].must = FALSE /\ q[2].skip = 1
        /\ q[3].do = "remove" /\ q[3].k = k /\ q[3].undo = <<>> /\ q[3].must = FALSE /\ q[3].skip = 0
    <3>1. N = 3 /\ Is(p[1], "containerDeleteSnapshots", k, <<>>) /\ Is(p[2], "destroy", k, <<>>)
          /\ Is(p[3], "remove", k, <<>>)
      BY <1>4, <1>9
    <3>2. 1 \in 1..N /\ 2 \in 1..N /\ 3 \in 1..N /\ N - 2 = 1 /\ N - 3 = 0
      BY <3>1
    <3>3. /\ q[1].do = p[1].do /\ q[1].k = p[1].k /\ q[1].undo = p[1].undo
          /\ q[1].must = FALSE
      BY <1>6, <3>2, Zenon
    <3>4. /\ q[2].do = p[2].do /\ q[2].k = p[2].k /\ q[2].undo = p[2].undo
          /\ q[2].must = FALSE /\ q[2].skip = N - 2
      BY <1>6, <3>2, Zenon
    <3>5. /\ q[3].do = p[3].do /\ q[3].k = p[3].k /\ q[3].undo = p[3].undo
          /\ q[3].must = FALSE /\ q[3].skip = N - 3
      BY <1>6, <3>2, Zenon
    <3> QED
      BY <3>1, <3>2, <3>3, <3>4, <3>5 DEF Is
  <2>2. DOMAIN q = 1..3 /\ q # <<>>
    <3>1. q \in Seq(Steps) /\ Len(q) = 3
      BY <1>7, <2>1
    <3> QED
      BY <3>1
  <2>3. Pending(q, "destroy", k) /\ Pending(q, "remove", k)
    BY <2>1, <2>2 DEF Pending
  <2> QED
    BY <1>7, <2>1, <2>2, <2>3 DEF q, p
<1> QED
  BY <1>8, <1>9, Zenon DEF Keys

\* A request to delete.
LEMMA DeleteRequest ==
  ASSUME NEW k \in Keys, NEW th, th.todo = DeletePlan(k), th.k = k, th.failed = FALSE
  PROVE  /\ DeletePlan(k) \in Seq(Steps) /\ DeletePlan(k) # <<>> /\ Deleting(th)
         /\ Pending(th.todo, "destroy", k) /\ \A i \in DOMAIN th.todo : ~Bare(th.todo, i)
         /\ k \in ContainerKeys => Holds(th.todo, "containerDeleteSnapshots")
<1>1. k \in Family(k)
  BY DEF Family
<1>2. PICK p : p = th.todo /\ p \in Seq(Steps)
  BY DeleteSteps
<1>3. CASE k \in SnapshotKeys
  <2>1. /\ Len(p) = 2 /\ DOMAIN p = 1..2
        /\ Is(p[1], "destroy", k, <<>>) /\ Is(p[2], "remove", k, <<>>)
    BY <1>2, <1>3, DeleteSteps
  <2>2. p # <<>>
    BY <2>1
  <2>3. \A i \in DOMAIN p : i = 1 \/ i = 2
    BY <2>1
  <2>4. Deleting(th)
    BY <1>1, <1>2, <2>1, <2>2, <2>3 DEF Deleting, Dropping, Drops, Is, Calls
  <2>5. Pending(p, "destroy", k) /\ \A i \in DOMAIN p : ~Bare(p, i)
    BY <2>1, <2>3 DEF Pending, Bare, Is
  <2>6. k \notin ContainerKeys
    BY <1>3, KeyFacts
  <2> QED
    BY <1>2, <2>2, <2>4, <2>5, <2>6
<1>4. CASE k \in ContainerKeys
  <2>1. /\ Len(p) = 3 /\ DOMAIN p = 1..3
        /\ Is(p[1], "containerDeleteSnapshots", k, <<>>)
        /\ Is(p[2], "destroy", k, <<>>) /\ Is(p[3], "remove", k, <<>>)
    BY <1>2, <1>4, DeleteSteps
  <2>2. p # <<>>
    BY <2>1, SMTT(60)
  <2>3. \A i \in DOMAIN p : i = 1 \/ i = 2 \/ i = 3
    BY <2>1
  <2>4. Deleting(th)
    BY <1>1, <1>2, <2>1, <2>2, <2>3 DEF Deleting, Dropping, Drops, Is, Calls
  <2>5. Pending(p, "destroy", k) /\ \A i \in DOMAIN p : ~Bare(p, i)
    BY <2>1, <2>3 DEF Pending, Bare, Is
  <2>6. Holds(p, "containerDeleteSnapshots")
    BY <2>1 DEF Holds, Is
  <2> QED
    BY <1>2, <2>2, <2>4, <2>5, <2>6
<1> QED
  BY <1>3, <1>4 DEF Keys

\* A request to rename.
LEMMA RenameRequest ==
  ASSUME NEW k \in ContainerKeys, NEW new \in ContainerKeys, k # new
  PROVE  LET p == Rename(k, new) IN
         /\ p \in Seq(Steps) /\ p # <<>> /\ Len(p) = 4 /\ DOMAIN p = 1..4
         /\ Is(p[1], "check", k, <<>>) /\ Is(p[2], "move", k, <<>>)
         /\ Is(p[3], "renamerow", k, <<>>) /\ Is(p[4], "RenameSnapshots", k, <<>>)
         /\ \A i \in {2, 3, 4} : p[i].x = new
         /\ \A th : th.todo = p /\ th.k = k /\ th.failed = FALSE => RenamingPlan(th)
<1>1. {"check", "move", "renamerow", "RenameSnapshots"} \subseteq Dos /\ <<>> \in Undos
  BY DEF Dos, Calls, Undos
<1>2. /\ k \in Keys /\ new \in Keys /\ Of(k) = k /\ Of(new) = new /\ ~IsSnapshot(k) /\ ~IsSnapshot(new)
  BY KeyFacts
<1>3. PICK a, b, c, d : /\ a = Step("check", k, k) /\ b = Step("move", k, new)
                        /\ c = Step("renamerow", k, new) /\ d = Step("RenameSnapshots", k, new)
  OBVIOUS
<1>4. /\ a \in Steps /\ b \in Steps /\ c \in Steps /\ d \in Steps
      /\ Is(a, "check", k, <<>>) /\ Is(b, "move", k, <<>>) /\ Is(c, "renamerow", k, <<>>)
      /\ Is(d, "RenameSnapshots", k, <<>>)
  BY <1>1, <1>2, <1>3, IsOrElse
<1>5. b.x = new /\ c.x = new /\ d.x = new
  BY <1>3 DEF Step
<1>6. PICK p : p = <<a, b, c, d>>
  BY Zenon
<1>7. Rename(k, new) = p
  BY <1>3, <1>6 DEF Rename, Check
<1>8. /\ p \in Seq(Steps) /\ Len(p) = 4 /\ DOMAIN p = 1..4
      /\ p[1] = a /\ p[2] = b /\ p[3] = c /\ p[4] = d /\ p # <<>>
  BY <1>4, <1>6
<1>9. Renamed(k, new) = new
  BY <1>2 DEF Renamed
<1>10. ASSUME NEW th, th.todo = p, th.k = k, th.failed = FALSE
       PROVE  RenamingPlan(th)
  <2>1. \A i \in DOMAIN p : i = 1 \/ i = 2 \/ i = 3 \/ i = 4
    BY <1>8
  <2>2. ASSUME NEW i \in DOMAIN p
        PROVE  /\ p[i].do \in {"check", "move", "renamerow", "RenameSnapshots"}
               /\ p[i].must /\ p[i].undo = <<>>
               /\ p[i].do \in {"move", "RenameSnapshots"} => p[i].k = th.k /\ p[i].x \in ContainerKeys
               /\ p[i].do = "renamerow" => /\ Of(p[i].k) = th.k
                                           /\ p[i].x = Renamed(p[i].k, Of(p[i].x))
               /\ p[i].do # "check" => Of(p[i].x) # th.k
               /\ p[i].do = "check" => i = 1 /\ Len(p) = 4 /\ p[2].do = "move"
               /\ p[i].do = "move" => i + 2 = Len(p) /\ p[i + 1].do = "renamerow"
                                      /\ p[i + 1].k = th.k /\ p[i + 2].do = "RenameSnapshots"
    <3>1. CASE i = 1
      BY <1>4, <1>8, <3>1 DEF Is
    <3>2. CASE i = 2
      BY <1>2, <1>4, <1>5, <1>8, <1>10, <3>2 DEF Is
    <3>3. CASE i = 3
      BY <1>2, <1>4, <1>5, <1>8, <1>9, <1>10, <3>3 DEF Is
    <3>4. CASE i = 4
      BY <1>2, <1>4, <1>5, <1>8, <1>10, <3>4 DEF Is
    <3> QED
      BY <2>1, <3>1, <3>2, <3>3, <3>4
  <2>3. ASSUME NEW i \in DOMAIN p, NEW j \in DOMAIN p, i < j
        PROVE  /\ p[i].do # "check" => Of(p[i].x) = Of(p[j].x)
               /\ p[j].do = "move" => p[i].do = "check"
               /\ p[i].do = "renamerow" /\ p[j].do = "renamerow" => p[i].k # p[j].k
               /\ p[j].do = "renamerow" /\ p[j].k = th.k => p[i].do \in {"check", "move"}
               /\ p[j].do = "RenameSnapshots" => p[i].do \in {"check", "move"} \/ p[i].k = th.k
               /\ p[i].do # "RenameSnapshots"
    BY <1>4, <1>5, <1>8, <1>10, <2>1, <2>3 DEF Is
  <2> QED
    BY <1>10, <2>2, <2>3 DEF RenamingPlan
<1> QED
  BY <1>4, <1>5, <1>7, <1>8, <1>10, Zenon

\* A request to restore.
LEMMA RestoreRequest ==
  ASSUME NEW k \in ContainerKeys, NEW x \in Keys, NEW th, th.todo = Restore(k, x), th.failed = FALSE
  PROVE  th.todo \in Seq(Steps) /\ th.todo # <<>> /\ Restoring(th)
<1>1. {"check", "restore", "update"} \subseteq Dos /\ <<>> \in Undos /\ k \in Keys
  BY UndoFacts, KeyFacts, Zenon DEF Dos
<1>2. PICK a, b, c : a = Step("check", k, k) /\ b = Step("restore", k, x) /\ c = Step("update", k, x)
  OBVIOUS
<1>3. /\ a \in Steps /\ b \in Steps /\ c \in Steps
      /\ Is(a, "check", k, <<>>) /\ Is(b, "restore", k, <<>>) /\ Is(c, "update", k, <<>>)
  BY <1>1, <1>2, IsOrElse
<1>4. PICK p : p = <<a, b, c>>
  BY Zenon
<1>5. th.todo = p
  BY <1>2, <1>4 DEF Restore, Check
<1>6. p \in Seq(Steps) /\ DOMAIN p = 1..3 /\ p[1] = a /\ p[2] = b /\ p[3] = c /\ p # <<>>
  BY <1>3, <1>4
<1>7. \A i \in DOMAIN p : i = 1 \/ i = 2 \/ i = 3
  BY <1>6
<1> QED
  BY <1>3, <1>5, <1>6, <1>7 DEF Restoring, Is

-----------------------------------------------------------------------------
(* findIdmap.                                                                *)

(* A set of numbers has a least one (for a loop that ends).                  *)
LEMMA LeastNumber ==
  ASSUME NEW T, T \subseteq Nat, T # {}
  PROVE  \E x \in T : \A y \in T : x <= y
<1>1. PICK x \in T : \A y \in T : <<y, x>> \notin OpToRel(<, Nat)
  BY WFMin, NatLessThanWellFounded, Zenon
<1>2. ASSUME NEW y \in T, ~(x <= y)
      PROVE  FALSE
  <2>1. <<y, x>> \in Nat \X Nat /\ y < x
    BY <1>2
  <2> QED
    BY <1>1, <2>1 DEF OpToRel
<1> QED
  BY <1>2

(* Induction over the entries.                                               *)
LEMMA NatLoop ==
  ASSUME NEW T, T \subseteq Nat, 0 \in T, \A k \in T : k + 1 \in T
  PROVE  T = Nat
<1> SUFFICES ASSUME Nat \ T # {}
             PROVE  FALSE
  BY Zenon
<1>1. PICK x \in Nat \ T : \A y \in Nat \ T : x <= y
  BY LeastNumber, Zenon
<1>2. x - 1 \in Nat /\ x - 1 \in T
  BY <1>1
<1> QED
  BY <1>1, <1>2

Entries(k) ==
  {[key |-> x, base |-> rows[x].base, end |-> rows[x].base + rows[x].size] :
     x \in {x \in DOMAIN rows : ~IsSnapshot(x) /\ x # k /\ rows[x].size > 0}}

Sorted(e, E, n) ==
  /\ e \in [1..n -> E]
  /\ \A f \in E : \E i \in 1..n : e[i] = f
  /\ \A i, j \in 1..n : i < j => e[i].base <= e[j].base

(* Finitely many entries can be sorted.                                      *)
LEMMA CanBeSorted ==
  ASSUME NEW E0, IsFiniteSet(E0), \A f \in E0 : f.base \in Nat
  PROVE  \E e : Sorted(e, E0, Cardinality(E0))
<1> DEFINE Good(n) == \A E \in SUBSET E0 : Cardinality(E) = n => \E e : Sorted(e, E, n)
           T == {n \in Nat : Good(n)}
<1>1. 0 \in T
  <2> SUFFICES ASSUME NEW E \in SUBSET E0, Cardinality(E) = 0
               PROVE  \E e : Sorted(e, E, 0)
    OBVIOUS
  <2>1. E = {}
    BY FS_Subset, FS_EmptySet
  <2>2. Sorted([i \in 1..0 |-> 0], E, 0)
    BY <2>1 DEF Sorted
  <2> QED
    BY <2>2
<1>2. ASSUME NEW n \in T
      PROVE  n + 1 \in T
  <2> SUFFICES ASSUME NEW E \in SUBSET E0, Cardinality(E) = n + 1
               PROVE  \E e : Sorted(e, E, n + 1)
    OBVIOUS
  <2>1. IsFiniteSet(E) /\ E # {}
    BY FS_Subset, FS_EmptySet
  <2> DEFINE B == {f.base : f \in E}
  <2>2. PICK x \in E : \A f \in E : x.base <= f.base
    <3>1. B \subseteq Nat /\ B # {}
      BY <2>1
    <3>2. PICK b \in B : \A c \in B : b <= c
      BY <3>1, LeastNumber, Zenon
    <3> QED
      BY <3>2
  <2>3. Cardinality(E \ {x}) = n /\ E \ {x} \in SUBSET E0
    <3>1. Cardinality(E \ {x}) = Cardinality(E) - 1
      BY <2>1, FS_RemoveElement, Zenon
    <3>2. n \in Nat
      OBVIOUS
    <3> QED
      BY <3>1, <3>2
  <2>4. PICK d : Sorted(d, E \ {x}, n)
    BY <2>3
  <2> DEFINE e == [i \in 1..(n + 1) |-> IF i = 1 THEN x ELSE d[i - 1]]
  <2>5. \A i \in 1..(n + 1) : i = 1 \/ i - 1 \in 1..n
    OBVIOUS
  <2>6. e \in [1..(n + 1) -> E]
    BY <2>4, <2>5 DEF Sorted
  <2>7. e[1] = x /\ \A i \in 1..n : i + 1 \in 1..(n + 1) /\ e[i + 1] = d[i]
    OBVIOUS
  <2>8. ASSUME NEW f \in E
        PROVE  \E i \in 1..(n + 1) : e[i] = f
    <3>1. CASE f = x
      BY <2>7, <3>1
    <3>2. CASE f # x
      <4>1. PICK i \in 1..n : d[i] = f
        BY <2>4, <3>2 DEF Sorted
      <4> HIDE DEF e
      <4> QED
        BY <2>7, <4>1
    <3> QED
      BY <3>1, <3>2
  <2>9. ASSUME NEW i \in 1..(n + 1), NEW j \in 1..(n + 1), i < j
        PROVE  e[i].base <= e[j].base
    <3>1. j # 1 /\ j - 1 \in 1..n /\ e[j] = d[j - 1]
      BY <2>9
    <3>2. CASE i = 1
      <4>1. e[i] = x /\ e[j] \in E
        BY <2>6, <3>2
      <4> HIDE DEF e
      <4> QED
        BY <2>2, <4>1
    <3>3. CASE i # 1
      <4>1. i - 1 \in 1..n /\ e[i] = d[i - 1] /\ i - 1 < j - 1
        BY <2>9, <3>3
      <4> HIDE DEF e
      <4> QED
        BY <2>4, <3>1, <4>1 DEF Sorted
    <3> QED
      BY <3>2, <3>3
  <2> HIDE DEF e
  <2>10. Sorted(e, E, n + 1)
    BY <2>6, <2>8, <2>9 DEF Sorted
  <2> QED
    BY <2>10
<1>3. T = Nat
  <2>1. T \subseteq Nat
    OBVIOUS
  <2> HIDE DEF T
  <2> QED
    BY <1>1, <1>2, <2>1, NatLoop, Zenon
<1>4. Cardinality(E0) \in Nat
  BY FS_CardinalityType
<1> QED
  BY <1>3, <1>4

(* mapentries goes through the ranges of the others by base, each once.      *)
LEMMA MapEntries ==
  ASSUME TypeInv, NEW k
  PROVE  LET e == mapentries(k)
             N == Len(e) IN
         /\ N \in Nat /\ Sorted(e, Entries(k), N)
         /\ \A i, j \in 1..N : e[i] = e[j] => i = j
<1> DEFINE E == Entries(k)
<1>1. IsFiniteSet(E)
  <2> DEFINE D == {x \in DOMAIN rows : ~IsSnapshot(x) /\ x # k /\ rows[x].size > 0}
             F(x) == [key |-> x, base |-> rows[x].base, end |-> rows[x].base + rows[x].size]
  <2>1. IsFiniteSet(D)
    <3>1. D \subseteq DOMAIN rows /\ IsFiniteSet(DOMAIN rows)
      BY DEF TypeInv
    <3> QED
      BY <3>1, FS_Subset
  <2> DEFINE g == [x \in D |-> F(x)]
  <2>2. g \in Surjection(D, E)
    BY DEF Surjection, Entries
  <2> QED
    BY <2>1, <2>2, FS_Surjection
<1>2. \A f \in E : f.base \in Nat
  BY DEF Entries, TypeInv, RowSet
<1>3. PICK N \in Nat : N = Cardinality(E)
  BY <1>1, FS_CardinalityType
<1>4. \E e : Sorted(e, E, N)
  BY <1>1, <1>2, <1>3, CanBeSorted
<1>5. mapentries(k) = CHOOSE e \in [1..N -> E] :
         /\ \A f \in E : \E i \in 1..N : e[i] = f
         /\ \A i, j \in 1..N : i < j => e[i].base <= e[j].base
  BY <1>3 DEF mapentries, Entries
<1> DEFINE e == mapentries(k)
<1> HIDE DEF E
<1>6. Sorted(e, E, N)
  BY <1>4, <1>5, Zenon DEF Sorted
<1> HIDE DEF e
<1>7. Len(e) = N
  BY <1>6, Written DEF Sorted
<1>8. ASSUME NEW i \in 1..N, NEW j \in 1..N, e[i] = e[j]
      PROVE  i = j
  <2>1. e \in Surjection(1..N, E)
    BY <1>6 DEF Surjection, Sorted
  <2>2. IsFiniteSet(1..N) /\ Cardinality(1..N) = N
    BY FS_Interval
  <2>3. e \in Injection(1..N, E)
    BY <1>3, <2>1, <2>2, FS_Surjection
  <2>4. DOMAIN e = 1..N
    BY <1>6 DEF Sorted
  <2> QED
    BY <1>8, <2>3, <2>4 DEF Injection, IsInjective
<1> QED
  BY <1>6, <1>7, <1>8 DEF e, E

Scanned == [offset : Nat, found : BOOLEAN]

(* The turns of the loop, one after the other.                               *)
IsScan(g, base, e, size, m) ==
  g = [i \in 0..m |-> IF i = 0 THEN base ELSE Scan(e, size, g[i - 1], i)]

(* There are such turns, however many entries there are.                     *)
LEMMA ScanDefined ==
  ASSUME NEW base, NEW e, NEW size, NEW N \in Nat
  PROVE  \E g : IsScan(g, base, e, size, N)
<1> DEFINE Round(g, k) == IF k = 0 THEN base ELSE Scan(e, size, g[k - 1], k)
           Loop(g, m) == g = [k \in 0..m |-> Round(g, k)]
           T == {m \in Nat : \E g : Loop(g, m)}
<1>1. 0 \in T
  <2>1. Loop([k \in 0..0 |-> base], 0)
    OBVIOUS
  <2> QED
    BY <2>1, Zenon
<1>2. ASSUME NEW m \in T
      PROVE  m + 1 \in T
  <2>1. PICK g : Loop(g, m)
    OBVIOUS
  <2> DEFINE h == [k \in 0..(m + 1) |-> Round(g, k)]
  <2>2. \A k \in 0..m : h[k] = g[k]
    <3> TAKE k \in 0..m
    <3>1. k \in 0..(m + 1) /\ h[k] = Round(g, k)
      OBVIOUS
    <3>2. g[k] = Round(g, k)
      BY <2>1
    <3> QED
      BY <3>1, <3>2
  <2>3. \A k \in 0..(m + 1) : Round(h, k) = Round(g, k)
    <3> TAKE k \in 0..(m + 1)
    <3>1. CASE k = 0
      BY <3>1
    <3>2. CASE k # 0
      <4>1. k - 1 \in 0..m
        BY <3>2
      <4>2. h[k - 1] = g[k - 1]
        BY <2>2, <4>1, Zenon
      <4> HIDE DEF h
      <4> QED
        BY <3>2, <4>2
    <3> QED
      BY <3>1, <3>2
  <2>4. Loop(h, m + 1)
    <3>1. h = [k \in 0..(m + 1) |-> Round(g, k)]
      OBVIOUS
    <3> HIDE DEF h, Round
    <3> QED
      BY <2>3, <3>1
  <2>5. \E g1 : Loop(g1, m + 1)
    <3> HIDE DEF h, Loop
    <3> QED
      BY <2>4
  <2> HIDE DEF Loop
  <2> QED
    BY <2>5
<1> HIDE DEF Round
<1>3. T = Nat
  <2>1. T \subseteq Nat
    OBVIOUS
  <2> HIDE DEF T
  <2> QED
    BY <1>1, <1>2, <2>1, NatLoop, Zenon
<1>4. \E g : Loop(g, N)
  BY <1>3
<1> QED
  BY <1>4 DEF Round, IsScan

(* All others have ranges within the daemon's, each its own.                 *)
Neat(k) == \A x \in ContainerKeys : Claims(x) /\ x # k => Fits(x, rows[x].base, rows[x].size)

(* A range that k may have, seen from the entries.                           *)
Free(e, N, size, base) ==
  /\ HostBase + DefaultSize <= base
  /\ base + size <= HostBase + HostRange
  /\ \A j \in 1..N : base + size <= e[j].base \/ e[j].end <= base

Entry(f) == f.base \in Nat /\ f.end \in Nat /\ f.base < f.end

(* What an entry is.                                                         *)
LEMMA EntryFacts ==
  ASSUME TypeInv, NEW k, NEW f \in Entries(k)
  PROVE  /\ Entry(f)
         /\ \E x \in ContainerKeys : /\ Claims(x) /\ x # k /\ f.base = rows[x].base
                                     /\ f.end = rows[x].base + rows[x].size /\ f.key = x
<1>1. PICK x \in DOMAIN rows : /\ ~IsSnapshot(x) /\ x # k /\ rows[x].size > 0
        /\ f = [key |-> x, base |-> rows[x].base, end |-> rows[x].base + rows[x].size]
  BY DEF Entries
<1>2. x \in Keys /\ rows[x].base \in Nat /\ rows[x].size \in Nat
  BY DEF TypeInv, RowSet
<1>3. x \in ContainerKeys
  BY <1>1, <1>2, KeyFacts
<1>4. f.base = rows[x].base /\ f.end = rows[x].base + rows[x].size /\ f.key = x
  BY <1>1
<1> QED
  BY <1>1, <1>2, <1>3, <1>4 DEF Claims, Entry

(* Each of the other ranges has an entry.                                    *)
LEMMA HasEntry ==
  ASSUME TypeInv, NEW k, NEW x \in ContainerKeys, Claims(x), x # k
  PROVE  \E f \in Entries(k) : f.base = rows[x].base /\ f.end = rows[x].base + rows[x].size
<1>1. x \in DOMAIN rows /\ ~IsSnapshot(x) /\ rows[x].size > 0
  BY KeyFacts DEF Claims
<1>2. [key |-> x, base |-> rows[x].base, end |-> rows[x].base + rows[x].size] \in Entries(k)
  BY <1>1 DEF Entries
<1> QED
  BY <1>2

(* Neat entries follow one another.                                          *)
LEMMA EntriesApart ==
  ASSUME TypeInv, HostAssumption, NEW k, Neat(k), NEW f \in Entries(k), NEW g \in Entries(k), f # g,
         f.base <= g.base
  PROVE  /\ f.end <= g.base /\ HostBase + DefaultSize <= f.base /\ g.end <= HostBase + HostRange
<1>1. PICK x \in ContainerKeys : /\ Claims(x) /\ x # k /\ f.base = rows[x].base
                                 /\ f.end = rows[x].base + rows[x].size /\ f.key = x
  BY EntryFacts
<1>2. PICK y \in ContainerKeys : /\ Claims(y) /\ y # k /\ g.base = rows[y].base
                                 /\ g.end = rows[y].base + rows[y].size /\ g.key = y
  BY EntryFacts
<1>3. x # y
  <2> SUFFICES ASSUME x = y
               PROVE  f = g
    OBVIOUS
  <2>1. PICK u \in DOMAIN rows : f = [key |-> u, base |-> rows[u].base, end |-> rows[u].base + rows[u].size]
    BY DEF Entries
  <2>2. PICK v \in DOMAIN rows : g = [key |-> v, base |-> rows[v].base, end |-> rows[v].base + rows[v].size]
    BY DEF Entries
  <2>3. u = x /\ v = y
    BY <1>1, <1>2, <2>1, <2>2
  <2> QED
    BY <2>1, <2>2, <2>3
<1>4. /\ rows[x].base \in Nat /\ rows[x].size \in Nat /\ rows[x].size > 0
      /\ rows[y].base \in Nat /\ rows[y].size \in Nat /\ rows[y].size > 0
  BY <1>1, <1>2 DEF Claims, TypeInv, RowSet
<1>5. Fits(x, rows[x].base, rows[x].size) /\ Fits(y, rows[y].base, rows[y].size)
  BY <1>1, <1>2 DEF Neat
<1>6. HostBase \in Nat /\ HostRange \in Nat /\ DefaultSize \in Nat /\ DefaultSize > 0
  BY DEF HostAssumption
<1>7. rows[y].base > 0
  BY <1>4, <1>5, <1>6 DEF Fits
<1>8. Beside(y, rows[x].base, rows[x].size)
  BY <1>2, <1>3, <1>4, <1>5, <1>7 DEF Fits
<1> QED
  BY <1>1, <1>2, <1>4, <1>5, <1>8 DEF Fits, Beside

(* What a turn of the loop makes of the offset.                              *)
LEMMA ScanStep ==
  ASSUME HostAssumption, NEW e, NEW N \in Nat, NEW size \in Nat, NEW i \in 1..N, NEW at \in Scanned,
         \A j \in 1..N : Entry(e[j])
  PROVE  /\ Scan(e, size, at, i) \in Scanned
         /\ LET Order == \A a, b \in 1..N : a < b => e[a].end <= e[b].base
                Within == \A j \in 1..N : HostBase + DefaultSize <= e[j].base /\ e[j].end <= HostBase + HostRange
                Good(s, n) == IF s.found THEN Free(e, N, size, s.offset)
                              ELSE s.offset = IF n = 0 THEN HostBase + DefaultSize ELSE e[n].end
            IN Order /\ Within /\ Good(at, i - 1) => Good(Scan(e, size, at, i), i)
<1> DEFINE last == IF i = 1 THEN 0 ELSE e[i - 1].end
           new == Scan(e, size, at, i)
<1>1. at.offset \in Nat /\ at.found \in BOOLEAN
  BY DEF Scanned
<1>2. /\ e[i].base \in Nat /\ e[i].end \in Nat /\ e[i].base < e[i].end /\ last \in Nat
      /\ i > 1 => i - 1 \in 1..N /\ e[i - 1].base \in Nat /\ e[i - 1].end \in Nat
  BY DEF Entry
<1>3. HostBase \in Nat /\ HostRange \in Nat /\ DefaultSize \in Nat /\ DefaultSize > 0
  BY DEF HostAssumption
<1>4. CASE at.found
  <2>1. new = at
    BY <1>4 DEF Scan
  <2> HIDE DEF new
  <2> QED
    BY <1>4, <2>1 DEF new
<1>5. CASE ~at.found /\ i = 1 /\ e[1].base < at.offset + size
  <2>1. new = [at EXCEPT !.offset = e[1].end]
    BY <1>5 DEF Scan
  <2>2. new.offset = e[1].end /\ new.found = at.found /\ new \in Scanned
    BY <1>2, <1>5, <2>1 DEF Scanned
  <2> HIDE DEF new
  <2> QED
    BY <1>5, <2>2 DEF new
<1>6. CASE ~at.found /\ i = 1 /\ ~(e[1].base < at.offset + size)
  <2>1. new = [at EXCEPT !.found = TRUE]
    BY <1>6 DEF Scan
  <2>2. new.offset = at.offset /\ new.found = TRUE /\ new \in Scanned
    BY <2>1, Zenon DEF Scanned
  <2> HIDE DEF new
  <2>3. ASSUME \A a, b \in 1..N : a < b => e[a].end <= e[b].base,
               \A j \in 1..N : HostBase + DefaultSize <= e[j].base /\ e[j].end <= HostBase + HostRange,
               at.offset = HostBase + DefaultSize
        PROVE  Free(e, N, size, at.offset)
    <3>1. at.offset + size <= e[1].base
      BY <1>1, <1>2, <1>6
    <3>2. ASSUME NEW j \in 1..N
          PROVE  at.offset + size <= e[j].base
      <4>1. j = 1 \/ e[1].end <= e[j].base
        BY <1>6, <2>3
      <4>2. e[j].base \in Nat
        BY DEF Entry
      <4> QED
        BY <1>1, <1>2, <1>6, <3>1, <4>1, <4>2
    <3>3. e[1].end <= HostBase + HostRange
      BY <1>6, <2>3
    <3>4. at.offset + size <= HostBase + HostRange /\ HostBase + DefaultSize <= at.offset
      BY <1>1, <1>2, <1>3, <1>6, <2>3, <3>1, <3>3
    <3> QED
      BY <3>2, <3>4 DEF Free
  <2> QED
    BY <1>6, <2>2, <2>3 DEF new
<1>7. CASE ~at.found /\ i > 1 /\ last > at.offset
  <2>1. new = [at EXCEPT !.offset = last]
    <3>1. ~at.found /\ i # 1 /\ i > 1 /\ e[i - 1].end > at.offset /\ last = e[i - 1].end
      BY <1>7
    <3>2. ~(e[i - 1].end <= at.offset)
      BY <1>1, <1>2, <3>1
    <3> QED
      BY <3>1, <3>2 DEF Scan
  <2>2. new.offset = last /\ new.found = at.found /\ new \in Scanned
    BY <1>2, <2>1 DEF Scanned
  <2> HIDE DEF new
  <2>3. at.offset # e[i - 1].end
    BY <1>1, <1>2, <1>7
  <2> QED
    BY <1>7, <2>2, <2>3 DEF new
<1>8. CASE ~at.found /\ i > 1 /\ last <= at.offset /\ last + size < e[i].base
  <2>1. new = [offset |-> last, found |-> TRUE]
    BY <1>8 DEF Scan
  <2>2. new.offset = last /\ new.found = TRUE /\ new \in Scanned
    BY <1>2, <2>1 DEF Scanned
  <2> HIDE DEF new
  <2>3. ASSUME \A a, b \in 1..N : a < b => e[a].end <= e[b].base,
               \A j \in 1..N : HostBase + DefaultSize <= e[j].base /\ e[j].end <= HostBase + HostRange
        PROVE  Free(e, N, size, last)
    <3>1. last = e[i - 1].end
      BY <1>8
    <3>2. ASSUME NEW j \in 1..N
          PROVE  last + size <= e[j].base \/ e[j].end <= last
      <4>1. e[j].base \in Nat /\ e[j].end \in Nat /\ e[j].base < e[j].end
        BY DEF Entry
      <4>2. j = i \/ (i < j /\ e[i].end <= e[j].base) \/ j = i - 1 \/ (j < i - 1 /\ e[j].end <= e[i - 1].base)
        BY <1>2, <2>3
      <4>3. e[i - 1].base < e[i - 1].end
        BY <1>2, <1>8 DEF Entry
      <4> QED
        BY <1>2, <1>8, <3>1, <4>1, <4>2, <4>3
    <3>3. HostBase + DefaultSize <= e[i - 1].base /\ e[i].end <= HostBase + HostRange
      BY <1>2, <1>8, <2>3
    <3>4. e[i - 1].base < e[i - 1].end
      BY <1>2, <1>8 DEF Entry
    <3>5. HostBase + DefaultSize <= last /\ last + size <= HostBase + HostRange
      BY <1>2, <1>3, <1>8, <3>1, <3>3, <3>4
    <3> QED
      BY <3>2, <3>5 DEF Free
  <2> QED
    BY <1>8, <2>2, <2>3 DEF new
<1>9. CASE ~at.found /\ i > 1 /\ last <= at.offset /\ ~(last + size < e[i].base)
  <2>1. new = [at EXCEPT !.offset = e[i].end]
    BY <1>9 DEF Scan
  <2>2. new.offset = e[i].end /\ new.found = at.found /\ new \in Scanned
    BY <1>2, <2>1 DEF Scanned
  <2> HIDE DEF new
  <2> QED
    BY <1>9, <2>2 DEF new
<1> QED
  BY <1>1, <1>2, <1>4, <1>5, <1>6, <1>7, <1>8, <1>9

(* findIdmap: a number, and when it is not NoRange a range of its own.       *)
LEMMA FindFits ==
  ASSUME TypeInv, HostAssumption, NEW k, NEW size \in Nat
  PROVE  /\ findIdmap(k, size) \in Nat
         /\ Neat(k) /\ findIdmap(k, size) # NoRange => Fits(k, findIdmap(k, size), size)
<1> DEFINE e == mapentries(k)
           N == Len(e)
           base == [offset |-> HostBase + DefaultSize, found |-> FALSE]
           g == CHOOSE g : IsScan(g, base, e, size, N)
           end == g[N]
<1>1. N \in Nat /\ Sorted(e, Entries(k), N) /\ \A i, j \in 1..N : e[i] = e[j] => i = j
  BY MapEntries
<1>2. findIdmap(k, size) = CASE size = 0 -> 0
                             [] size > 0 /\ (end.found \/ end.offset + size < HostBase + HostRange) -> end.offset
                             [] OTHER -> NoRange
  BY DEF findIdmap, IsScan
<1>3. IsScan(g, base, e, size, N)
  <2>1. \E h : IsScan(h, base, e, size, N)
    BY <1>1, ScanDefined, Zenon
  <2> QED
    BY <2>1, Zenon
<1>4. HostBase \in Nat /\ HostRange \in Nat /\ DefaultSize \in Nat /\ DefaultSize > 0
  BY DEF HostAssumption
<1>5. base \in Scanned /\ base.offset = HostBase + DefaultSize /\ base.found = FALSE
  BY <1>4 DEF Scanned
<1> HIDE DEF g, e, N, base
<1>6. g[0] = base /\ \A i \in 1..N : g[i] = Scan(e, size, g[i - 1], i)
  BY <1>1, <1>3 DEF IsScan
<1>7. \A j \in 1..N : e[j] \in Entries(k) /\ Entry(e[j])
  BY <1>1, EntryFacts DEF Sorted
<1> DEFINE Good(s, n) == IF s.found THEN Free(e, N, size, s.offset)
                         ELSE s.offset = IF n = 0 THEN HostBase + DefaultSize ELSE e[n].end
           Order == \A a, b \in 1..N : a < b => e[a].end <= e[b].base
           Within == \A j \in 1..N : HostBase + DefaultSize <= e[j].base /\ e[j].end <= HostBase + HostRange
           P(i) == g[i] \in Scanned /\ (Order /\ Within => Good(g[i], i))
           T == {i \in Nat : i <= N => P(i)}
<1>8. 0 \in T
  BY <1>5, <1>6
<1>9. ASSUME NEW i \in T
      PROVE  i + 1 \in T
  <2> SUFFICES ASSUME i + 1 <= N
               PROVE  P(i + 1)
    OBVIOUS
  <2>1. i + 1 \in 1..N /\ i + 1 - 1 = i /\ i <= N
    BY <1>1
  <2>2. PICK n \in 1..N : n = i + 1 /\ n - 1 = i
    BY <2>1
  <2>3. g[i] \in Scanned /\ (Order /\ Within => Good(g[i], n - 1))
    BY <2>1, <2>2
  <2>4. g[n] = Scan(e, size, g[i], n)
    BY <1>6, <2>2
  <2>5. /\ Scan(e, size, g[i], n) \in Scanned
        /\ Order /\ Within /\ Good(g[i], n - 1) => Good(Scan(e, size, g[i], n), n)
    BY <1>1, <1>7, <2>3, ScanStep
  <2> QED
    BY <2>2, <2>3, <2>4, <2>5
<1>10. T = Nat
  <2>1. T \subseteq Nat
    OBVIOUS
  <2> HIDE DEF T
  <2> QED
    BY <1>8, <1>9, <2>1, NatLoop, Zenon
<1>11. end \in Scanned /\ (Order /\ Within => Good(end, N))
  <2>1. N \in T
    BY <1>1, <1>10
  <2> QED
    BY <1>1, <2>1
<1> HIDE DEF end, T
<1>12. end.offset \in Nat
  BY <1>11 DEF Scanned
<1>13. findIdmap(k, size) \in Nat
  <2>1. NoRange \in Nat
    BY <1>4 DEF NoRange
  <2> QED
    BY <1>2, <1>12, <2>1
<1>14. ASSUME Neat(k), findIdmap(k, size) # NoRange, size > 0
       PROVE  Fits(k, findIdmap(k, size), size)
  <2>1. findIdmap(k, size) = end.offset /\ (end.found \/ end.offset + size < HostBase + HostRange)
    BY <1>2, <1>14
  <2>2. Order
    <3> SUFFICES ASSUME NEW a \in 1..N, NEW b \in 1..N, a < b
                 PROVE  e[a].end <= e[b].base
      OBVIOUS
    <3>1. e[a] # e[b] /\ e[a].base <= e[b].base
      BY <1>1 DEF Sorted
    <3> QED
      BY <1>7, <1>14, <3>1, EntriesApart
  <2>3. Within
    <3> SUFFICES ASSUME NEW j \in 1..N
                 PROVE  HostBase + DefaultSize <= e[j].base /\ e[j].end <= HostBase + HostRange
      OBVIOUS
    <3>1. PICK x \in ContainerKeys : /\ Claims(x) /\ x # k /\ e[j].base = rows[x].base
                                      /\ e[j].end = rows[x].base + rows[x].size
      BY <1>7, EntryFacts
    <3>2. Fits(x, rows[x].base, rows[x].size) /\ rows[x].size > 0
      BY <1>14, <3>1 DEF Neat, Claims
    <3> QED
      BY <3>1, <3>2 DEF Fits
  <2>4. Free(e, N, size, end.offset)
    <3>1. Good(end, N)
      BY <1>11, <2>2, <2>3
    <3>2. CASE end.found
      BY <3>1, <3>2
    <3>3. CASE ~end.found
      <4>1. end.offset + size < HostBase + HostRange
        BY <2>1, <3>3
      <4>2. CASE N = 0
        <5>1. end.offset = HostBase + DefaultSize
          BY <3>1, <3>3, <4>2
        <5> QED
          BY <1>4, <1>12, <4>1, <4>2, <5>1 DEF Free
      <4>3. CASE N # 0
        <5>1. end.offset = e[N].end /\ N \in 1..N
          BY <1>1, <3>1, <3>3, <4>3
        <5>2. ASSUME NEW j \in 1..N
              PROVE  e[j].end <= end.offset
          <6>1. j = N \/ e[j].end <= e[N].base
            BY <1>1, <2>2
          <6>2. e[j].end \in Nat /\ e[N].end \in Nat /\ e[N].base \in Nat /\ e[N].base < e[N].end
            BY <1>7, <5>1 DEF Entry
          <6> QED
            BY <5>1, <6>1, <6>2
        <5>3. HostBase + DefaultSize <= e[N].base /\ e[N].base < e[N].end /\ e[N].base \in Nat
          BY <1>7, <2>3, <5>1 DEF Entry
        <5>4. HostBase + DefaultSize <= end.offset
          BY <1>4, <1>12, <5>1, <5>3
        <5>5. end.offset + size <= HostBase + HostRange
          BY <1>4, <1>12, <4>1
        <5> QED
          BY <5>2, <5>4, <5>5 DEF Free
      <4> QED
        BY <4>2, <4>3
    <3> QED
      BY <3>2, <3>3
  <2>5. ASSUME NEW j \in ContainerKeys, Claims(j), j # k
        PROVE  Beside(j, end.offset, size)
    <3>1. PICK f \in Entries(k) : f.base = rows[j].base /\ f.end = rows[j].base + rows[j].size
      BY <2>5, HasEntry
    <3>2. PICK i \in 1..N : e[i] = f
      BY <1>1 DEF Sorted
    <3> QED
      BY <2>4, <3>1, <3>2 DEF Free, Beside
  <2> QED
    BY <2>1, <2>4, <2>5 DEF Fits, Free
<1>15. CASE size = 0
  BY <1>13, <1>15 DEF Fits
<1> QED
  BY <1>13, <1>14, <1>15

-----------------------------------------------------------------------------
(* What is left of a plan.                                                   *)

Suffix(rest, todo, n) ==
  /\ rest \in Seq(Steps) /\ DOMAIN rest = 1..Len(rest) /\ Len(rest) \in Nat
  /\ DOMAIN todo = 1..Len(todo) /\ Len(todo) \in Nat
  /\ \A i \in DOMAIN rest : i + n \in DOMAIN todo /\ rest[i] = todo[i + n]
  /\ \A i \in DOMAIN todo : i > n => i - n \in DOMAIN rest /\ rest[i - n] = todo[i]
  /\ rest # <<>> => Len(rest) = Len(todo) - n
  /\ rest = <<>> <=> Len(rest) = 0

(* The rest of a plan after its first step.                                  *)
LEMMA TailSuffix ==
  ASSUME NEW todo \in Seq(Steps), todo # <<>>
  PROVE  /\ Suffix(Tail(todo), todo, 1) /\ Head(todo) = todo[1] /\ todo[1] \in Steps /\ 1 \in DOMAIN todo
         /\ Tail(todo) \in Seq(Steps) /\ \A i \in DOMAIN todo : i # 1 => i > 1
         /\ Tail(todo) = <<>> <=> Len(todo) = 1
<1>1. PICK rest : rest = Tail(todo)
  BY Zenon
<1>2. /\ rest \in Seq(Steps) /\ Len(rest) = Len(todo) - 1 /\ Len(todo) \in Nat \ {0}
      /\ DOMAIN rest = 1..Len(rest) /\ DOMAIN todo = 1..Len(todo)
      /\ Head(todo) = todo[1] /\ todo[1] \in Steps
      /\ \A i \in DOMAIN rest : i + 1 \in DOMAIN todo /\ rest[i] = todo[i + 1]
      /\ \A i \in DOMAIN todo : i > 1 => i - 1 \in DOMAIN rest /\ rest[i - 1] = todo[i]
      /\ rest = <<>> <=> Len(todo) = 1
  BY <1>1, TailRest
<1>3. Suffix(rest, todo, 1)
  BY <1>2 DEF Suffix
<1> QED
  BY <1>1, <1>2, <1>3

(* The rest of a plan after a step and what is skipped.                      *)
LEMMA SkipSuffix ==
  ASSUME NEW todo \in Seq(Steps), NEW n \in Nat
  PROVE  LET rest == SubSeq(todo, 2 + n, Len(todo)) IN rest \in Seq(Steps) /\ Suffix(rest, todo, n + 1)
<1>1. PICK m \in Nat : m = n + 1 /\ m + 1 = 2 + n
  OBVIOUS
<1>2. PICK rest : rest = SubSeq(todo, m + 1, Len(todo))
  BY Zenon
<1>3. /\ rest \in Seq(Steps) /\ Len(rest) = (IF m < Len(todo) THEN Len(todo) - m ELSE 0)
      /\ DOMAIN rest = 1..Len(rest)
      /\ \A i \in DOMAIN rest : i + m \in DOMAIN todo /\ rest[i] = todo[i + m]
      /\ \A i \in DOMAIN todo : i > m => i - m \in DOMAIN rest /\ rest[i - m] = todo[i]
  BY <1>2, Rest, Zenon
<1>4. DOMAIN todo = 1..Len(todo) /\ Len(todo) \in Nat /\ Len(rest) \in Nat
  BY <1>3, LenProperties
<1>5. rest = <<>> <=> Len(rest) = 0
  BY <1>3, EmptySeq
<1>6. Suffix(rest, todo, m)
  BY <1>3, <1>4, <1>5, Zenon DEF Suffix
<1> QED
  BY <1>1, <1>2, <1>3, <1>6

(* Ranks.                                                                    *)
LEMMA RankFacts ==
  \A s : /\ Rank(s) \in 0..4
         /\ s.do = "insert" => Rank(s) = 1
         /\ s.do \in {"findIdmap", "setbase"} => Rank(s) = 2
         /\ s.do \in {"create", "copy"} <=> Rank(s) = 3
         /\ Rank(s) = 1 => s.do = "insert"
<1> SUFFICES ASSUME NEW s
             PROVE  /\ Rank(s) \in 0..4
                    /\ s.do = "insert" => Rank(s) = 1
                    /\ s.do \in {"findIdmap", "setbase"} => Rank(s) = 2
                    /\ s.do \in {"create", "copy"} <=> Rank(s) = 3
                    /\ Rank(s) = 1 => s.do = "insert"
  OBVIOUS
<1>1. CASE s.do = "insert"
  BY <1>1 DEF Rank
<1>2. CASE s.do \in {"findIdmap", "setbase"}
  BY <1>2 DEF Rank
<1>3. CASE s.do \in {"create", "copy"}
  BY <1>3 DEF Rank
<1>4. CASE s.do \notin {"insert", "findIdmap", "setbase", "create", "copy"}
  <2>1. Rank(s) = IF s.undo = <<>> THEN 0 ELSE IF s.undo = <<Delete(s.k)>> THEN 4 ELSE 2
    BY <1>4 DEF Rank
  <2> QED
    BY <1>4, <2>1
<1> QED
  BY <1>1, <1>2, <1>3, <1>4

(* A creation goes on.                                                       *)
LEMMA MakingOn ==
  ASSUME NEW old, NEW new, Making(old), old.todo \in Seq(Steps), old.todo # <<>>,
         new.todo = Tail(old.todo), new.k = old.k, old.inserted \in BOOLEAN,
         new.inserted = (old.inserted \/ old.todo[1].do = "insert")
  PROVE  Making(new)
<1> DEFINE todo == old.todo
           rest == new.todo
<1>1. Suffix(rest, todo, 1) /\ 1 \in DOMAIN todo
  BY TailSuffix
<1>2. DOMAIN todo = 1..Len(todo) /\ Len(todo) \in Nat
  BY <1>1 DEF Suffix
<1>3. \A i \in DOMAIN todo : i \in Nat /\ (i = 1 \/ i > 1)
  BY <1>2
<1>4. ASSUME NEW i \in DOMAIN rest
      PROVE  /\ i + 1 \in DOMAIN todo /\ rest[i] = todo[i + 1] /\ i \in Nat /\ i > 0
             /\ i > 1 => i - 1 \in DOMAIN rest /\ rest[i - 1] = todo[i] /\ i \in DOMAIN todo
  BY <1>1, SMTT(60) DEF Suffix
<1>5. \A i \in DOMAIN todo : i > 1 => i - 1 \in DOMAIN rest /\ rest[i - 1] = todo[i]
  BY <1>1, Zenon DEF Suffix
<1>6. ASSUME NEW i \in DOMAIN todo, i > 1
      PROVE  \/ Rank(todo[1]) < Rank(todo[i])
             \/ Rank(todo[1]) = Rank(todo[i]) /\ Rank(todo[1]) \notin {1, 3}
  BY <1>1, <1>6 DEF Making
<1>7. ASSUME NEW i \in DOMAIN rest
      PROVE  /\ rest[i].k = new.k /\ rest[i].must
             /\ rest[i].do \in {"check", "insert", "findIdmap", "setbase", "create", "copy"}
             /\ rest[i].undo \in MakingUndo(rest[i])
             /\ rest[i].do = "setbase" => i = 1 \/ rest[i - 1].do = "findIdmap"
             /\ rest[i].do = "insert" => Holds(rest, "setbase")
             /\ Rank(rest[i]) < 3 => Ranked(rest, 3)
             /\ new.inserted => Rank(rest[i]) >= 2
  <2>1. PICK j \in DOMAIN todo : j = i + 1 /\ rest[i] = todo[j] /\ j > 1 /\ i \in Nat /\ i > 0
    BY <1>4
  <2>2. /\ todo[j].k = old.k /\ todo[j].must
        /\ todo[j].do \in {"check", "insert", "findIdmap", "setbase", "create", "copy"}
        /\ todo[j].undo \in MakingUndo(todo[j])
        /\ todo[j].do = "setbase" => j = 1 \/ todo[j - 1].do = "findIdmap"
        /\ todo[j].do = "insert" => Holds(todo, "setbase")
        /\ Rank(todo[j]) < 3 => Ranked(todo, 3)
        /\ old.inserted => Rank(todo[j]) >= 2
    BY DEF Making
  <2>3. Rank(todo[1]) \in 0..4 /\ Rank(todo[j]) \in 0..4
    BY RankFacts
  <2>4. rest[i].do = "setbase" => i = 1 \/ rest[i - 1].do = "findIdmap"
    BY <1>4, <2>1, <2>2
  <2>5. ASSUME rest[i].do = "insert"
        PROVE  Holds(rest, "setbase")
    <3>1. PICK m \in DOMAIN todo : todo[m].do = "setbase"
      BY <2>1, <2>2, <2>5 DEF Holds
    <3>2. m # 1
      <4>1. Rank(todo[j]) = 1 /\ Rank(todo[m]) = 2
        BY <2>1, <2>5, <3>1, RankFacts
      <4> QED
        BY <1>6, <2>1, <4>1
    <3> QED
      BY <1>3, <1>5, <3>1, <3>2, Zenon DEF Holds
  <2>6. ASSUME Rank(rest[i]) < 3
        PROVE  Ranked(rest, 3)
    <3>1. PICK m \in DOMAIN todo : Rank(todo[m]) = 3
      BY <2>1, <2>2, <2>6 DEF Ranked
    <3>2. m # 1
      BY <1>6, <2>1, <2>3, <2>6, <3>1
    <3>3. m - 1 \in DOMAIN rest /\ rest[m - 1] = todo[m]
      BY <1>3, <1>5, <3>1, <3>2, Zenon
    <3> QED
      BY <3>1, <3>3, Zenon DEF Ranked
  <2>7. ASSUME new.inserted
        PROVE  Rank(rest[i]) >= 2
    <3>1. CASE old.inserted
      BY <2>1, <2>2, <3>1
    <3>2. CASE todo[1].do = "insert"
      <4>1. Rank(todo[1]) = 1
        BY <3>2, RankFacts
      <4> QED
        BY <1>6, <2>1, <2>3, <4>1
    <3> QED
      BY <2>7, <3>1, <3>2
  <2> QED
    BY <2>1, <2>2, <2>4, <2>5, <2>6, <2>7, Zenon
<1>8. ASSUME NEW i \in DOMAIN rest, NEW j \in DOMAIN rest, i < j
      PROVE  \/ Rank(rest[i]) < Rank(rest[j])
             \/ Rank(rest[i]) = Rank(rest[j]) /\ Rank(rest[i]) \notin {1, 3}
  <2>1. PICK a \in DOMAIN todo, b \in DOMAIN todo : a = i + 1 /\ b = j + 1 /\ rest[i] = todo[a] /\ rest[j] = todo[b]
    BY <1>4
  <2>2. a < b
    BY <1>4, <1>8, <2>1
  <2> QED
    BY <2>1, <2>2 DEF Making
<1>9. ASSUME rest # <<>>, ~new.inserted
      PROVE  Holds(rest, "insert")
  <2>1. PICK m \in DOMAIN todo : todo[m].do = "insert"
    BY <1>9 DEF Making, Holds
  <2>2. m # 1
    BY <1>9, <2>1, Zenon
  <2> QED
    BY <1>3, <1>5, <2>1, <2>2 DEF Holds
<1>10. ASSUME rest = <<>>
       PROVE  new.inserted
  <2> SUFFICES ASSUME ~old.inserted
               PROVE  todo[1].do = "insert"
    BY Zenon
  <2>1. PICK m \in DOMAIN todo : todo[m].do = "insert"
    BY DEF Making, Holds
  <2>2. Len(todo) = 1
    BY <1>10, TailSuffix, Zenon
  <2>3. m = 1
    BY <1>2, <2>2
  <2> QED
    BY <2>1, <2>3
<1> QED
  BY <1>7, <1>8, <1>9, <1>10, Zenon DEF Making

(* What is done when a creation fails.                                       *)
LEMMA UndoPlan ==
  ASSUME NEW k \in Keys, NEW u, u \in {<<>>, <<ContainerRemove(k)>>, <<Delete(k)>>, DeleteAndRemove(k)}
  PROVE  /\ u \in Seq(Steps)
         /\ \A th : th.todo = u /\ th.k = k => Undoing(th)
<1>1. PICK r, d, s : r = ContainerRemove(k) /\ d = Delete(k) /\ s = Ignoring(ContainerRemove(k))
  OBVIOUS
<1>2. /\ r \in Steps /\ r.do = "remove" /\ r.k = k /\ r.must = TRUE /\ r.undo = <<>>
      /\ d \in Steps /\ d.do = "Delete" /\ d.k = k /\ d.must = FALSE /\ d.undo = <<>>
      /\ s \in Steps /\ s.do = "remove" /\ s.k = k /\ s.must = FALSE /\ s.undo = <<>> /\ s.skip = 0
  <2>1. <<>> \in Undos /\ "remove" \in Dos /\ "Delete" \in Dos
    BY DEF Undos, Dos, Calls
  <2>2. r \in Steps /\ r.do = "remove" /\ r.k = k /\ r.must = TRUE /\ r.undo = <<>>
    BY <1>1, <2>1 DEF ContainerRemove, Step, Steps
  <2>3. d \in Steps /\ d.do = "Delete" /\ d.k = k /\ d.must = FALSE /\ d.undo = <<>>
    BY <1>1, <2>1, Zenon DEF Delete, Ignoring, Step, Steps
  <2>4. s \in Steps /\ s.do = "remove" /\ s.k = k /\ s.must = FALSE /\ s.undo = <<>> /\ s.skip = 0
    BY <1>1, <2>1, Zenon DEF ContainerRemove, Ignoring, Step, Steps
  <2> QED
    BY <2>2, <2>3, <2>4
<1>3. k \in Family(k)
  BY DEF Family
<1>4. CASE u = <<>>
  <2>1. u \in Seq(Steps) /\ DOMAIN u = {} /\ \A i \in DOMAIN u : FALSE
    BY <1>4
  <2>2. u # <<r>> /\ u # <<d>> /\ u # <<d, s>>
    BY <1>4
  <2> QED
    BY <1>1, <1>4, <2>1, <2>2 DEF Undoing, Dropping, Drops, DeleteAndRemove
<1>5. CASE u = <<r>>
  <2>1. u \in Seq(Steps) /\ DOMAIN u = {1} /\ Len(u) = 1 /\ u[1] = r /\ u # <<>>
    BY <1>2, <1>5
  <2>2. u # <<d>> /\ u # <<d, s>>
    BY <1>2, <1>5
  <2> QED
    BY <1>1, <1>2, <1>3, <1>5, <2>1, <2>2 DEF Undoing, Dropping, Drops, Calls, DeleteAndRemove
<1>6. CASE u = <<d>>
  <2>1. u \in Seq(Steps) /\ DOMAIN u = {1} /\ Len(u) = 1 /\ u[1] = d /\ u # <<>>
    BY <1>2, <1>6
  <2>2. u # <<r>> /\ u # <<d, s>>
    BY <1>2, <1>6
  <2> QED
    BY <1>1, <1>2, <1>3, <1>6, <2>1, <2>2 DEF Undoing, Dropping, Drops, Calls, DeleteAndRemove
<1>7. CASE u = <<d, s>>
  <2>1. u \in Seq(Steps) /\ DOMAIN u = {1, 2} /\ u[1] = d /\ u[2] = s /\ u # <<>>
    BY <1>2, <1>7
  <2>2. u # <<r>> /\ u # <<d>>
    BY <1>2, <1>7
  <2> QED
    BY <1>1, <1>2, <1>3, <1>7, <2>1, <2>2 DEF Undoing, Dropping, Drops, Calls, DeleteAndRemove
<1> QED
  BY <1>1, <1>4, <1>5, <1>6, <1>7 DEF DeleteAndRemove

(* ... and what that undoes.                                                  *)
LEMMA UndoBrings ==
  ASSUME NEW k \in Keys, NEW u, u \in {<<>>, <<ContainerRemove(k)>>, <<Delete(k)>>, DeleteAndRemove(k)}
  PROVE  /\ u = <<ContainerRemove(k)>> => Pending(u, "remove", k) /\ ~Holds(u, "Delete")
         /\ u \in {<<Delete(k)>>, DeleteAndRemove(k)} => Holds(u, "Delete")
         /\ \A do, x : Pending(u, do, x) => x = k /\ do \in {"remove", "Delete"}
         /\ \A i \in DOMAIN u : Bare(u, i) =>
              u[i].k = k /\ u \in {<<ContainerRemove(k)>>, DeleteAndRemove(k)}
<1>1. PICK r, d, s : r = ContainerRemove(k) /\ d = Delete(k) /\ s = Ignoring(ContainerRemove(k))
  OBVIOUS
<1>2. /\ r \in Steps /\ r.do = "remove" /\ r.k = k /\ r.must = TRUE /\ r.undo = <<>>
      /\ d \in Steps /\ d.do = "Delete" /\ d.k = k /\ d.must = FALSE /\ d.undo = <<>>
      /\ s \in Steps /\ s.do = "remove" /\ s.k = k /\ s.must = FALSE /\ s.undo = <<>> /\ s.skip = 0
  <2>1. <<>> \in Undos /\ "remove" \in Dos /\ "Delete" \in Dos
    BY DEF Undos, Dos, Calls
  <2>2. r \in Steps /\ r.do = "remove" /\ r.k = k /\ r.must = TRUE /\ r.undo = <<>>
    BY <1>1, <2>1 DEF ContainerRemove, Step, Steps
  <2>3. d \in Steps /\ d.do = "Delete" /\ d.k = k /\ d.must = FALSE /\ d.undo = <<>>
    BY <1>1, <2>1, Zenon DEF Delete, Ignoring, Step, Steps
  <2>4. s \in Steps /\ s.do = "remove" /\ s.k = k /\ s.must = FALSE /\ s.undo = <<>> /\ s.skip = 0
    BY <1>1, <2>1, Zenon DEF ContainerRemove, Ignoring, Step, Steps
  <2> QED
    BY <2>2, <2>3, <2>4
<1>3. k \in Family(k)
  BY DEF Family
<1>4. CASE u = <<>>
  <2>1. u \in Seq(Steps) /\ DOMAIN u = {} /\ \A i \in DOMAIN u : FALSE
    BY <1>4
  <2>2. u # <<r>> /\ u # <<d>> /\ u # <<d, s>>
    BY <1>4
  <2> QED
    BY <1>1, <1>4, <2>1, <2>2 DEF Pending, Holds, Bare, DeleteAndRemove
<1>5. CASE u = <<r>>
  <2>1. u \in Seq(Steps) /\ DOMAIN u = {1} /\ Len(u) = 1 /\ u[1] = r /\ u # <<>>
    BY <1>2, <1>5
  <2>2. u # <<d>> /\ u # <<d, s>>
    BY <1>2, <1>5
  <2> QED
    BY <1>1, <1>2, <1>3, <1>5, <2>1, <2>2 DEF Pending, Holds, Bare, DeleteAndRemove
<1>6. CASE u = <<d>>
  <2>1. u \in Seq(Steps) /\ DOMAIN u = {1} /\ Len(u) = 1 /\ u[1] = d /\ u # <<>>
    BY <1>2, <1>6
  <2>2. u # <<r>> /\ u # <<d, s>>
    BY <1>2, <1>6
  <2> QED
    BY <1>1, <1>2, <1>3, <1>6, <2>1, <2>2 DEF Pending, Holds, Bare, DeleteAndRemove
<1>7. CASE u = <<d, s>>
  <2>1. u \in Seq(Steps) /\ DOMAIN u = {1, 2} /\ u[1] = d /\ u[2] = s /\ u # <<>>
    BY <1>2, <1>7
  <2>2. u # <<r>> /\ u # <<d>>
    BY <1>2, <1>7
  <2> QED
    BY <1>1, <1>2, <1>3, <1>7, <2>1, <2>2 DEF Pending, Holds, Bare, DeleteAndRemove
<1> QED
  BY <1>1, <1>4, <1>5, <1>6, <1>7 DEF DeleteAndRemove

\* What a creation may undo, and when.
LEMMA MakingUndoIs ==
  ASSUME NEW s \in Steps, s.undo \in MakingUndo(s)
  PROVE  /\ s.undo \in {<<>>, <<ContainerRemove(s.k)>>, <<Delete(s.k)>>, DeleteAndRemove(s.k)}
         /\ s.undo = <<>> => Rank(s) \in {0, 1}
         /\ s.undo = <<ContainerRemove(s.k)>> => Rank(s) \in {2, 3}
<1>1. s.k \in Keys /\ Rank(s) \in 0..4
  BY Types, RankFacts
<1>2. <<ContainerRemove(s.k)>> # <<>> /\ <<Delete(s.k)>> # <<>> /\ DeleteAndRemove(s.k) # <<>>
  BY DEF DeleteAndRemove
<1>3. <<ContainerRemove(s.k)>> # <<Delete(s.k)>> /\ <<ContainerRemove(s.k)>> # DeleteAndRemove(s.k)
  <2>1. ContainerRemove(s.k).do = "remove" /\ Delete(s.k).do = "Delete"
    BY DEF ContainerRemove, Delete, Ignoring, Step
  <2> QED
    BY <2>1 DEF DeleteAndRemove
<1> QED
  BY <1>1, <1>2, <1>3, Zenon DEF MakingUndo

(* Plans that take away: what is left of one, and one after another.         *)
LEMMA DropsLeft ==
  ASSUME NEW todo, NEW rest, NEW k, NEW n \in Nat, Drops(todo, k), Suffix(rest, todo, n)
  PROVE  Drops(rest, k)
<1>0. PICK L \in Nat, M \in Nat :
         /\ DOMAIN rest = 1..L /\ DOMAIN todo = 1..M
         /\ \A i \in 1..L : i + n \in 1..M /\ rest[i] = todo[i + n]
         /\ \A i \in 1..M : i > n => i - n \in 1..L /\ rest[i - n] = todo[i]
  BY ZenonT(60) DEF Suffix
<1>1. ASSUME NEW i \in DOMAIN rest
      PROVE  i + n \in DOMAIN todo /\ rest[i] = todo[i + n] /\ i \in Nat /\ i > 0
             /\ (i + n + 1 \in DOMAIN todo => i + 1 \in DOMAIN rest /\ rest[i + 1] = todo[i + n + 1])
  <2>1. i + n \in DOMAIN todo /\ rest[i] = todo[i + n] /\ i \in Nat /\ i > 0
    BY <1>0
  <2>2. ASSUME i + n + 1 \in DOMAIN todo
        PROVE  i + 1 \in DOMAIN rest /\ rest[i + 1] = todo[i + n + 1]
    <3>1. PICK j \in DOMAIN todo : j = i + n + 1 /\ j > n /\ j - n = i + 1
      BY <2>1, <2>2
    <3> QED
      BY <1>0, <3>1
  <2> QED
    BY <2>1, <2>2
<1>2. ASSUME NEW i \in DOMAIN rest
      PROVE  /\ rest[i].do \in {"Delete", "containerDeleteSnapshots", "destroy", "remove"}
             /\ rest[i].k \in Family(k) /\ rest[i].undo = <<>>
             /\ rest[i].do \in Calls => rest[i].k = k
             /\ rest[i].do = "destroy" => /\ i + 1 \in DOMAIN rest
                                          /\ rest[i + 1].do = "remove" /\ rest[i + 1].k = rest[i].k
                                          /\ rest[i].must \/ rest[i].skip = 1
             /\ rest[i].do = "remove" => rest[i].must \/ rest[i].skip = 0
  <2>1. PICK j \in DOMAIN todo : j = i + n /\ rest[i] = todo[j]
    BY <1>1
  <2>2. /\ todo[j].do \in {"Delete", "containerDeleteSnapshots", "destroy", "remove"}
        /\ todo[j].k \in Family(k) /\ todo[j].undo = <<>>
        /\ todo[j].do \in Calls => todo[j].k = k
        /\ todo[j].do = "destroy" => /\ j + 1 \in DOMAIN todo
                                     /\ todo[j + 1].do = "remove" /\ todo[j + 1].k = todo[j].k
                                     /\ todo[j].must \/ todo[j].skip = 1
        /\ todo[j].do = "remove" => todo[j].must \/ todo[j].skip = 0
    BY DEF Drops
  <2> QED
    BY <1>1, <2>1, <2>2
<1> QED
  BY <1>2 DEF Drops

\* Two plans that only drop, joined.
LEMMA DropsJoined ==
  ASSUME NEW p \in Seq(Steps), NEW q \in Seq(Steps), NEW k, Drops(p, k), Drops(q, k)
  PROVE  Drops(p \o q, k)
<1> DEFINE s == p \o q
<1>1. /\ s \in Seq(Steps) /\ Len(s) = Len(p) + Len(q) /\ Len(p) \in Nat /\ Len(q) \in Nat
      /\ DOMAIN s = 1..Len(s) /\ DOMAIN p = 1..Len(p) /\ DOMAIN q = 1..Len(q)
      /\ \A i \in DOMAIN s : s[i] = IF i <= Len(p) THEN p[i] ELSE q[i - Len(p)]
      /\ \A i \in DOMAIN p : i \in DOMAIN s /\ s[i] = p[i]
      /\ \A i \in DOMAIN q : i + Len(p) \in DOMAIN s /\ s[i + Len(p)] = q[i]
  BY Joined
<1> HIDE DEF s
<1>2. ASSUME NEW i \in DOMAIN s
      PROVE  /\ s[i].do \in {"Delete", "containerDeleteSnapshots", "destroy", "remove"}
             /\ s[i].k \in Family(k) /\ s[i].undo = <<>>
             /\ s[i].do \in Calls => s[i].k = k
             /\ s[i].do = "destroy" => /\ i + 1 \in DOMAIN s
                                       /\ s[i + 1].do = "remove" /\ s[i + 1].k = s[i].k
                                       /\ s[i].must \/ s[i].skip = 1
             /\ s[i].do = "remove" => s[i].must \/ s[i].skip = 0
  <2>1. CASE i \in DOMAIN p
    <3>1. s[i] = p[i]
      BY <1>1, <2>1
    <3>2. /\ p[i].do \in {"Delete", "containerDeleteSnapshots", "destroy", "remove"}
          /\ p[i].k \in Family(k) /\ p[i].undo = <<>>
          /\ p[i].do \in Calls => p[i].k = k
          /\ p[i].do = "destroy" => /\ i + 1 \in DOMAIN p
                                    /\ p[i + 1].do = "remove" /\ p[i + 1].k = p[i].k
                                    /\ p[i].must \/ p[i].skip = 1
          /\ p[i].do = "remove" => p[i].must \/ p[i].skip = 0
      BY <2>1 DEF Drops
    <3> QED
      BY <1>1, <3>1, <3>2
  <2>2. CASE i \notin DOMAIN p
    <3>1. PICK j \in DOMAIN q : i = j + Len(p) /\ s[i] = q[j] /\ i + 1 = (j + 1) + Len(p)
      <4>1. i \in Nat /\ i - Len(p) \in DOMAIN q
        BY <1>1, <2>2
      <4> QED
        BY <1>1, <4>1
    <3>2. /\ q[j].do \in {"Delete", "containerDeleteSnapshots", "destroy", "remove"}
          /\ q[j].k \in Family(k) /\ q[j].undo = <<>>
          /\ q[j].do \in Calls => q[j].k = k
          /\ q[j].do = "destroy" => /\ j + 1 \in DOMAIN q
                                    /\ q[j + 1].do = "remove" /\ q[j + 1].k = q[j].k
                                    /\ q[j].must \/ q[j].skip = 1
          /\ q[j].do = "remove" => q[j].must \/ q[j].skip = 0
      BY DEF Drops
    <3> QED
      BY <1>1, <3>1, <3>2, Zenon
  <2> QED
    BY <2>1, <2>2
<1> QED
  BY <1>2, Zenon DEF Drops, s

(* The functions a plan that takes away goes through.                        *)
LEMMA DropsCalls ==
  ASSUME TypeInv, NEW k \in Keys
  PROVE  Drops(Quietly(DeletePlan(k)), k) /\ Drops(containerDeleteSnapshots(k), k)
<1>1. k \in Family(k) /\ SnapshotsOf(k) \subseteq Family(k)
  <2>1. /\ SnapshotsOf(k) \subseteq Keys /\ \A x \in SnapshotsOf(k) : IsSnapshot(x) /\ Of(x) = k
    BY SnapshotsFinite
  <2> QED
    BY <2>1 DEF Family
<1>2. Drops(Quietly(DeletePlan(k)), k)
  <2> DEFINE q == Quietly(DeletePlan(k))
  <2>1. \A i \in DOMAIN q :
              /\ q[i].do \in {"containerDeleteSnapshots", "destroy", "remove"} /\ q[i].k = k
              /\ q[i].must = FALSE /\ q[i].undo = <<>>
              /\ q[i].do = "destroy" => /\ i + 1 \in DOMAIN q /\ q[i].skip = 1
                                        /\ q[i + 1].do = "remove" /\ q[i + 1].k = q[i].k
              /\ q[i].do = "remove" => q[i].skip = 0 /\ i > 1 /\ q[i - 1].do = "destroy"
    BY QuietDelete, ZenonT(60)
  <2> HIDE DEF q
  <2>2. Drops(q, k)
    BY <1>1, <2>1 DEF Drops
  <2> QED
    BY <2>2 DEF q
<1>3. Drops(containerDeleteSnapshots(k), k)
  <2> DEFINE p == containerDeleteSnapshots(k)
  <2>1. \A i \in DOMAIN p :
              /\ p[i].do \in {"destroy", "remove"} /\ p[i].k \in SnapshotsOf(k) /\ p[i].must = FALSE
              /\ p[i].undo = <<>>
              /\ p[i].do = "destroy" => /\ i + 1 \in DOMAIN p /\ p[i].skip = 1
                                        /\ p[i + 1].do = "remove" /\ p[i + 1].k = p[i].k
              /\ p[i].do = "remove" => p[i].skip = 0 /\ i > 1 /\ p[i - 1].do = "destroy"
    BY SnapDeletes, Zenon
  <2> HIDE DEF p
  <2>2. Drops(p, k)
    BY <1>1, <2>1 DEF Drops, Calls
  <2> QED
    BY <2>2 DEF p
<1> QED
  BY <1>2, <1>3

(* Where what is left of a plan was before.                                  *)
LEMMA LeftOf ==
  ASSUME NEW rest, NEW todo, NEW n \in Nat, Suffix(rest, todo, n)
  PROVE  /\ \A i \in DOMAIN rest : \E j \in DOMAIN todo :
              j = i + n /\ rest[i] = todo[j] /\ i \in Nat /\ i > 0 /\ j \in Nat
         /\ \A j \in DOMAIN todo : j > n => \E i \in DOMAIN rest :
              j = i + n /\ rest[i] = todo[j] /\ i \in Nat /\ i > 0 /\ j \in Nat
         /\ DOMAIN rest = 1..Len(rest) /\ DOMAIN todo = 1..Len(todo)
         /\ Len(rest) \in Nat /\ Len(todo) \in Nat
<1>1. PICK L \in Nat, M \in Nat :
         /\ DOMAIN rest = 1..L /\ DOMAIN todo = 1..M /\ L = Len(rest) /\ M = Len(todo)
         /\ \A i \in 1..L : i + n \in 1..M /\ rest[i] = todo[i + n]
         /\ \A i \in 1..M : i > n => i - n \in 1..L /\ rest[i - n] = todo[i]
  BY Zenon DEF Suffix
<1>2. \A i \in 1..L : \E j \in 1..M : j = i + n /\ rest[i] = todo[j] /\ i \in Nat /\ i > 0 /\ j \in Nat
  BY <1>1
<1>3. ASSUME NEW j \in 1..M, j > n
      PROVE  \E i \in 1..L : j = i + n /\ rest[i] = todo[j] /\ i \in Nat /\ i > 0 /\ j \in Nat
  <2>1. j - n \in 1..L /\ rest[j - n] = todo[j] /\ j = (j - n) + n
    BY <1>1, <1>3
  <2> QED
    BY <2>1
<1> QED
  BY <1>1, <1>2, <1>3

(* A creation goes on taking back what it did.                               *)
LEMMA UndoingLeft ==
  ASSUME NEW old, NEW new, NEW n \in Nat \ {0}, Undoing(old), Suffix(new.todo, old.todo, n), new.k = old.k
  PROVE  Undoing(new)
<1>1. Dropping(new)
  BY DropsLeft DEF Undoing, Dropping
<1>2. ASSUME NEW i \in DOMAIN new.todo, new.todo[i].must, new.todo[i].do \notin Calls
      PROVE  FALSE
  <2>1. PICK j \in DOMAIN old.todo : j = i + n /\ new.todo[i] = old.todo[j] /\ i \in Nat /\ i > 0
    BY LeftOf
  <2>2. Len(old.todo) = 1 /\ DOMAIN old.todo = 1..Len(old.todo)
    BY <1>2, <2>1 DEF Undoing, Suffix
  <2> QED
    BY <2>1, <2>2
<1> QED
  BY <1>1, <1>2 DEF Undoing

\* A call made while undoing only undoes.
LEMMA UndoingCall ==
  ASSUME TypeInv, NEW old, NEW new, Undoing(old), old.todo \in Seq(Steps), old.todo # <<>>, old.k \in Keys,
         old.todo[1].do \in Calls, new.k = old.k,
         new.todo = PlanOf(old.todo[1]) \o Tail(old.todo)
  PROVE  new.todo \in Seq(Steps) /\ Undoing(new)
<1> DEFINE s == old.todo[1]
           p == PlanOf(s)
           rest == Tail(old.todo)
<1>1. Suffix(rest, old.todo, 1) /\ 1 \in DOMAIN old.todo /\ rest \in Seq(Steps)
  BY TailSuffix
<1>2. s.k = old.k /\ s.do \in {"Delete", "containerDeleteSnapshots"}
  BY <1>1 DEF Undoing, Dropping, Drops, Calls
<1>3. p \in Seq(Steps) /\ Drops(p, old.k) /\ \A i \in DOMAIN p : p[i].must = FALSE
  <2>1. CASE s.do = "Delete"
    <3>1. p = Quietly(DeletePlan(old.k))
      BY <1>2, <2>1 DEF PlanOf
    <3>2. PICK q : q = Quietly(DeletePlan(old.k))
      OBVIOUS
    <3>3. q \in Seq(Steps) /\ \A i \in DOMAIN q : q[i].must = FALSE
      BY <3>2, QuietDelete, ZenonT(60)
    <3> HIDE DEF p
    <3> QED
      BY <3>1, <3>2, <3>3, DropsCalls
  <2>2. CASE s.do = "containerDeleteSnapshots"
    <3>1. p = containerDeleteSnapshots(old.k)
      BY <1>2, <2>2 DEF PlanOf
    <3>2. PICK q : q = containerDeleteSnapshots(old.k)
      OBVIOUS
    <3>3. q \in Seq(Steps) /\ \A i \in DOMAIN q : q[i].must = FALSE
      BY <3>2, SnapDeletes, ZenonT(60)
    <3> HIDE DEF p
    <3> QED
      BY <3>1, <3>2, <3>3, DropsCalls
  <2> QED
    BY <1>2, <2>1, <2>2, Zenon
<1> DEFINE mid == [todo |-> rest, k |-> old.k]
<1>4. Undoing(mid)
  <2>1. mid.todo = rest /\ mid.k = old.k
    OBVIOUS
  <2> HIDE DEF mid
  <2> QED
    BY <1>1, <2>1, UndoingLeft
<1>5. ASSUME NEW i \in DOMAIN rest, rest[i].must, rest[i].do \notin Calls
      PROVE  FALSE
  <2>1. PICK j \in DOMAIN old.todo : j = i + 1 /\ rest[i] = old.todo[j] /\ i \in Nat /\ i > 0
    BY <1>1, LeftOf
  <2>2. Len(old.todo) = 1 /\ DOMAIN old.todo = 1..Len(old.todo)
    BY <1>1, <1>5, <2>1 DEF Undoing, Suffix
  <2> QED
    BY <2>1, <2>2
<1>6. Drops(rest, old.k)
  BY <1>1, DropsLeft DEF Undoing, Dropping
<1> HIDE DEF p, rest, mid
<1>7. Drops(p \o rest, old.k) /\ p \o rest \in Seq(Steps)
  BY <1>1, <1>3, <1>6, DropsJoined, Joined
<1>8. \A i \in DOMAIN (p \o rest) : ~((p \o rest)[i].must /\ (p \o rest)[i].do \notin Calls)
  <2> TAKE i \in DOMAIN (p \o rest)
  <2>1. (i \in DOMAIN p /\ (p \o rest)[i] = p[i]) \/ (\E j \in DOMAIN rest : (p \o rest)[i] = rest[j])
    <3>1. /\ Len(p) \in Nat /\ Len(rest) \in Nat
          /\ DOMAIN (p \o rest) = 1..(Len(p) + Len(rest)) /\ DOMAIN p = 1..Len(p) /\ DOMAIN rest = 1..Len(rest)
          /\ (p \o rest)[i] = IF i <= Len(p) THEN p[i] ELSE rest[i - Len(p)]
      BY <1>1, <1>3, Joined
    <3> QED
      BY <3>1
  <2> QED
    BY <1>3, <1>5, <2>1
<1>9. new.todo = p \o rest
  BY DEF p, rest
<1> QED
  BY <1>7, <1>8, <1>9, Zenon DEF Undoing, Dropping

(* A delete goes on.                                                         *)
LEMMA DeletingLeft ==
  ASSUME NEW old, NEW new, NEW n \in Nat, Deleting(old), Suffix(new.todo, old.todo, n), new.k = old.k,
         new.failed => old.failed, old.todo # <<>>
  PROVE  Deleting(new)
<1>1. PICK L \in Nat, M \in Nat :
         /\ DOMAIN new.todo = 1..L /\ DOMAIN old.todo = 1..M /\ L = Len(new.todo) /\ M = Len(old.todo)
         /\ \A i \in 1..L : i + n \in 1..M /\ new.todo[i] = old.todo[i + n]
         /\ \A i \in 1..M : i > n => i - n \in 1..L /\ new.todo[i - n] = old.todo[i]
         /\ new.todo # <<>> => L = M - n
         /\ new.todo = <<>> <=> L = 0
  BY Zenon DEF Suffix
<1>2. Drops(new.todo, new.k)
  BY DropsLeft DEF Deleting, Dropping
<1>3. ASSUME NEW i \in DOMAIN new.todo
      PROVE  new.todo[i].do # "Delete"
  <2>1. PICK j \in DOMAIN old.todo : new.todo[i] = old.todo[j]
    BY <1>1, Zenon
  <2> QED
    BY <2>1 DEF Deleting
<1>4. new.todo # <<>> => new.todo[L].do = "remove" /\ new.todo[L].k = new.k
  <2> SUFFICES ASSUME new.todo # <<>>
               PROVE  new.todo[L].do = "remove" /\ new.todo[L].k = new.k
    OBVIOUS
  <2>1. L \in 1..L /\ L + n = M
    BY <1>1
  <2>2. new.todo[L] = old.todo[M]
    BY <1>1, <2>1, Zenon
  <2> QED
    BY <1>1, <2>2 DEF Deleting
<1>5. ASSUME NEW i \in DOMAIN new.todo, i < L, new.todo[i].do = "remove"
      PROVE  ~new.todo[i].must /\ new.todo[i].k # new.k
  <2>1. PICK j \in DOMAIN old.todo : j = i + n /\ new.todo[i] = old.todo[j]
    BY <1>1, Zenon
  <2>2. new.todo # <<>> /\ j < M
    BY <1>1, <1>5, <2>1
  <2> QED
    BY <1>1, <1>5, <2>1, <2>2 DEF Deleting
<1>6. ~new.failed
  BY DEF Deleting
<1> QED
  BY <1>1, <1>2, <1>3, <1>4, <1>5, <1>6 DEF Deleting, Dropping

\* A call made by a delete is about its own snapshots.
LEMMA DeletingCall ==
  ASSUME TypeInv, NEW old, NEW new, Deleting(old), old.todo \in Seq(Steps), old.todo # <<>>, old.k \in Keys,
         old.todo[1].do \in Calls, new.k = old.k, new.failed => old.failed,
         new.todo = PlanOf(old.todo[1]) \o Tail(old.todo)
  PROVE  /\ new.todo \in Seq(Steps) /\ Deleting(new)
         /\ old.todo[1].do = "containerDeleteSnapshots" /\ old.todo[1].k = old.k
<1> DEFINE s == old.todo[1]
           p == PlanOf(s)
           rest == Tail(old.todo)
<1>1. Suffix(rest, old.todo, 1) /\ 1 \in DOMAIN old.todo /\ rest \in Seq(Steps)
  BY TailSuffix
<1>2. s.k = old.k /\ s.do = "containerDeleteSnapshots"
  BY <1>1 DEF Deleting, Dropping, Drops, Calls
<1>3. p = containerDeleteSnapshots(old.k)
  BY <1>2 DEF PlanOf
<1>4. /\ p \in Seq(Steps) /\ Drops(p, old.k)
      /\ \A i \in DOMAIN p : p[i].must = FALSE /\ p[i].k \in SnapshotsOf(old.k) /\ p[i].do # "Delete"
  <2>1. PICK k \in Keys : k = old.k
    OBVIOUS
  <2> DEFINE q == containerDeleteSnapshots(k)
  <2>2. /\ q \in Seq(Steps)
        /\ \A i \in DOMAIN q :
              /\ q[i].do \in {"destroy", "remove"} /\ q[i].k \in SnapshotsOf(k) /\ q[i].must = FALSE
              /\ q[i].undo = <<>>
              /\ q[i].do = "destroy" => /\ i + 1 \in DOMAIN q /\ q[i].skip = 1
                                        /\ q[i + 1].do = "remove" /\ q[i + 1].k = q[i].k
              /\ q[i].do = "remove" => q[i].skip = 0 /\ i > 1 /\ q[i - 1].do = "destroy"
    BY SnapDeletes, Zenon
  <2>3. Drops(q, k)
    BY DropsCalls
  <2>4. p = q
    BY <1>3, <2>1
  <2> HIDE DEF p, q
  <2> QED
    BY <2>1, <2>2, <2>3, <2>4
<1>5. \A x \in SnapshotsOf(old.k) : x # old.k
  <2> TAKE x \in SnapshotsOf(old.k)
  <2>1. x \in Keys /\ IsSnapshot(x) /\ Of(x) = old.k
    BY SnapshotsFinite
  <2> QED
    BY <2>1, KeyFacts
<1> DEFINE mid == [todo |-> rest, k |-> old.k, failed |-> FALSE]
<1>6. mid.todo = rest /\ mid.k = old.k /\ mid.failed = FALSE
  OBVIOUS
<1> HIDE DEF mid
<1>7. Deleting(mid)
  BY <1>1, <1>6, DeletingLeft, Zenon
<1>8. rest # <<>>
  <2> SUFFICES ASSUME rest = <<>>
               PROVE  FALSE
    OBVIOUS
  <2>1. Len(old.todo) = 1
    BY TailSuffix
  <2>2. old.todo[1].do = "remove"
    BY <2>1 DEF Deleting
  <2> QED
    BY <1>2, <2>2
<1>9. /\ rest[Len(rest)].do = "remove" /\ rest[Len(rest)].k = old.k /\ Drops(rest, old.k)
      /\ \A i \in DOMAIN rest : /\ rest[i].do # "Delete"
                                /\ i < Len(rest) /\ rest[i].do = "remove" => ~rest[i].must /\ rest[i].k # old.k
  BY <1>6, <1>7, <1>8 DEF Deleting, Dropping
<1> HIDE DEF p, rest
<1>10. PICK todo : todo = p \o rest
  BY Zenon
<1>11. PICK L \in Nat, M \in Nat :
          /\ todo \in Seq(Steps) /\ Len(todo) = L + M /\ L = Len(p) /\ M = Len(rest)
          /\ DOMAIN todo = 1..(L + M) /\ DOMAIN p = 1..L /\ DOMAIN rest = 1..M
          /\ \A i \in DOMAIN todo : todo[i] = IF i <= L THEN p[i] ELSE rest[i - L]
  BY <1>1, <1>4, <1>10, Joined
<1>12. M > 0
  BY <1>1, <1>8, <1>11, EmptySeq
<1>13. Drops(todo, old.k)
  BY <1>1, <1>4, <1>9, <1>10, DropsJoined
<1>14. todo[L + M] = rest[M]
  BY <1>11, <1>12
<1>15. ASSUME NEW i \in 1..(L + M)
       PROVE  /\ todo[i].do # "Delete"
              /\ i < L + M /\ todo[i].do = "remove" => ~todo[i].must /\ todo[i].k # old.k
  <2>1. CASE i <= L
    <3>1. i \in DOMAIN p /\ todo[i] = p[i]
      BY <1>11, <2>1
    <3> QED
      BY <1>4, <1>5, <3>1
  <2>2. CASE ~(i <= L)
    <3>1. PICK j \in DOMAIN rest : i = j + L /\ todo[i] = rest[j]
      <4>1. i - L \in 1..M /\ i = (i - L) + L /\ todo[i] = rest[i - L]
        BY <1>11, <2>2, SMTT(60)
      <4> QED
        BY <1>11, <4>1
    <3> QED
      BY <1>9, <1>11, <3>1
  <2> QED
    BY <2>1, <2>2
<1>16. new.todo = todo
  BY <1>10 DEF p, rest
<1>17. ~new.failed
  BY DEF Deleting
<1> QED
  BY <1>2, <1>9, <1>11, <1>13, <1>14, <1>15, <1>16, <1>17, Zenon DEF Deleting, Dropping

(* A rename goes on.                                                         *)
LEMMA RenamingOn ==
  ASSUME NEW old, NEW new, RenamingPlan(old), old.todo \in Seq(Steps), old.todo # <<>>,
         new.todo = Tail(old.todo), new.k = old.k, new.failed => old.failed
  PROVE  RenamingPlan(new)
<1>1. Suffix(new.todo, old.todo, 1)
  BY TailSuffix
<1>2. PICK L \in Nat, M \in Nat :
         /\ DOMAIN new.todo = 1..L /\ DOMAIN old.todo = 1..M /\ L = Len(new.todo) /\ M = Len(old.todo)
         /\ \A i \in 1..L : i + 1 \in 1..M /\ new.todo[i] = old.todo[i + 1]
         /\ \A i \in 1..M : i > 1 => i - 1 \in 1..L /\ new.todo[i - 1] = old.todo[i]
         /\ new.todo # <<>> => L = M - 1
         /\ new.todo = <<>> <=> L = 0
  BY <1>1, ZenonT(60) DEF Suffix
<1>3. ASSUME NEW i \in DOMAIN new.todo
      PROVE  /\ new.todo[i].do \in {"move", "renamerow", "RenameSnapshots"}
             /\ new.todo[i].must /\ new.todo[i].undo = <<>>
             /\ new.todo[i].do \in {"move", "RenameSnapshots"} =>
                  new.todo[i].k = new.k /\ new.todo[i].x \in ContainerKeys
             /\ new.todo[i].do = "renamerow" => /\ Of(new.todo[i].k) = new.k
                                               /\ new.todo[i].x = Renamed(new.todo[i].k, Of(new.todo[i].x))
             /\ new.todo[i].do # "check" => Of(new.todo[i].x) # new.k
             /\ new.todo[i].do = "move" => i + 2 = Len(new.todo) /\ new.todo[i + 1].do = "renamerow"
                                     /\ new.todo[i + 1].k = new.k /\ new.todo[i + 2].do = "RenameSnapshots"
  <2>1. PICK j \in DOMAIN old.todo : j = i + 1 /\ new.todo[i] = old.todo[j] /\ j # 1 /\ i \in Nat
    BY <1>2
  <2>2. /\ old.todo[j].do \in {"check", "move", "renamerow", "RenameSnapshots"}
        /\ old.todo[j].must /\ old.todo[j].undo = <<>>
        /\ old.todo[j].do \in {"move", "RenameSnapshots"} => old.todo[j].k = old.k /\ old.todo[j].x \in ContainerKeys
        /\ old.todo[j].do = "renamerow" => /\ Of(old.todo[j].k) = old.k
                                           /\ old.todo[j].x = Renamed(old.todo[j].k, Of(old.todo[j].x))
        /\ old.todo[j].do # "check" => Of(old.todo[j].x) # old.k
        /\ old.todo[j].do = "check" => j = 1
        /\ old.todo[j].do = "move" => j + 2 = Len(old.todo) /\ old.todo[j + 1].do = "renamerow"
                                /\ old.todo[j + 1].k = old.k /\ old.todo[j + 2].do = "RenameSnapshots"
    BY Zenon DEF RenamingPlan
  <2>3. ASSUME new.todo[i].do = "move"
        PROVE  i + 2 = Len(new.todo) /\ new.todo[i + 1].do = "renamerow"
               /\ new.todo[i + 1].k = new.k /\ new.todo[i + 2].do = "RenameSnapshots"
    <3>1. j + 2 = M /\ L = M - 1
      BY <1>2, <2>1, <2>2, <2>3
    <3>2. i + 1 \in 1..L /\ i + 2 \in 1..L /\ (i + 1) + 1 = j + 1 /\ (i + 2) + 1 = j + 2
      BY <2>1, <3>1, SMTT(60)
    <3>3. new.todo[i + 1] = old.todo[j + 1] /\ new.todo[i + 2] = old.todo[j + 2]
      BY <1>2, <3>2
    <3> QED
      <4>1. old.todo[j + 1].do = "renamerow" /\ old.todo[j + 1].k = old.k /\ old.todo[j + 2].do = "RenameSnapshots"
        BY <2>1, <2>2, <2>3
      <4>2. i + 2 = L
        BY <2>1, <3>1
      <4> QED
        BY <1>2, <3>3, <4>1, <4>2, Zenon
  <2> QED
    BY <2>1, <2>2, <2>3, Zenon
<1>4. ASSUME NEW i \in DOMAIN new.todo, NEW j \in DOMAIN new.todo, i < j
      PROVE  /\ new.todo[i].do # "check" => Of(new.todo[i].x) = Of(new.todo[j].x)
             /\ new.todo[j].do = "move" => new.todo[i].do = "check"
             /\ new.todo[i].do = "renamerow" /\ new.todo[j].do = "renamerow" => new.todo[i].k # new.todo[j].k
             /\ new.todo[j].do = "renamerow" /\ new.todo[j].k = new.k => new.todo[i].do \in {"check", "move"}
             /\ new.todo[j].do = "RenameSnapshots" => new.todo[i].do \in {"check", "move"} \/ new.todo[i].k = new.k
             /\ new.todo[i].do # "RenameSnapshots"
  <2>1. PICK a \in DOMAIN old.todo, b \in DOMAIN old.todo :
          new.todo[i] = old.todo[a] /\ new.todo[j] = old.todo[b] /\ a = i + 1 /\ b = j + 1
    BY <1>2
  <2>2. a < b
    BY <1>2, <1>4, <2>1
  <2> QED
    BY <2>1, <2>2 DEF RenamingPlan
<1>5. ~new.failed
  BY DEF RenamingPlan
<1> QED
  BY <1>3, <1>4, <1>5, Zenon DEF RenamingPlan

(* The snapshots of what is renamed: the last step of a rename.              *)
LEMMA RenamingCall ==
  ASSUME TypeInv, NEW old, NEW new, RenamingPlan(old), old.todo \in Seq(Steps), old.todo # <<>>,
         old.k \in ContainerKeys, old.todo[1].do \in Calls, new.k = old.k, new.failed => old.failed,
         new.todo = PlanOf(old.todo[1]) \o Tail(old.todo)
  PROVE  /\ new.todo \in Seq(Steps) /\ RenamingPlan(new) /\ Len(old.todo) = 1
         /\ old.todo[1].do = "RenameSnapshots" /\ old.todo[1].k = old.k /\ old.todo[1].x \in ContainerKeys
         /\ new.todo = RenameSnapshots(old.k, old.todo[1].x)
<1> DEFINE s == old.todo[1]
           p == RenameSnapshots(old.k, s.x)
<1>1. 1 \in DOMAIN old.todo /\ Suffix(Tail(old.todo), old.todo, 1) /\ Tail(old.todo) \in Seq(Steps)
  BY TailSuffix
<1>2. s.do = "RenameSnapshots" /\ s.k = old.k /\ s.x \in ContainerKeys /\ Of(s.x) # old.k
  BY <1>1 DEF RenamingPlan, Calls
<1>3. Len(old.todo) = 1
  <2> SUFFICES ASSUME Len(old.todo) # 1
               PROVE  FALSE
    OBVIOUS
  <2>1. DOMAIN old.todo = 1..Len(old.todo) /\ Len(old.todo) \in Nat
    BY <1>1 DEF Suffix
  <2>2. PICK n \in Nat : n = Len(old.todo) /\ DOMAIN old.todo = 1..n
    BY <2>1
  <2>3. 1 \in 1..n /\ n # 1
    BY <1>1, <2>2
  <2>4. 2 \in DOMAIN old.todo /\ 1 < 2
    <3>1. 2 \in 1..n
      BY <2>3
    <3> QED
      BY <2>2, <3>1
  <2> QED
    BY <1>1, <1>2, <2>4 DEF RenamingPlan
<1>4. Tail(old.todo) = <<>>
  BY <1>3, TailSuffix
<1>5. old.k \in Keys /\ Of(s.x) = s.x /\ ~IsSnapshot(old.k)
  BY <1>2, KeyFacts
<1>6. /\ p \in Seq(Steps)
      /\ \A i \in DOMAIN p :
           /\ p[i].do = "renamerow" /\ p[i].k \in SnapshotsOf(old.k) /\ p[i].x = Renamed(p[i].k, s.x)
           /\ p[i].must = TRUE /\ p[i].undo = <<>>
      /\ \A i, j \in DOMAIN p : p[i].k = p[j].k => i = j
  BY <1>2, <1>5, SnapRenames, Zenon
<1>7. PlanOf(s) = p
  BY <1>2 DEF PlanOf
<1> HIDE DEF p
<1>8. new.todo = p
  <2>1. p \o <<>> = p
    BY <1>6, ConcatEmptySeq
  <2> QED
    BY <1>4, <1>7, <2>1, Zenon
<1>9. ASSUME NEW i \in DOMAIN p
      PROVE  /\ Of(p[i].k) = old.k /\ Of(p[i].x) = s.x /\ p[i].k # old.k
             /\ p[i].x = Renamed(p[i].k, Of(p[i].x))
  <2>1. p[i].k \in Keys /\ IsSnapshot(p[i].k) /\ Of(p[i].k) = old.k
    BY <1>6, SnapshotsFinite
  <2>2. Of(Renamed(p[i].k, s.x)) = s.x
    BY <1>2, <2>1, RenamedFacts
  <2> QED
    BY <1>5, <1>6, <2>1, <2>2
<1>10. \A i, j \in DOMAIN p : i < j => i # j
  BY <1>6, LenProperties
<1>11. ~new.failed
  BY DEF RenamingPlan
<1>12. RenamingPlan(new)
  <2>1. ASSUME NEW i \in DOMAIN p
        PROVE  /\ p[i].do = "renamerow" /\ p[i].must /\ p[i].undo = <<>>
               /\ Of(p[i].k) = new.k /\ p[i].x = Renamed(p[i].k, Of(p[i].x))
               /\ Of(p[i].x) # new.k /\ Of(p[i].x) = s.x /\ p[i].k # new.k
    <3>1. Of(p[i].x) = s.x /\ Of(s.x) = s.x /\ Of(s.x) # old.k
      BY <1>2, <1>5, <1>9
    <3> QED
      BY <1>6, <1>9, <3>1
  <2>2. \A i, j \in DOMAIN p : i < j => p[i].k # p[j].k
    BY <1>6, <1>10
  <2>3. \A i \in DOMAIN p : p[i].do \notin {"check", "move", "RenameSnapshots"}
    BY <2>1
  <2>4. ASSUME NEW i \in DOMAIN p, NEW j \in DOMAIN p, i < j
        PROVE  /\ p[i].do # "check" => Of(p[i].x) = Of(p[j].x)
               /\ p[j].do = "move" => p[i].do = "check"
               /\ p[i].do = "renamerow" /\ p[j].do = "renamerow" => p[i].k # p[j].k
               /\ p[j].do = "renamerow" /\ p[j].k = new.k => p[i].do \in {"check", "move"}
               /\ p[j].do = "RenameSnapshots" => p[i].do \in {"check", "move"} \/ p[i].k = new.k
               /\ p[i].do # "RenameSnapshots"
    BY <2>1, <2>2, <2>3, <2>4
  <2>5. new.todo = p
    BY <1>8, Zenon
  <2> QED
    <3>1. ASSUME NEW i \in DOMAIN new.todo
          PROVE  /\ new.todo[i].do \in {"check", "move", "renamerow", "RenameSnapshots"}
                 /\ new.todo[i].must /\ new.todo[i].undo = <<>>
                 /\ new.todo[i].do \in {"move", "RenameSnapshots"} => new.todo[i].k = new.k /\ new.todo[i].x \in ContainerKeys
                 /\ new.todo[i].do = "renamerow" => /\ Of(new.todo[i].k) = new.k
                                             /\ new.todo[i].x = Renamed(new.todo[i].k, Of(new.todo[i].x))
                 /\ new.todo[i].do # "check" => Of(new.todo[i].x) # new.k
                 /\ new.todo[i].do = "check" => i = 1 /\ Len(new.todo) = 4 /\ new.todo[2].do = "move"
                 /\ new.todo[i].do = "move" => i + 2 = Len(new.todo) /\ new.todo[i + 1].do = "renamerow"
                                        /\ new.todo[i + 1].k = new.k /\ new.todo[i + 2].do = "RenameSnapshots"
      BY <2>1, <2>3, <2>5, Zenon
    <3>2. ASSUME NEW i \in DOMAIN new.todo, NEW j \in DOMAIN new.todo, i < j
          PROVE  /\ new.todo[i].do # "check" => Of(new.todo[i].x) = Of(new.todo[j].x)
                 /\ new.todo[j].do = "move" => new.todo[i].do = "check"
                 /\ new.todo[i].do = "renamerow" /\ new.todo[j].do = "renamerow" => new.todo[i].k # new.todo[j].k
                 /\ new.todo[j].do = "renamerow" /\ new.todo[j].k = new.k => new.todo[i].do \in {"check", "move"}
                 /\ new.todo[j].do = "RenameSnapshots" => new.todo[i].do \in {"check", "move"} \/ new.todo[i].k = new.k
                 /\ new.todo[i].do # "RenameSnapshots"
      BY <2>4, <2>5, <3>2, ZenonT(60)
    <3> QED
      BY <1>11, <3>1, <3>2, Zenon DEF RenamingPlan
<1> QED
  BY <1>2, <1>3, <1>6, <1>8, <1>12, Zenon DEF p

(* A restore goes on.                                                        *)
LEMMA RestoringOn ==
  ASSUME NEW old, NEW new, Restoring(old), old.todo \in Seq(Steps), old.todo # <<>>,
         new.todo = Tail(old.todo), new.failed => old.failed
  PROVE  Restoring(new)
<1>1. Suffix(new.todo, old.todo, 1)
  BY TailSuffix
<1>2. \A i \in DOMAIN new.todo : i + 1 \in DOMAIN old.todo /\ new.todo[i] = old.todo[i + 1]
  BY <1>1 DEF Suffix
<1> QED
  BY <1>2 DEF Restoring

-----------------------------------------------------------------------------
(* Steps keep plans what they are.                                           *)

(* The functions are never refused.                                          *)
LEMMA RefusedFacts ==
  ASSUME NEW step, NEW t
  PROVE  /\ step.do \in Calls => ~Refused(step, t)
         /\ step.do = "insert" => (Refused(step, t) <=> step.k \in DOMAIN rows)
         /\ step.do = "remove" => (Refused(step, t) <=> step.k \notin DOMAIN rows)
         /\ step.do = "renamerow" => (Refused(step, t) <=> step.x \in DOMAIN rows)
         /\ step.do = "findIdmap" => (Refused(step, t) <=> findIdmap(step.k, threads[t].size) = NoRange)
         /\ step.do = "create" => (Refused(step, t) <=> step.k \in DOMAIN vols)
         /\ step.do = "copy" => (Refused(step, t) <=> ~(step.x \in DOMAIN vols /\ step.k \notin DOMAIN vols))
         /\ step.do = "move" => (Refused(step, t) <=> ~(step.k \in DOMAIN vols /\ step.x \notin DOMAIN vols))
         /\ step.do = "destroy" => ~Refused(step, t)
<1>1. CASE step.do = "insert"
  BY <1>1 DEF Refused, Calls
<1>2. CASE step.do = "remove"
  BY <1>2 DEF Refused, Calls
<1>3. CASE step.do = "renamerow"
  BY <1>3 DEF Refused, Calls
<1>4. CASE step.do = "findIdmap"
  BY <1>4 DEF Refused, Calls
<1>5. CASE step.do = "create"
  BY <1>5 DEF Refused, Calls
<1>6. CASE step.do = "copy"
  BY <1>6 DEF Refused, Calls
<1>7. CASE step.do = "move"
  BY <1>7 DEF Refused, Calls
<1>8. CASE step.do = "destroy"
  BY <1>8 DEF Refused, Calls
<1>9. CASE step.do \in Calls
  BY <1>9 DEF Refused, Calls
<1> QED
  BY <1>1, <1>2, <1>3, <1>4, <1>5, <1>6, <1>7, <1>8, <1>9 DEF Calls

(* What the next step of a request can be.                                   *)
LEMMA NextStep ==
  ASSUME TypeInv, Plans, NEW t \in Threads, Busy(t)
  PROVE  LET th == threads[t]
             s == th.todo[1] IN
         /\ PlanInv(th) /\ 1 \in DOMAIN th.todo /\ s \in Steps /\ s = Head(th.todo)
         /\ th.todo \in Seq(Steps) /\ th.todo # <<>> /\ th.k \in Keys /\ s.k \in Keys /\ s.x \in Keys
         /\ th.kind \in Creates /\ ~th.failed =>
              /\ s.do \in {"check", "insert", "findIdmap", "setbase", "create", "copy"}
              /\ s.k = th.k /\ s.must /\ s.undo \in MakingUndo(s)
              /\ th.inserted => Rank(s) >= 2
         /\ (th.kind \in Creates /\ th.failed) \/ th.kind = "delete" =>
              /\ s.do \in {"Delete", "containerDeleteSnapshots", "destroy", "remove"}
              /\ s.k \in Family(th.k) /\ s.undo = <<>>
              /\ s.do \in Calls => s.k = th.k
         /\ th.kind = "delete" => s.do # "Delete" /\ ~th.failed
         /\ th.kind = "rename" =>
              /\ s.do \in {"check", "move", "renamerow", "RenameSnapshots"} /\ s.must /\ s.undo = <<>>
              /\ s.do \in {"move", "RenameSnapshots"} => s.k = th.k /\ s.x \in ContainerKeys
              /\ s.do = "renamerow" => Of(s.k) = th.k /\ s.x = Renamed(s.k, Of(s.x))
              /\ s.do # "check" => Of(s.x) # th.k
              /\ th.k \in ContainerKeys /\ ~th.failed
         /\ th.kind = "restore" => /\ s.do \in {"check", "restore", "update"} /\ s.must /\ s.undo = <<>>
                                   /\ s.do = "update" => s.k \in ContainerKeys
                                   /\ ~th.failed
<1>1. /\ threads[t].todo # <<>> /\ threads[t].k \in Keys /\ threads[t].todo \in Seq(Steps)
      /\ threads[t].todo[1] \in Steps /\ 1 \in DOMAIN threads[t].todo
      /\ Head(threads[t].todo) = threads[t].todo[1]
      /\ threads[t].todo[1].k \in Keys /\ threads[t].todo[1].x \in Keys
  BY BusyFacts, ThreadFacts
<1>2. PlanInv(threads[t])
  BY DEF Plans
<1>3. threads[t].kind = "rename" => threads[t].k \in ContainerKeys
  BY ThreadFacts DEF ThreadType, Busy
<1> DEFINE th == threads[t]
           s == th.todo[1]
<1>4. th.kind \in Creates /\ ~th.failed =>
              /\ s.do \in {"check", "insert", "findIdmap", "setbase", "create", "copy"}
              /\ s.k = th.k /\ s.must /\ s.undo \in MakingUndo(s)
              /\ th.inserted => Rank(s) >= 2
  BY <1>1, <1>2 DEF PlanInv, Making
<1>5. th.kind \in Creates /\ th.failed =>
              /\ s.do \in {"Delete", "containerDeleteSnapshots", "destroy", "remove"}
              /\ s.k \in Family(th.k) /\ s.undo = <<>>
              /\ s.do \in Calls => s.k = th.k
  BY <1>1, <1>2 DEF PlanInv, Undoing, Dropping, Drops
<1>6. th.kind = "delete" =>
              /\ s.do \in {"Delete", "containerDeleteSnapshots", "destroy", "remove"}
              /\ s.k \in Family(th.k) /\ s.undo = <<>>
              /\ s.do \in Calls => s.k = th.k
              /\ s.do # "Delete" /\ ~th.failed
  BY <1>1, <1>2 DEF PlanInv, Deleting, Dropping, Drops
<1>7. th.kind = "rename" =>
              /\ s.do \in {"check", "move", "renamerow", "RenameSnapshots"} /\ s.must /\ s.undo = <<>>
              /\ s.do \in {"move", "RenameSnapshots"} => s.k = th.k /\ s.x \in ContainerKeys
              /\ s.do = "renamerow" => Of(s.k) = th.k /\ s.x = Renamed(s.k, Of(s.x))
              /\ s.do # "check" => Of(s.x) # th.k
              /\ ~th.failed
  BY <1>1, <1>2 DEF PlanInv, RenamingPlan
<1>8. th.kind = "restore" => /\ s.do \in {"check", "restore", "update"} /\ s.must /\ s.undo = <<>>
                             /\ s.do = "update" => s.k \in ContainerKeys
                             /\ ~th.failed
  BY <1>1, <1>2 DEF PlanInv, Restoring
<1> QED
  BY <1>1, <1>2, <1>3, <1>4, <1>5, <1>6, <1>7, <1>8

(* The plan of each kind of request.                                         *)
LEMMA PlanIs ==
  ASSUME NEW th,
         \/ th.kind \in Creates /\ ~th.failed /\ Making(th)
         \/ th.kind \in Creates /\ th.failed /\ Undoing(th)
         \/ th.kind = "delete" /\ Deleting(th)
         \/ th.kind = "rename" /\ RenamingPlan(th)
         \/ th.kind = "restore" /\ Restoring(th)
  PROVE  PlanInv(th)
<1>1. CASE th.kind \in Creates
  <2>1. th.kind \notin {"delete", "rename", "restore"}
    BY <1>1 DEF Creates
  <2> QED
    BY <1>1, <2>1 DEF PlanInv
<1>2. CASE th.kind \in {"delete", "rename", "restore"}
  <2>1. th.kind \notin Creates
    BY <1>2 DEF Creates
  <2> QED
    BY <1>2, <2>1 DEF PlanInv
<1> QED
  BY <1>1, <1>2

(* A step that works.                                                        *)
LEMMA RunPlan ==
  ASSUME TypeInv, HostAssumption, Plans, NEW t \in Threads, Run(t)
  PROVE  LET old == threads[t]
             new == threads'[t]
             todo == After(old.todo[1], Tail(old.todo)) IN
         /\ todo \in Seq(Steps)
         /\ \A u \in Threads : u # t => threads'[u] = threads[u]
         /\ threads' \in [Threads -> Records]
         /\ RanOn(old, new, old.todo[1], todo)
         /\ PlanInv(new)
<1> DEFINE old == threads[t]
           s == old.todo[1]
           todo == After(s, Tail(old.todo))
<1>1. Busy(t) /\ ~Refused(s, t)
  <2>1. Busy(t)
    BY DEF Run
  <2> QED
    BY <2>1, BusyFacts DEF Run
<1>2. /\ old.todo \in Seq(Steps) /\ old.todo # <<>> /\ old.k \in Keys /\ s = Head(old.todo) /\ s \in Steps
      /\ PlanInv(old) /\ old.failed \in BOOLEAN /\ old.inserted \in BOOLEAN /\ old.kind \in Kinds7
  BY <1>1, NextStep, ThreadFacts
<1>3. Tail(old.todo) \in Seq(Steps) /\ Suffix(Tail(old.todo), old.todo, 1)
  BY <1>2, TailSuffix
<1>4. s.do \notin Calls => todo = Tail(old.todo)
  BY DEF After
<1>5. s.do \in Calls => todo = PlanOf(s) \o Tail(old.todo)
  BY Zenon DEF After
<1>6. s.do \in Calls => \/ old.kind \in Creates /\ old.failed
                        \/ old.kind = "delete"
                        \/ old.kind = "rename"
  BY <1>1, <1>2, NextStep DEF Calls, Kinds7
<1> DEFINE mid == [old EXCEPT !.todo = todo]
<1>7. mid.todo = todo /\ mid.k = old.k /\ mid.failed = old.failed
  BY <1>2, ThreadFacts DEF Records
<1> HIDE DEF mid, todo
<1>8. todo \in Seq(Steps)
  <2>1. CASE s.do \notin Calls
    BY <1>3, <1>4, <2>1, Zenon
  <2>2. CASE s.do \in Calls /\ old.kind \in Creates /\ old.failed
    BY <1>2, <1>5, <1>7, <2>2, UndoingCall, Zenon DEF PlanInv
  <2>3. CASE s.do \in Calls /\ old.kind = "delete"
    BY <1>2, <1>5, <1>7, <2>3, DeletingCall, Zenon DEF PlanInv
  <2>4. CASE s.do \in Calls /\ old.kind = "rename"
    <3>1. old.k \in ContainerKeys
      BY <1>1, <2>4, NextStep
    <3> QED
      BY <1>2, <1>5, <1>7, <2>4, <3>1, RenamingCall, Zenon DEF PlanInv
  <2> QED
    BY <1>6, <2>1, <2>2, <2>3, <2>4
<1>9. After(Head(old.todo), Tail(old.todo)) = todo
  BY <1>2 DEF todo
<1>10. findIdmap(Head(old.todo).k, old.size) \in Nat
  <2>1. old.size \in Nat
    BY ThreadFacts
  <2> QED
    BY <2>1, FindFits
<1>11. /\ \A u \in Threads : u # t => threads'[u] = threads[u]
       /\ threads' \in [Threads -> Records]
       /\ RanOn(old, threads'[t], s, todo)
  BY <1>2, <1>8, <1>9, <1>10, RunThread
<1> DEFINE new == threads'[t]
<1> HIDE DEF new
<1>12. /\ new.kind = old.kind /\ new.k = old.k /\ new.todo = todo /\ new.failed = old.failed
       /\ new.inserted = (old.inserted \/ s.do = "insert")
  BY <1>11 DEF RanOn, new
<1>13. ASSUME old.kind \in Creates /\ ~old.failed
       PROVE  PlanInv(new)
  <2>1. Making(new)
    <3>1. Making(old) /\ s.do \notin Calls
      BY <1>2, <1>6, <1>13 DEF PlanInv, Creates
    <3> QED
      BY <1>2, <1>4, <1>12, <3>1, MakingOn, Zenon
  <2> QED
    BY <1>12, <1>13, <2>1, PlanIs
<1>14. ASSUME old.kind \in Creates /\ old.failed
       PROVE  PlanInv(new)
  <2>1. Undoing(old)
    BY <1>2, <1>14 DEF PlanInv
  <2>2. Undoing(new)
    <3>1. CASE s.do \in Calls
      BY <1>2, <1>5, <1>12, <2>1, <3>1, UndoingCall, Zenon
    <3>2. CASE s.do \notin Calls
      <4>1. PICK n \in Nat \ {0} : n = 1
        OBVIOUS
      <4>2. Suffix(new.todo, old.todo, n)
        BY <1>3, <1>4, <1>12, <3>2, <4>1, Zenon
      <4> QED
        BY <1>12, <2>1, <4>2, UndoingLeft
    <3> QED
      BY <3>1, <3>2
  <2> QED
    BY <1>12, <1>14, <2>2, PlanIs, Zenon
<1>15. ASSUME old.kind = "delete"
       PROVE  PlanInv(new)
  <2>1. Deleting(old)
    BY <1>2, <1>15 DEF PlanInv
  <2>2. Deleting(new)
    <3>1. CASE s.do \in Calls
      BY <1>2, <1>5, <1>12, <2>1, <3>1, DeletingCall, Zenon
    <3>2. CASE s.do \notin Calls
      <4>1. PICK n \in Nat : n = 1
        OBVIOUS
      <4>2. Suffix(new.todo, old.todo, n)
        BY <1>3, <1>4, <1>12, <3>2, <4>1, Zenon
      <4> QED
        BY <1>2, <1>12, <2>1, <4>2, DeletingLeft
    <3> QED
      BY <3>1, <3>2
  <2> QED
    BY <1>12, <1>15, <2>2, PlanIs
<1>16. ASSUME old.kind = "rename"
       PROVE  PlanInv(new)
  <2>1. RenamingPlan(old) /\ old.k \in ContainerKeys
    BY <1>1, <1>2, <1>16, NextStep DEF PlanInv
  <2>2. RenamingPlan(new)
    <3>1. CASE s.do \in Calls
      BY <1>2, <1>5, <1>12, <2>1, <3>1, RenamingCall, Zenon
    <3>2. CASE s.do \notin Calls
      BY <1>2, <1>3, <1>4, <1>12, <2>1, <3>2, RenamingOn, Zenon
    <3> QED
      BY <3>1, <3>2
  <2> QED
    BY <1>12, <1>16, <2>2, PlanIs
<1>17. ASSUME old.kind = "restore"
       PROVE  PlanInv(new)
  <2>1. Restoring(old) /\ s.do \notin Calls
    BY <1>2, <1>6, <1>17 DEF PlanInv, Creates
  <2>2. Restoring(new)
    BY <1>2, <1>3, <1>4, <1>12, <2>1, RestoringOn, Zenon
  <2> QED
    BY <1>12, <1>17, <2>2, PlanIs
<1>18. PlanInv(new)
  <2>1. old.kind \in Creates \/ old.kind = "delete" \/ old.kind = "rename" \/ old.kind = "restore"
    BY <1>2 DEF Kinds7
  <2> QED
    BY <2>1, <1>13, <1>14, <1>15, <1>16, <1>17
<1> QED
  BY <1>8, <1>11, <1>18 DEF todo, new

(* A step that fails.                                                        *)
LEMMA FailPlan ==
  ASSUME TypeInv, Plans, NEW t \in Threads, Busy(t), threads[t].todo[1].do \notin Calls, Fails(t)
  PROVE  LET old == threads[t]
             s == old.todo[1]
             new == threads'[t] IN
         /\ \A u \in Threads : u # t => threads'[u] = threads[u]
         /\ threads' \in [Threads -> Records]
         /\ FailedOn(old, new, s, new.todo)
         /\ new.fault = (old.fault \/ ~Refused(s, t))
         /\ PlanInv(new) /\ new.todo \in Seq(Steps)
         /\ s.must => new.todo = s.undo
         /\ ~s.must => /\ Suffix(new.todo, old.todo, s.skip + 1)
                       /\ (s.do = "destroy" /\ s.skip = 1) \/ (s.do = "remove" /\ s.skip = 0)
         /\ s.must \in BOOLEAN /\ s.skip \in Nat
<1> DEFINE old == threads[t]
           s == old.todo[1]
           todo == TodoAfterFailure(old.todo)
<1>1. /\ old.todo \in Seq(Steps) /\ old.todo # <<>> /\ old.k \in Keys /\ s = Head(old.todo) /\ s \in Steps
      /\ PlanInv(old) /\ old.failed \in BOOLEAN /\ old.inserted \in BOOLEAN /\ old.kind \in Kinds7
      /\ 1 \in DOMAIN old.todo
  BY NextStep, ThreadFacts
<1>2. s.must \in BOOLEAN /\ s.skip \in Nat
  BY <1>1, Types
<1>3. /\ s.must => todo = s.undo
      /\ ~s.must => todo = SubSeq(old.todo, 2 + s.skip, Len(old.todo))
  BY <1>1, Zenon DEF TodoAfterFailure
<1> HIDE DEF todo
<1>4. ~s.must => /\ todo \in Seq(Steps) /\ Suffix(todo, old.todo, s.skip + 1)
  BY <1>1, <1>2, <1>3, SkipSuffix, Zenon
<1>5. ~s.must => \/ old.kind \in Creates /\ old.failed
                 \/ old.kind = "delete"
  BY <1>1, NextStep DEF Kinds7
<1>6. ~s.must => (s.do = "destroy" /\ s.skip = 1) \/ (s.do = "remove" /\ s.skip = 0)
  <2>1. ~s.must => Drops(old.todo, old.k)
    BY <1>1, <1>5 DEF PlanInv, Undoing, Deleting, Dropping
  <2>2. s.do \notin Calls
    OBVIOUS
  <2>3. ~s.must => s.do \in {"destroy", "remove"}
    BY <1>1, <2>1, <2>2 DEF Drops, Calls
  <2> QED
    <3> SUFFICES ASSUME ~s.must
                 PROVE  (s.do = "destroy" /\ s.skip = 1) \/ (s.do = "remove" /\ s.skip = 0)
      OBVIOUS
    <3>1. s.do \in {"destroy", "remove"} /\ Drops(old.todo, old.k)
      BY <2>1, <2>3
    <3>2. PICK p : p = old.todo /\ p[1] = s /\ 1 \in DOMAIN p /\ Drops(p, old.k)
      BY <1>1, <3>1
    <3>3. (p[1].do = "destroy" => p[1].must \/ p[1].skip = 1) /\ (p[1].do = "remove" => p[1].must \/ p[1].skip = 0)
      BY <3>2 DEF Drops
    <3> QED
      BY <3>1, <3>2, <3>3
<1>7. s.must /\ old.kind \in Creates /\ ~old.failed =>
         /\ todo \in Seq(Steps) /\ \A th : th.todo = todo /\ th.k = old.k => Undoing(th)
  <2> SUFFICES ASSUME s.must, old.kind \in Creates, ~old.failed
               PROVE  /\ todo \in Seq(Steps) /\ \A th : th.todo = todo /\ th.k = old.k => Undoing(th)
    OBVIOUS
  <2>1. s.k = old.k /\ s.undo \in MakingUndo(s)
    BY NextStep
  <2>2. s.undo \in {<<>>, <<ContainerRemove(s.k)>>, <<Delete(s.k)>>, DeleteAndRemove(s.k)}
    BY <1>1, <2>1, MakingUndoIs
  <2>0. PICK k \in Keys : k = old.k
    BY <1>1
  <2>3. PICK u : k = old.k /\ u = todo
    BY <2>0
  <2>4. u \in {<<>>, <<ContainerRemove(k)>>, <<Delete(k)>>, DeleteAndRemove(k)}
    BY <1>3, <2>1, <2>2, <2>3
  <2>5. u \in Seq(Steps) /\ \A th : th.todo = u /\ th.k = k => Undoing(th)
    <3>1. u \in Seq(Steps)
      BY <2>4, UndoPlan
    <3>2. ASSUME NEW th, th.todo = u, th.k = k
          PROVE  Undoing(th)
      BY <2>4, <3>2, UndoPlan
    <3> QED
      BY <3>1, <3>2
  <2> QED
    BY <2>3, <2>5
<1>8. s.must /\ ~(old.kind \in Creates /\ ~old.failed) => todo = <<>>
  BY <1>1, <1>3, NextStep DEF Kinds7
<1>9. todo \in Seq(Steps)
  BY <1>2, <1>4, <1>7, <1>8, EmptySeq, Zenon
<1>10. /\ \A u \in Threads : u # t => threads'[u] = threads[u]
       /\ threads' \in [Threads -> Records]
       /\ FailedOn(old, threads'[t], s, todo)
       /\ threads'[t].fault = (old.fault \/ ~Refused(s, t))
  BY <1>1, <1>2, <1>9, FailThread DEF todo
<1> DEFINE new == threads'[t]
<1> HIDE DEF new
<1>11. /\ new.kind = old.kind /\ new.k = old.k /\ new.todo = todo /\ new.failed = (old.failed \/ s.must)
       /\ new.inserted = old.inserted
  BY <1>10 DEF FailedOn, new
<1>12. ASSUME old.kind \in Creates
       PROVE  PlanInv(new)
  <2>1. Undoing(new) /\ new.failed
    <3>1. CASE ~old.failed
      <4>1. s.must
        <5>1. old.kind # "delete"
          BY <1>12 DEF Creates
        <5> QED
          BY <1>2, <1>5, <3>1, <5>1
      <4> QED
        BY <1>7, <1>11, <1>12, <3>1, <4>1, Zenon
    <3>2. CASE old.failed /\ s.must
      <4>1. todo = <<>>
        BY <1>8, <3>2
      <4>2. DOMAIN new.todo = {}
        BY <1>11, <4>1
      <4> QED
        BY <1>11, <3>2, <4>2, Zenon DEF Undoing, Dropping, Drops
    <3>3. CASE old.failed /\ ~s.must
      <4>1. Undoing(old)
        BY <1>1, <1>12, <3>3 DEF PlanInv
      <4>2. s.skip + 1 \in Nat \ {0}
        BY <1>2
      <4>3. Undoing(new)
        BY <1>4, <1>11, <3>3, <4>1, <4>2, UndoingLeft
      <4> QED
        BY <1>11, <3>3, <4>3, Zenon
    <3> QED
      BY <3>1, <3>2, <3>3
  <2> QED
    BY <1>11, <1>12, <2>1, PlanIs
<1>13. ASSUME old.kind = "delete"
       PROVE  PlanInv(new)
  <2>1. Deleting(old)
    BY <1>1, <1>13 DEF PlanInv
  <2>2. Deleting(new)
    <3>1. CASE s.must
      <4>1. todo = <<>>
        BY <1>8, <1>13, <3>1 DEF Creates
      <4>2. DOMAIN new.todo = {} /\ new.todo = <<>>
        BY <1>11, <4>1
      <4> QED
        BY <4>2 DEF Deleting, Dropping, Drops
    <3>2. CASE ~s.must
      BY <1>1, <1>2, <1>4, <1>11, <2>1, <3>2, DeletingLeft
    <3> QED
      BY <3>1, <3>2
  <2> QED
    BY <1>11, <1>13, <2>2, PlanIs
<1>14. ASSUME old.kind \in {"rename", "restore"}
       PROVE  PlanInv(new)
  <2>1. todo = <<>>
    BY <1>5, <1>8, <1>14 DEF Creates
  <2>2. DOMAIN new.todo = {} /\ new.todo = <<>>
    BY <1>11, <2>1
  <2> QED
    <3>1. RenamingPlan(new)
      BY <2>2 DEF RenamingPlan
    <3>2. Restoring(new)
      BY <2>2 DEF Restoring
    <3> QED
      BY <1>11, <1>14, <3>1, <3>2, PlanIs
<1>15. PlanInv(new)
  <2>1. old.kind \in Creates \/ old.kind = "delete" \/ old.kind = "rename" \/ old.kind = "restore"
    BY <1>1 DEF Kinds7
  <2> QED
    BY <2>1, <1>12, <1>13, <1>14
<1>16. FailedOn(old, new, s, new.todo)
  BY <1>10, <1>11 DEF new
<1> QED
  BY <1>2, <1>3, <1>4, <1>6, <1>9, <1>10, <1>11, <1>15, <1>16 DEF new

-----------------------------------------------------------------------------
(* Requests.                                                                 *)

\* A request that has just been taken up, and what it asks for.
Begun(t, new) ==
  /\ threads[t].phase = "idle" /\ served' = served + 1
  /\ \A u \in Threads : u # t => threads'[u] = threads[u]
  /\ threads' \in [Threads -> Records]
  /\ new.phase = "busy" /\ new.failed = FALSE /\ new.fault = FALSE /\ new.inserted = FALSE
  /\ new.base = 0 /\ new.id = served + 1 /\ new.k \in Keys
  /\ UNCHANGED <<rows, vols, harm, torn>>
  /\ seen \subseteq seen' /\ seen' \subseteq seen \cup {"overlap", "cut"}
  /\ "overlap" \notin seen' => \A u \in Threads : threads[u].phase = "idle"
  /\ "cut" \notin seen' /\ new.kind \in {"delete", "rename"} =>
       \A u \in Threads : threads[u].phase = "idle" \/ threads[u].k # new.k

Asked(new) ==
  /\ new.todo \in Seq(Steps) /\ new.todo # <<>> /\ PlanInv(new)
  /\ \A i \in DOMAIN new.todo : ~Bare(new.todo, i)
  /\ new.kind = "delete" =>
       /\ new.k \in DOMAIN rows /\ Pending(new.todo, "destroy", new.k)
       /\ new.k \in ContainerKeys => Holds(new.todo, "containerDeleteSnapshots")
  /\ new.kind = "rename" =>
       /\ new.k \in ContainerKeys /\ new.k \in DOMAIN rows /\ new.todo[1].do = "check" /\ Len(new.todo) = 4
       /\ \E n \in ContainerKeys :
            /\ n \notin DOMAIN rows /\ \A u \in Threads : threads[u].k # n
            /\ \A i \in DOMAIN new.todo : new.todo[i].do # "check" => new.todo[i].x = n
  /\ new.kind = "restore" => new.k \in ContainerKeys
  /\ new.kind = "snapshot" => new.k \in SnapshotKeys /\ Of(new.k) \in DOMAIN rows
  /\ new.kind \in Creates \ {"snapshot"} => new.k \in ContainerKeys /\ ~Renaming(new.k)

(* Whatever is asked for, a thread takes it up.                              *)
LEMMA ServeFacts ==
  ASSUME TypeInv, NEW t \in Threads, NEW kind \in Kinds7, NEW k \in Keys, NEW size \in Nat,
         NEW plan, plan \in Seq(Steps), Serve(t, kind, k, size, plan)
  PROVE  /\ Begun(t, threads'[t]) /\ threads'[t].kind = kind /\ threads'[t].k = k
         /\ threads'[t].size = size /\ threads'[t].todo = plan /\ threads'[t].inserted = FALSE
         /\ threads'[t].failed = FALSE
<1>1. PICK new : new = threads'[t]
  OBVIOUS
<1>2. /\ threads[t].phase = "idle" /\ served' = served + 1
      /\ \A u \in Threads : u # t => threads'[u] = threads[u]
      /\ threads' \in [Threads -> Records]
      /\ new.phase = "busy" /\ new.kind = kind /\ new.k = k /\ new.size = size /\ new.id = served + 1
      /\ new.base = 0 /\ new.todo = plan /\ new.failed = FALSE /\ new.fault = FALSE
      /\ new.inserted = FALSE
  BY <1>1, ServeThread, Zenon
<1>3. UNCHANGED <<rows, vols, harm, torn>>
  BY Zenon DEF Serve
<1>4. seen' = seen \cup {w \in {"overlap", "cut"} : \E u \in Threads :
                          /\ threads[u].phase # "idle"
                          /\ w = "cut" => kind \in {"delete", "rename"} /\ threads[u].k = k}
  BY Zenon DEF Serve
<1>5. seen \subseteq seen' /\ seen' \subseteq seen \cup {"overlap", "cut"}
  BY <1>4
<1>6. ASSUME "overlap" \notin seen', NEW u \in Threads
      PROVE  threads[u].phase = "idle"
  BY <1>4, <1>6
<1>7. ASSUME "cut" \notin seen', kind \in {"delete", "rename"}, NEW u \in Threads
      PROVE  threads[u].phase = "idle" \/ threads[u].k # k
  BY <1>4, <1>7
<1> QED
  BY <1>1, <1>2, <1>3, <1>5, <1>6, <1>7 DEF Begun

(* A creation that has just been asked for.                                  *)
LEMMA AskedCreation ==
  ASSUME NEW new, NEW source \in Keys, new.k \in Keys, new.kind \in Creates, ~new.failed, new.inserted = FALSE,
         new.kind = "snapshot" => new.k \in SnapshotKeys /\ Of(new.k) \in DOMAIN rows,
         new.kind # "snapshot" => new.k \in ContainerKeys /\ ~Renaming(new.k),
         new.todo \in {containerCreateAsEmpty(new.k), containerCreateFromImage(new.k),
                       containerCreateAsCopy(new.k, source), containerCreateAsSnapshot(new.k)}
  PROVE  Asked(new)
<1>0. PICK k \in Keys : k = new.k
  OBVIOUS
<1>1. PICK plan : k = new.k /\ plan = new.todo
  BY <1>0
<1>2. plan \in {containerCreateAsEmpty(k), containerCreateFromImage(k),
                containerCreateAsCopy(k, source), containerCreateAsSnapshot(k)}
  BY <1>1
<1>3. plan \in Seq(Steps) /\ plan # <<>> /\ \A th : th.todo = plan /\ th.k = k /\ th.inserted = FALSE => Making(th)
  BY <1>2, CreationPlans, Zenon
<1>4. Making(new)
  BY <1>1, <1>3
<1>5. \A i \in DOMAIN new.todo : ~Bare(new.todo, i)
  BY <1>4 DEF Making, Bare
<1>6. PlanInv(new)
  BY <1>4, PlanIs
<1>7. new.kind \notin {"delete", "rename", "restore"}
  BY DEF Creates
<1> QED
  BY <1>1, <1>3, <1>5, <1>6, <1>7 DEF Asked

(* Another request that has just been asked for.                             *)
LEMMA AskedOther ==
  ASSUME NEW new, NEW n \in ContainerKeys, NEW snap \in Keys, new.k \in Keys, ~new.failed, new.failed = FALSE,
         new.kind \in {"delete", "rename", "restore"},
         new.kind = "delete" => new.k \in DOMAIN rows /\ new.todo = DeletePlan(new.k),
         new.kind = "restore" => new.k \in ContainerKeys /\ new.todo = Restore(new.k, snap),
         new.kind = "rename" =>
           /\ new.k \in ContainerKeys /\ new.k \in DOMAIN rows /\ new.todo = Rename(new.k, n)
           /\ n \notin DOMAIN rows /\ \A u \in Threads : threads[u].k # n
  PROVE  Asked(new)
<1>1. new.kind \notin Creates
  BY DEF Creates
<1>2. CASE new.kind = "delete"
  <2>1. /\ new.todo \in Seq(Steps) /\ new.todo # <<>> /\ Deleting(new)
        /\ Pending(new.todo, "destroy", new.k) /\ \A i \in DOMAIN new.todo : ~Bare(new.todo, i)
        /\ new.k \in ContainerKeys => Holds(new.todo, "containerDeleteSnapshots")
    BY <1>2, DeleteRequest, Zenon
  <2>2. PlanInv(new)
    BY <1>2, <2>1, PlanIs
  <2> QED
    BY <1>1, <1>2, <2>1, <2>2 DEF Asked
<1>3. CASE new.kind = "restore"
  <2>1. new.todo \in Seq(Steps) /\ new.todo # <<>> /\ Restoring(new)
    BY <1>3, RestoreRequest, Zenon
  <2>2. PlanInv(new)
    BY <1>3, <2>1, PlanIs
  <2>3. \A i \in DOMAIN new.todo : ~Bare(new.todo, i)
    BY <2>1 DEF Restoring, Bare
  <2> QED
    BY <1>1, <1>3, <2>1, <2>2, <2>3 DEF Asked
<1>4. CASE new.kind = "rename"
  <2>1. new.k # n
    BY <1>4
  <2>2. /\ new.todo \in Seq(Steps) /\ new.todo # <<>> /\ RenamingPlan(new)
        /\ Len(new.todo) = 4 /\ DOMAIN new.todo = 1..4
        /\ Is(new.todo[1], "check", new.k, <<>>)
        /\ \A i \in {2, 3, 4} : new.todo[i].x = n
    <3>0. PICK k \in ContainerKeys : k = new.k
      BY <1>4
    <3>1. PICK p : p = Rename(k, n) /\ k # n
      BY <2>1, <3>0
    <3>2. /\ p \in Seq(Steps) /\ p # <<>> /\ Len(p) = 4 /\ DOMAIN p = 1..4
          /\ Is(p[1], "check", k, <<>>) /\ \A i \in {2, 3, 4} : p[i].x = n
          /\ \A th : th.todo = p /\ th.k = k /\ th.failed = FALSE => RenamingPlan(th)
      BY <3>1, RenameRequest, ZenonT(60)
    <3>3. new.todo = p /\ new.k = k /\ new.failed = FALSE
      BY <1>4, <3>0, <3>1
    <3>4. RenamingPlan(new)
      BY <3>2, <3>3
    <3> QED
      BY <3>2, <3>3, <3>4
  <2>3. PlanInv(new)
    BY <1>4, <2>2, PlanIs
  <2>4. \A i \in DOMAIN new.todo : ~Bare(new.todo, i)
    BY <2>2 DEF RenamingPlan, Bare
  <2>5. new.todo[1].do = "check"
    BY <2>2 DEF Is
  <2>6. \A i \in DOMAIN new.todo : new.todo[i].do # "check" => new.todo[i].x = n
    <3>1. \A i \in DOMAIN new.todo : i = 1 \/ i \in {2, 3, 4}
      BY <2>2
    <3> QED
      BY <2>2, <2>5, <3>1
  <2> QED
    BY <1>1, <1>4, <2>2, <2>3, <2>4, <2>5, <2>6 DEF Asked
<1> QED
  BY <1>2, <1>3, <1>4

(* The requests there are.                                                   *)
LEMMA RequestFacts ==
  ASSUME TypeInv, HostAssumption, NEW t \in Threads, Request(t)
  PROVE  Begun(t, threads'[t]) /\ Asked(threads'[t])
<1>1. PICK new : new = threads'[t]
  OBVIOUS
<1>2. Creates \cup {"delete", "rename", "restore"} = Kinds7 /\ Creates = {"none", "image", "copy", "snapshot"}
  BY DEF Kinds7, Creates
<1>3. \A k \in ContainerKeys : k \in Keys
  BY KeyFacts
<1>4. \A k \in DOMAIN rows : k \in Keys /\ rows[k].size \in Nat
  BY DEF TypeInv, RowSet
<1>5. ASSUME NEW k \in ContainerKeys, NEW size \in Nat, ~Renaming(k),
             createFromNone(t, k, size) \/ createFromImage(t, k, size)
      PROVE  Begun(t, new) /\ Asked(new)
  <2>1. PICK kind, plan :
          /\ kind \in {"none", "image"} /\ Serve(t, kind, k, size, plan)
          /\ plan \in {containerCreateAsEmpty(k), containerCreateFromImage(k)}
    BY <1>5, Zenon DEF createFromNone, createFromImage
  <2>2. plan \in {containerCreateAsEmpty(k), containerCreateFromImage(k),
                  containerCreateAsCopy(k, k), containerCreateAsSnapshot(k)}
    BY <2>1
  <2>3. plan \in Seq(Steps)
    BY <1>3, <2>2, CreationPlans, Zenon
  <2>4. /\ Begun(t, new) /\ new.kind = kind /\ new.k = k /\ new.todo = plan /\ new.inserted = FALSE
        /\ new.failed = FALSE
    BY <1>1, <1>2, <1>3, <2>1, <2>3, ServeFacts, Zenon
  <2>5. Asked(new)
    BY <1>2, <1>3, <1>5, <2>1, <2>2, <2>4, AskedCreation, Zenon
  <2> QED
    BY <2>4, <2>5
<1>6. ASSUME NEW k \in ContainerKeys, NEW source \in Keys, ~Renaming(k), createFromCopy(t, k, source)
      PROVE  Begun(t, new) /\ Asked(new)
  <2>1. PICK plan : /\ Serve(t, "copy", k, rows[source].size, plan) /\ source \in DOMAIN rows
                    /\ plan = containerCreateAsCopy(k, source)
    BY <1>6, Zenon DEF createFromCopy
  <2>2. plan \in {containerCreateAsEmpty(k), containerCreateFromImage(k),
                  containerCreateAsCopy(k, source), containerCreateAsSnapshot(k)}
    BY <2>1
  <2>3. plan \in Seq(Steps)
    BY <1>3, <2>2, CreationPlans, Zenon
  <2>4. /\ Begun(t, new) /\ new.kind = "copy" /\ new.k = k /\ new.todo = plan /\ new.inserted = FALSE
        /\ new.failed = FALSE
    BY <1>1, <1>2, <1>3, <1>4, <2>1, <2>3, ServeFacts, ZenonT(60)
  <2>5. Asked(new)
    BY <1>2, <1>3, <1>6, <2>1, <2>2, <2>4, AskedCreation, Zenon
  <2> QED
    BY <2>4, <2>5
<1>7. ASSUME NEW k \in SnapshotKeys, containerSnapshotsPost(t, k)
      PROVE  Begun(t, new) /\ Asked(new)
  <2>1. PICK plan, m : /\ Serve(t, "snapshot", k, m, plan) /\ Of(k) \in DOMAIN rows
                       /\ m = rows[Of(k)].size /\ plan = containerCreateAsSnapshot(k)
    BY <1>7, Zenon DEF containerSnapshotsPost
  <2>2. plan \in {containerCreateAsEmpty(k), containerCreateFromImage(k),
                  containerCreateAsCopy(k, k), containerCreateAsSnapshot(k)}
    BY <2>1
  <2>3. k \in Keys
    BY KeyFacts
  <2>4. plan \in Seq(Steps)
    BY <2>2, <2>3, CreationPlans, Zenon
  <2>7. m \in Nat /\ "snapshot" \in Kinds7
    BY <1>2, <1>4, <2>1
  <2>8. Serve(t, "snapshot", k, m, plan)
    BY <2>1
  <2>9. Begun(t, threads'[t]) /\ threads'[t].kind = "snapshot" /\ threads'[t].k = k
    BY <2>3, <2>4, <2>7, <2>8, ServeFacts, Zenon
  <2>10. threads'[t].todo = plan /\ threads'[t].inserted = FALSE /\ threads'[t].failed = FALSE
    BY <2>3, <2>4, <2>7, <2>8, ServeFacts, Zenon
  <2>5. /\ Begun(t, new) /\ new.kind = "snapshot" /\ new.k = k /\ new.todo = plan /\ new.inserted = FALSE
        /\ new.failed = FALSE
    BY <1>1, <2>9, <2>10
  <2>6. Asked(new)
    BY <1>2, <2>1, <2>2, <2>3, <2>5, AskedCreation, Zenon
  <2> QED
    BY <2>5, <2>6
<1>8. ASSUME NEW k \in Keys, containerDelete(t, k) \/ snapshotDelete(t, k)
      PROVE  Begun(t, new) /\ Asked(new)
  <2>1. PICK plan : Serve(t, "delete", k, 0, plan) /\ k \in DOMAIN rows /\ plan = DeletePlan(k)
    BY <1>8, Zenon DEF containerDelete, snapshotDelete
  <2>2. plan \in Seq(Steps)
    BY <2>1, DeleteSteps
  <2>3. Begun(t, new) /\ new.kind = "delete" /\ new.k = k /\ new.todo = plan /\ new.failed = FALSE
    BY <1>1, <1>2, <2>1, <2>2, ServeFacts, Zenon
  <2>4. Of(k) \in ContainerKeys
    BY KeyFacts
  <2>5. Asked(new)
    BY <2>1, <2>3, <2>4, AskedOther, Zenon
  <2> QED
    BY <2>3, <2>5
<1>9. ASSUME NEW k \in ContainerKeys, NEW n \in ContainerKeys, containerPost(t, k, n)
      PROVE  Begun(t, new) /\ Asked(new)
  <2>1. PICK plan : /\ Serve(t, "rename", k, 0, plan) /\ k \in DOMAIN rows /\ n \notin DOMAIN rows
                    /\ \A u \in Threads : threads[u].k # n
                    /\ plan = Rename(k, n)
    BY <1>9, Zenon DEF containerPost
  <2>2. plan \in Seq(Steps)
    <3>1. PICK th : th = [todo |-> plan, k |-> k, failed |-> FALSE]
      BY Zenon
    <3>2. th.todo = Rename(k, n) /\ th.todo = plan /\ th.k = k /\ th.failed = FALSE /\ k # n
      BY <2>1, <3>1
    <3> QED
      BY <3>2, RenameRequest, ZenonT(60)
  <2>3. Begun(t, new) /\ new.kind = "rename" /\ new.k = k /\ new.todo = plan /\ new.failed = FALSE
    BY <1>1, <1>2, <1>3, <2>1, <2>2, ServeFacts, Zenon
  <2>4. Asked(new)
    BY <1>3, <2>1, <2>3, AskedOther, Zenon
  <2> QED
    BY <2>3, <2>4
<1>10. ASSUME NEW x \in SnapshotKeys, containerSnapRestore(t, x)
       PROVE  Begun(t, new) /\ Asked(new)
  <2>1. PICK k, plan : Serve(t, "restore", k, 0, plan) /\ k = Of(x) /\ plan = Restore(k, x)
    BY <1>10, Zenon DEF containerSnapRestore
  <2>2. x \in Keys /\ k \in ContainerKeys
    BY <2>1, KeyFacts
  <2>3. plan \in Seq(Steps)
    <3>1. PICK th : th = [todo |-> plan, failed |-> FALSE]
      BY Zenon
    <3>2. th.todo = Restore(k, x) /\ th.todo = plan /\ th.failed = FALSE
      BY <2>1, <3>1
    <3> QED
      BY <2>2, <3>2, RestoreRequest, Zenon
  <2>4. Begun(t, new) /\ new.kind = "restore" /\ new.k = k /\ new.todo = plan /\ new.failed = FALSE
    BY <1>1, <1>2, <1>3, <2>1, <2>2, <2>3, ServeFacts, Zenon
  <2>5. Asked(new)
    BY <1>3, <2>1, <2>2, <2>4, AskedOther, Zenon
  <2> QED
    BY <2>4, <2>5
<1>11. Sizes \subseteq Nat /\ RoughSizes \subseteq Nat
  BY DEF HostAssumption
<1>12. Begun(t, new) /\ Asked(new)
  <2>1. CASE \E k \in ContainerKeys, size \in IF Calm THEN Sizes ELSE RoughSizes :
               ~Renaming(k) /\ (createFromNone(t, k, size) \/ createFromImage(t, k, size))
    BY <1>5, <1>11, <2>1
  <2>2. CASE \E k \in ContainerKeys, source \in Keys : ~Renaming(k) /\ createFromCopy(t, k, source)
    BY <1>6, <2>2
  <2>3. CASE \E k \in SnapshotKeys : containerSnapshotsPost(t, k) \/ snapshotDelete(t, k)
    BY <1>7, <1>8, <2>3, KeyFacts
  <2>4. CASE \E k \in ContainerKeys : containerDelete(t, k)
    BY <1>3, <1>8, <2>4
  <2>5. CASE \E k, n \in ContainerKeys : containerPost(t, k, n)
    BY <1>9, <2>5
  <2>6. CASE \E k \in SnapshotKeys : containerSnapRestore(t, k)
    BY <1>10, <2>6
  <2> QED
    BY <2>1, <2>2, <2>3, <2>4, <2>5, <2>6, Zenon DEF Request
<1> QED
  BY <1>1, <1>12

-----------------------------------------------------------------------------
(* What each step does to the rows and the volumes.                          *)

(* Every step.                                                               *)
LEMMA RunCommon ==
  ASSUME TypeInv, NEW t \in Threads, Run(t)
  PROVE  LET s == threads[t].todo[1] IN
         /\ Busy(t) /\ ~Refused(s, t) /\ s \in Steps
         /\ rows' = RowsAfter(s, t) /\ vols' = VolsAfter(s, t) /\ torn' = TornAfter(s)
         /\ seen' = SeenAfter(s, t) /\ served' = served /\ harm' = harm
<1>1. Busy(t)
  BY DEF Run
<1>2. Head(threads[t].todo) = threads[t].todo[1] /\ Head(threads[t].todo) \in Steps
  BY <1>1, BusyFacts
<1> QED
  BY <1>1, <1>2 DEF Run

(* Steps that leave rows and volumes as they are.                            *)
LEMMA RunOther ==
  ASSUME TypeInv, NEW t \in Threads, Run(t),
         threads[t].todo[1].do \in {"check", "findIdmap", "restore"} \cup Calls
  PROVE  rows' = rows /\ vols' = vols /\ torn' = torn /\ seen' = seen /\ \A y : Kept(y)' <=> Kept(y)
<1> DEFINE s == threads[t].todo[1]
<1>1. /\ s.do \notin {"insert", "remove", "renamerow", "setbase", "update", "create", "copy", "destroy", "move"}
  BY DEF Calls
<1>2. RowsAfter(s, t) = rows
  BY <1>1 DEF RowsAfter
<1>3. VolsAfter(s, t) = vols
  BY <1>1 DEF VolsAfter
<1>4. TornAfter(s) = torn
  BY <1>1 DEF TornAfter
<1>5. SeenAfter(s, t) = seen
  BY <1>1 DEF SeenAfter
<1> QED
  BY <1>2, <1>3, <1>4, <1>5, RunCommon DEF Kept

(* Steps that only change rows.                                              *)
LEMMA RunRows ==
  ASSUME TypeInv, NEW t \in Threads, Run(t),
         threads[t].todo[1].do \in {"insert", "remove", "renamerow", "setbase", "update"}
  PROVE  vols' = vols /\ torn' = torn /\ \A y : Kept(y)' <=> Kept(y)
<1> DEFINE s == threads[t].todo[1]
<1>3. VolsAfter(s, t) = vols
  BY DEF VolsAfter
<1>4. TornAfter(s) = torn
  BY DEF TornAfter
<1> QED
  BY <1>3, <1>4, RunCommon DEF Kept

(* Steps that only change volumes.                                           *)
LEMMA RunVolumes ==
  ASSUME TypeInv, NEW t \in Threads, Run(t),
         threads[t].todo[1].do \in {"create", "copy", "destroy", "move"}
  PROVE  rows' = rows /\ seen' = seen
<1> DEFINE s == threads[t].todo[1]
<1>2. RowsAfter(s, t) = rows
  BY DEF RowsAfter
<1>5. SeenAfter(s, t) = seen
  BY DEF SeenAfter
<1> QED
  BY <1>2, <1>5, RunCommon

\* An insert adds one row, the request's.
LEMMA RunInsert ==
  ASSUME TypeInv, NEW t \in Threads, Run(t), threads[t].todo[1].do = "insert"
  PROVE  LET th == threads[t]
             s == th.todo[1] IN
         /\ s.k \notin DOMAIN rows /\ DOMAIN rows' = DOMAIN rows \cup {s.k}
         /\ rows'[s.k] = [id |-> th.id, size |-> th.size, base |-> 0]
         /\ \A j \in DOMAIN rows : rows'[j] = rows[j]
         /\ seen' = seen /\ rows' = [j \in DOMAIN rows' |-> rows'[j]]
<1> DEFINE th == threads[t]
           s == th.todo[1]
           v == [id |-> th.id, size |-> th.size, base |-> 0]
<1>1. rows' = With(rows, s.k, v) /\ ~Refused(s, t) /\ SeenAfter(s, t) = seen /\ seen' = SeenAfter(s, t)
  BY RunCommon, Zenon DEF RowsAfter, SeenAfter
<1> HIDE DEF v
<1>2. s.k \notin DOMAIN rows
  BY <1>1, RefusedFacts
<1> QED
  BY <1>1, <1>2 DEF With, v

\* A remove takes one row.
LEMMA RunRemove ==
  ASSUME TypeInv, NEW t \in Threads, Run(t), threads[t].todo[1].do = "remove"
  PROVE  LET th == threads[t]
             s == th.todo[1] IN
         /\ s.k \in DOMAIN rows /\ DOMAIN rows' = DOMAIN rows \ {s.k}
         /\ \A j \in DOMAIN rows : j # s.k => rows'[j] = rows[j]
         /\ seen \subseteq seen' /\ seen' \subseteq seen \cup {"cut"}
         /\ th.kind \in Creates /\ s.k = th.k /\ rows[s.k].id # th.id => "cut" \in seen'
         /\ rows' = [j \in DOMAIN rows' |-> rows'[j]]
<1> DEFINE th == threads[t]
           s == th.todo[1]
<1>1. rows' = Without(rows, {s.k}) /\ ~Refused(s, t) /\ seen' = SeenAfter(s, t)
  BY RunCommon, Zenon DEF RowsAfter
<1>2. s.k \in DOMAIN rows
  BY <1>1, RefusedFacts
<1>3. /\ th.kind \in Creates /\ s.k = th.k /\ rows[s.k].id # th.id => SeenAfter(s, t) = seen \cup {"cut"}
      /\ ~(th.kind \in Creates /\ s.k = th.k /\ rows[s.k].id # th.id) => SeenAfter(s, t) = seen
  BY DEF SeenAfter
<1> QED
  BY <1>1, <1>2, <1>3 DEF Without

\* A rename moves one row, or none.
LEMMA RunRenamerow ==
  ASSUME TypeInv, NEW t \in Threads, Run(t), threads[t].todo[1].do = "renamerow"
  PROVE  LET s == threads[t].todo[1] IN
         /\ s.x \notin DOMAIN rows /\ seen' = seen
         /\ s.k \notin DOMAIN rows => rows' = rows
         /\ s.k \in DOMAIN rows =>
              /\ DOMAIN rows' = (DOMAIN rows \ {s.k}) \cup {s.x} /\ rows'[s.x] = rows[s.k] /\ s.x # s.k
              /\ \A j \in DOMAIN rows : j # s.k => rows'[j] = rows[j]
         /\ rows' = [j \in DOMAIN rows' |-> rows'[j]]
<1> DEFINE s == threads[t].todo[1]
<1>1. /\ rows' = RowsAfter(s, t) /\ ~Refused(s, t) /\ seen' = SeenAfter(s, t) /\ SeenAfter(s, t) = seen
  BY RunCommon DEF SeenAfter
<1>2. s.x \notin DOMAIN rows
  BY <1>1, RefusedFacts
<1>3. CASE s.k \in DOMAIN rows
  <2>1. rows' = With(Without(rows, {s.k}), s.x, rows[s.k])
    BY <1>1, <1>3 DEF RowsAfter
  <2>2. PICK f : f = Without(rows, {s.k})
    OBVIOUS
  <2>3. DOMAIN f = DOMAIN rows \ {s.k} /\ \A j \in DOMAIN rows : j # s.k => f[j] = rows[j]
    BY <2>2 DEF Without
  <2>4. /\ DOMAIN rows' = DOMAIN f \cup {s.x} /\ rows'[s.x] = rows[s.k]
        /\ \A j \in DOMAIN f : j # s.x => rows'[j] = f[j]
        /\ rows' = [j \in DOMAIN rows' |-> rows'[j]]
    BY <2>1, <2>2 DEF With
  <2> QED
    BY <1>1, <1>2, <1>3, <2>3, <2>4
<1>4. CASE s.k \notin DOMAIN rows
  <2>1. rows' = rows
    BY <1>1, <1>4 DEF RowsAfter
  <2>2. rows = [j \in DOMAIN rows |-> rows[j]]
    BY DEF TypeInv
  <2> QED
    BY <1>1, <1>2, <1>4, <2>1, <2>2
<1> QED
  BY <1>3, <1>4

\* The range goes to the request's own row.
LEMMA RunSetbase ==
  ASSUME TypeInv, NEW t \in Threads, Run(t), threads[t].todo[1].do = "setbase"
  PROVE  LET th == threads[t] IN
         /\ DOMAIN rows' = DOMAIN rows /\ seen' = seen
         /\ \A j \in DOMAIN rows :
              /\ rows'[j] \in RowSet /\ rows'[j].id = rows[j].id /\ rows'[j].size = rows[j].size
              /\ rows'[j].base = IF rows[j].id = th.id THEN th.base ELSE rows[j].base
         /\ rows' = [j \in DOMAIN rows' |-> rows'[j]]
<1> DEFINE th == threads[t]
           s == th.todo[1]
<1>1. /\ rows' = [k \in DOMAIN rows |->
                    IF rows[k].id = th.id THEN [rows[k] EXCEPT !.base = th.base] ELSE rows[k]]
      /\ seen' = SeenAfter(s, t) /\ SeenAfter(s, t) = seen
  BY RunCommon, Zenon DEF RowsAfter, SeenAfter
<1>2. DOMAIN rows' = DOMAIN rows /\ rows' = [j \in DOMAIN rows' |-> rows'[j]]
  BY <1>1
<1>3. ASSUME NEW j \in DOMAIN rows
      PROVE  /\ rows'[j] \in RowSet /\ rows'[j].id = rows[j].id /\ rows'[j].size = rows[j].size
             /\ rows'[j].base = IF rows[j].id = th.id THEN th.base ELSE rows[j].base
  <2>1. PICK r, b : r = rows[j] /\ b = th.base
    OBVIOUS
  <2>2. r \in RowSet /\ b \in Nat
    BY <2>1, ThreadFacts DEF TypeInv
  <2>3. PICK q : q = [r EXCEPT !.base = b]
    BY Zenon
  <2>4. q \in RowSet /\ q.id = r.id /\ q.size = r.size /\ q.base = b
    BY <2>2, <2>3 DEF RowSet
  <2>5. rows'[j] = IF r.id = th.id THEN q ELSE r
    BY <1>1, <2>1, <2>3
  <2> QED
    BY <2>1, <2>2, <2>4, <2>5
<1> QED
  BY <1>1, <1>2, <1>3

\* A restore changes no row's id.
LEMMA RunUpdate ==
  ASSUME TypeInv, NEW t \in Threads, Run(t), threads[t].todo[1].do = "update"
  PROVE  /\ DOMAIN rows' = DOMAIN rows /\ seen \subseteq seen' /\ seen' \subseteq seen \cup {"restored"}
         /\ \A j \in DOMAIN rows : rows'[j] \in RowSet /\ rows'[j].id = rows[j].id
         /\ "restored" \notin seen' => rows' = rows
         /\ rows' = [j \in DOMAIN rows' |-> rows'[j]]
<1> DEFINE s == threads[t].todo[1]
<1>1. rows' = RowsAfter(s, t) /\ seen' = SeenAfter(s, t)
  BY RunCommon
<1>2. /\ RowsAfter(s, t) # rows => SeenAfter(s, t) = seen \cup {"restored"}
      /\ RowsAfter(s, t) = rows => SeenAfter(s, t) = seen
  BY DEF SeenAfter
<1>3. rows = [j \in DOMAIN rows |-> rows[j]] /\ \A j \in DOMAIN rows : rows[j] \in RowSet
  BY DEF TypeInv
<1>4. CASE {s.k, s.x} \subseteq DOMAIN rows
  <2>1. RowsAfter(s, t) = [rows EXCEPT ![s.k].size = rows[s.x].size, ![s.k].base = rows[s.x].base]
    BY <1>4 DEF RowsAfter
  <2>2. PICK r, m, b : r = rows[s.k] /\ m = rows[s.x].size /\ b = rows[s.x].base
    OBVIOUS
  <2>3. r \in RowSet /\ m \in Nat /\ b \in Nat
    BY <1>3, <1>4, <2>2 DEF RowSet
  <2>4. PICK q : q = [r EXCEPT !.size = m, !.base = b]
    OBVIOUS
  <2>5. q \in RowSet /\ q.id = r.id
    BY <2>3, <2>4, Zenon DEF RowSet
  <2>6. rows' = [rows EXCEPT ![s.k] = q]
    BY <1>1, <1>3, <1>4, <2>1, <2>2, <2>4, Zenon
  <2>7. DOMAIN rows' = DOMAIN rows /\ rows' = [j \in DOMAIN rows' |-> rows'[j]]
        /\ \A j \in DOMAIN rows : rows'[j] = IF j = s.k THEN q ELSE rows[j]
    BY <1>3, <1>4, <2>6, Zenon
  <2> QED
    BY <1>1, <1>2, <1>3, <2>2, <2>5, <2>7
<1>5. CASE ~({s.k, s.x} \subseteq DOMAIN rows)
  <2>1. RowsAfter(s, t) = rows
    BY <1>5, SMTT(60) DEF RowsAfter
  <2> QED
    BY <1>1, <1>2, <1>3, <2>1
<1> QED
  BY <1>4, <1>5

(* A volume is made.                                                         *)
LEMMA RunMake ==
  ASSUME TypeInv, NEW t \in Threads, Run(t), threads[t].todo[1].do \in {"create", "copy"}
  PROVE  LET th == threads[t]
             s == th.todo[1] IN
         /\ s.k \notin DOMAIN vols /\ DOMAIN vols' = DOMAIN vols \cup {s.k} /\ vols'[s.k] = th.id
         /\ \A y \in DOMAIN vols : vols'[y] = vols[y]
         /\ torn' = torn /\ vols' = [y \in DOMAIN vols' |-> vols'[y]]
         /\ \A y : Kept(y)' <=> Kept(y) \/ y = s.k
<1> DEFINE th == threads[t]
           s == th.todo[1]
<1>1. /\ vols' = With(vols, s.k, th.id) /\ torn' = TornAfter(s) /\ TornAfter(s) = torn /\ ~Refused(s, t)
  BY RunCommon, Zenon DEF VolsAfter, TornAfter
<1>2. s.k \notin DOMAIN vols
  <2>1. CASE s.do = "create"
    BY <1>1, <2>1, RefusedFacts
  <2>2. CASE s.do = "copy"
    BY <1>1, <2>2, RefusedFacts
  <2> QED
    BY <2>1, <2>2
<1>3. torn \subseteq DOMAIN vols
  BY DEF TypeInv
<1>4. /\ DOMAIN vols' = DOMAIN vols \cup {s.k} /\ vols'[s.k] = th.id
      /\ \A y \in DOMAIN vols : y # s.k => vols'[y] = vols[y]
      /\ vols' = [y \in DOMAIN vols' |-> vols'[y]]
  BY <1>1 DEF With
<1> QED
  BY <1>1, <1>2, <1>3, <1>4 DEF Kept

\* A destroy takes one volume.
LEMMA RunDestroy ==
  ASSUME TypeInv, NEW t \in Threads, Run(t), threads[t].todo[1].do = "destroy"
  PROVE  LET s == threads[t].todo[1] IN
         /\ DOMAIN vols' = DOMAIN vols \ {s.k} /\ \A y \in DOMAIN vols' : vols'[y] = vols[y]
         /\ torn' = torn \ {s.k} /\ vols' = [y \in DOMAIN vols' |-> vols'[y]]
         /\ \A y : Kept(y)' <=> Kept(y) /\ y # s.k
<1> DEFINE s == threads[t].todo[1]
<1>1. vols' = Without(vols, {s.k}) /\ torn' = torn \ {s.k}
  BY RunCommon, ZenonT(60) DEF VolsAfter, TornAfter
<1> QED
  BY <1>1 DEF Without, Kept

(* A container's volume and those of its snapshots get another name.         *)
LEMMA RunMove ==
  ASSUME TypeInv, NEW t \in Threads, Run(t), threads[t].todo[1].do = "move",
         threads[t].todo[1].k \in ContainerKeys, threads[t].todo[1].x \in ContainerKeys
  PROVE  LET k == threads[t].todo[1].k
             x == threads[t].todo[1].x IN
         /\ k \in DOMAIN vols /\ x \notin DOMAIN vols /\ k # x
         /\ DOMAIN vols' \subseteq Keys /\ torn' \subseteq DOMAIN vols'
         /\ vols' = [y \in DOMAIN vols' |-> vols'[y]]
         /\ \A y \in Keys :
              /\ y \in DOMAIN vols' <=> \/ y \in DOMAIN vols /\ Of(y) # k
                                        \/ Of(y) = x /\ Renamed(y, k) \in DOMAIN vols
              /\ y \in torn' <=> \/ y \in torn /\ Of(y) # k
                                 \/ Of(y) = x /\ Renamed(y, k) \in torn
              /\ Kept(y)' => (Kept(y) /\ Of(y) # k) \/ (Of(y) = x /\ Kept(Renamed(y, k)))
              /\ y \in DOMAIN vols /\ Of(y) # k => vols'[y] = vols[y]
         /\ vols'[x] = vols[k]
<1> DEFINE s == threads[t].todo[1]
<1>1. PICK k \in ContainerKeys : k = s.k
  OBVIOUS
<1>2. PICK x \in ContainerKeys : x = s.x
  OBVIOUS
<1>3. vols' = MovedTree(vols, k, x) /\ torn' = (torn \ Tree(torn, k)) \cup MovedTo(Tree(torn, k), x)
      /\ ~Refused(s, t)
  BY <1>1, <1>2, RunCommon, Zenon DEF VolsAfter, TornAfter
<1>4. k \in DOMAIN vols /\ x \notin DOMAIN vols
  BY <1>1, <1>2, <1>3, RefusedFacts
<1>5. k \in Keys /\ x \in Keys /\ Of(k) = k /\ Of(x) = x /\ ~IsSnapshot(k) /\ ~IsSnapshot(x) /\ k # x
  BY <1>4, KeyFacts
<1>6. DOMAIN vols \subseteq Keys /\ torn \subseteq DOMAIN vols
  BY DEF TypeInv
<1>7. ASSUME NEW S, S \subseteq Keys, NEW y \in Keys
      PROVE  y \in MovedTo(Tree(S, k), x) <=> Of(y) = x /\ Renamed(y, k) \in S
  <2>1. ASSUME y \in MovedTo(Tree(S, k), x)
        PROVE  Of(y) = x /\ Renamed(y, k) \in S
    <3>1. PICK z \in S : Of(z) = k /\ y = Renamed(z, x)
      BY <2>1 DEF MovedTo, Tree
    <3>2. z \in Keys
      BY <1>7
    <3>3. Of(Renamed(z, x)) = x /\ Renamed(z, Of(z)) = z /\ Renamed(Renamed(z, x), k) = Renamed(z, k)
      BY <3>2, RenamedFacts
    <3> QED
      BY <3>1, <3>3
  <2>2. ASSUME Of(y) = x, Renamed(y, k) \in S
        PROVE  y \in MovedTo(Tree(S, k), x)
    <3>1. Of(Renamed(y, k)) = k /\ Renamed(y, Of(y)) = y /\ Renamed(Renamed(y, k), x) = Renamed(y, x)
      BY RenamedFacts
    <3>2. Renamed(y, k) \in Tree(S, k) /\ y = Renamed(Renamed(y, k), x)
      BY <2>2, <3>1 DEF Tree
    <3> QED
      BY <3>2 DEF MovedTo
  <2> QED
    BY <2>1, <2>2
<1>8. \A S, z : z \in Tree(S, k) <=> z \in S /\ Of(z) = k
  BY DEF Tree
<1>9. ASSUME NEW S, S \subseteq Keys
      PROVE  MovedTo(Tree(S, k), x) \subseteq Keys
  <2>1. ASSUME NEW z \in Tree(S, k)
        PROVE  Renamed(z, x) \in Keys
    <3>1. z \in Keys
      BY <1>8, <1>9
    <3> QED
      BY <3>1, RenamedFacts
  <2> QED
    BY <2>1 DEF MovedTo
<1> DEFINE others == DOMAIN vols \ Tree(DOMAIN vols, k)
           moved == MovedTo(Tree(DOMAIN vols, k), x)
<1>10. /\ DOMAIN vols' = others \cup moved
       /\ \A y \in others \cup moved : vols'[y] = IF y \in others THEN vols[y] ELSE vols[Renamed(y, k)]
       /\ vols' = [y \in DOMAIN vols' |-> vols'[y]]
  BY <1>3 DEF MovedTree
<1>11. \A y : y \in others <=> y \in DOMAIN vols /\ Of(y) # k
  BY <1>8
<1>12. \A y \in Keys : y \in moved <=> Of(y) = x /\ Renamed(y, k) \in DOMAIN vols
  BY <1>6, <1>7
<1>13. moved \subseteq Keys
  BY <1>6, <1>9
<1> HIDE DEF others, moved
<1>14. DOMAIN vols' \subseteq Keys
  BY <1>6, <1>10, <1>11, <1>13
<1>15. torn \subseteq Keys
  BY <1>6
<1>16. \A y \in Keys : y \in torn' <=> \/ y \in torn /\ Of(y) # k
                                       \/ Of(y) = x /\ Renamed(y, k) \in torn
  <2>1. \A y \in Keys : y \in MovedTo(Tree(torn, k), x) <=> Of(y) = x /\ Renamed(y, k) \in torn
    BY <1>7, <1>15
  <2> QED
    BY <1>3, <1>8, <2>1
<1>17. torn' \subseteq Keys
  BY <1>3, <1>9, <1>15
<1>18. \A y \in Keys : y \in DOMAIN vols' <=> \/ y \in DOMAIN vols /\ Of(y) # k
                                              \/ Of(y) = x /\ Renamed(y, k) \in DOMAIN vols
  BY <1>10, <1>11, <1>12
<1>19. torn' \subseteq DOMAIN vols'
  BY <1>6, <1>16, <1>17, <1>18
<1>20. \A y \in Keys : Kept(y)' => (Kept(y) /\ Of(y) # k) \/ (Of(y) = x /\ Kept(Renamed(y, k)))
  BY <1>16, <1>18 DEF Kept
<1>21. \A y \in Keys : y \in DOMAIN vols /\ Of(y) # k => vols'[y] = vols[y]
  BY <1>10, <1>11
<1>22. vols'[x] = vols[k]
  <2>1. Renamed(x, k) = k /\ x \notin others /\ x \in moved
    BY <1>4, <1>5, <1>11, <1>12, Zenon DEF Renamed
  <2> QED
    BY <1>10, <2>1
<1> QED
  BY <1>1, <1>2, <1>4, <1>5, <1>14, <1>10, <1>16, <1>18, <1>19, <1>20, <1>21, <1>22

(* A step that fails leaves rows and volumes, but may leave a volume torn.   *)
LEMMA FailEffects ==
  ASSUME TypeInv, NEW t \in Threads, Refuse(t) \/ Fault(t)
  PROVE  LET th == threads[t]
             s == th.todo[1] IN
         /\ Busy(t) /\ Fails(t) /\ s.do \notin Calls /\ s \in Steps
         /\ rows' = rows /\ vols' = vols /\ served' = served
         /\ torn \subseteq torn' /\ torn' \subseteq DOMAIN vols
         /\ seen \subseteq seen' /\ seen' \subseteq seen \cup {"stuck"}
         /\ harm' \in 0..MaxHarm /\ harm' >= harm
         /\ Refused(s, t) \/ (~Refused(s, t) /\ harm' > 0 /\ (th.failed => "stuck" \in seen'))
         /\ s.do = "renamerow" =>
              \A y \in DOMAIN vols : Of(y) = Of(s.x) /\ (y \notin DOMAIN rows \/ y = s.x) => y \in torn'
         /\ s.do # "renamerow" => torn' = torn
         /\ \A y : Kept(y)' => Kept(y)
         /\ s.do # "renamerow" => \A y : Kept(y)' <=> Kept(y)
<1> DEFINE th == threads[t]
           s == th.todo[1]
<1>1. Busy(t) /\ Fails(t)
  BY DEF Refuse, Fault
<1>2. Head(th.todo) = s /\ s \in Steps
  BY <1>1, BusyFacts
<1>3. s.do \notin Calls
  <2>1. CASE Refuse(t)
    BY <1>2, <2>1, RefusedFacts DEF Refuse
  <2>2. CASE Fault(t)
    BY <1>2, <2>2 DEF Fault
  <2> QED
    BY <2>1, <2>2
<1>4. /\ rows' = rows /\ vols' = vols /\ served' = served
      /\ torn' = IF s.do = "renamerow"
                 THEN torn \cup {x \in Tree(DOMAIN vols, Of(s.x)) : x \notin DOMAIN rows \/ x = s.x}
                 ELSE torn
  BY <1>1, <1>2 DEF Fails
<1>5. harm \in 0..MaxHarm /\ MaxHarm \in Nat /\ torn \subseteq DOMAIN vols
  BY HostAssumption DEF TypeInv, HostAssumption
<1>6. /\ seen \subseteq seen' /\ seen' \subseteq seen \cup {"stuck"}
      /\ harm' \in 0..MaxHarm /\ harm' >= harm
      /\ Refused(s, t) \/ (~Refused(s, t) /\ harm' > 0 /\ (th.failed => "stuck" \in seen'))
  <2>1. CASE Refuse(t)
    BY <1>2, <1>5, <2>1 DEF Refuse
  <2>2. CASE Fault(t)
    BY <1>2, <1>5, <2>2 DEF Fault
  <2> QED
    BY <2>1, <2>2
<1>7. \A y : y \in Tree(DOMAIN vols, Of(s.x)) <=> y \in DOMAIN vols /\ Of(y) = Of(s.x)
  BY DEF Tree
<1>8. torn \subseteq torn' /\ torn' \subseteq DOMAIN vols
  BY <1>4, <1>5, <1>7
<1>9. s.do = "renamerow" =>
        \A y \in DOMAIN vols : Of(y) = Of(s.x) /\ (y \notin DOMAIN rows \/ y = s.x) => y \in torn'
  BY <1>4, <1>7
<1>10. s.do # "renamerow" => torn' = torn
  BY <1>4
<1>11. \A y : Kept(y)' => Kept(y)
  BY <1>4, <1>8 DEF Kept
<1>12. s.do # "renamerow" => \A y : Kept(y)' <=> Kept(y)
  BY <1>4, <1>10 DEF Kept
<1> QED
  BY <1>1, <1>2, <1>3, <1>4, <1>6, <1>8, <1>9, <1>10, <1>11, <1>12

(* A crash.                                                                  *)
LEMMA CrashEffects ==
  ASSUME TypeInv, Crash
  PROVE  /\ rows' = rows /\ vols' = vols /\ served' = served
         /\ \A t \in Threads : threads'[t] = Idle
         /\ threads' \in [Threads -> Records]
         /\ torn \subseteq torn' /\ torn' \subseteq DOMAIN vols
         /\ \A y \in DOMAIN vols \ DOMAIN rows : Renaming(y) => y \in torn'
         /\ seen' = seen \cup {"crash"} /\ harm' \in 0..MaxHarm /\ harm' > 0
         /\ \A y : Kept(y)' => Kept(y)
<1>1. harm \in 0..MaxHarm /\ MaxHarm \in Nat /\ torn \subseteq DOMAIN vols
  BY HostAssumption DEF TypeInv, HostAssumption
<1>2. Idle \in Records
  BY EmptySeq DEF Idle, Records, Kinds7, Creates
<1>3. /\ rows' = rows /\ vols' = vols /\ served' = served
      /\ threads' = [t \in Threads |-> Idle]
      /\ torn' = torn \cup {x \in DOMAIN vols \ DOMAIN rows : Renaming(x)}
      /\ seen' = seen \cup {"crash"} /\ harm' = harm + 1 /\ harm < MaxHarm
  BY DEF Crash
<1> QED
  BY <1>1, <1>2, <1>3 DEF Kept

(* A request that is answered.                                               *)
LEMMA ReturnEffects ==
  ASSUME TypeInv, NEW t \in Threads, Return(t)
  PROVE  /\ rows' = rows /\ vols' = vols /\ served' = served /\ harm' = harm /\ seen' = seen /\ torn' = torn
         /\ threads[t].phase \in {"ok", "error"} /\ threads[t].todo = <<>>
         /\ threads'[t] = Idle /\ \A u \in Threads : u # t => threads'[u] = threads[u]
         /\ threads' \in [Threads -> Records]
         /\ \A y : Kept(y)' <=> Kept(y)
<1>1. Idle \in Records
  BY EmptySeq DEF Idle, Records, Kinds7, Creates
<1>2. threads' = [threads EXCEPT ![t] = Idle] /\ threads \in [Threads -> Records]
  BY DEF Return, TypeInv
<1>3. threads[t].phase \in {"ok", "error"} /\ UNCHANGED <<rows, vols, served, harm, seen, torn>>
  BY DEF Return
<1>4. threads[t].todo = <<>>
  BY <1>3, ThreadFacts DEF ThreadType
<1> QED
  BY <1>1, <1>2, <1>3, <1>4 DEF Kept

-----------------------------------------------------------------------------
(* Types and plans are kept.                                                 *)

\* What a step does to the threads: nothing but to its own.
Others(t) == \A u \in Threads : u # t => threads'[u] = threads[u]

(* The rows after a step.                                                    *)
LEMMA RunRowTypes ==
  ASSUME TypeInv, Plans, NEW t \in Threads, Run(t)
  PROVE  /\ rows' = [k \in DOMAIN rows' |-> rows'[k]] /\ DOMAIN rows' \subseteq Keys /\ IsFiniteSet(DOMAIN rows')
         /\ \A k \in DOMAIN rows' : rows'[k] \in RowSet /\ rows'[k].id \in 1..served
<1> DEFINE th == threads[t]
           s == th.todo[1]
<1>1. Busy(t) /\ s.k \in Keys /\ s.x \in Keys /\ s \in Steps
  BY RunCommon, NextStep
<1>2. th.id \in 1..served /\ th.size \in Nat /\ th.id \in Nat
  BY <1>1, BusyFacts, ThreadFacts
<1>3. /\ rows = [k \in DOMAIN rows |-> rows[k]] /\ DOMAIN rows \subseteq Keys /\ IsFiniteSet(DOMAIN rows)
      /\ \A k \in DOMAIN rows : rows[k] \in RowSet /\ rows[k].id \in 1..served
  BY DEF TypeInv
<1>4. \A x : IsFiniteSet(DOMAIN rows \ {x}) /\ IsFiniteSet(DOMAIN rows \cup {x})
             /\ IsFiniteSet((DOMAIN rows \ {x}) \cup {s.x})
  BY <1>3, FS_AddElement, FS_RemoveElement
<1>5. CASE s.do = "insert"
  <2>1. PICK v : v = [id |-> th.id, size |-> th.size, base |-> 0]
    BY Zenon
  <2>2. v \in RowSet /\ v.id \in 1..served
    BY <1>2, <2>1 DEF RowSet
  <2>3. /\ DOMAIN rows' = DOMAIN rows \cup {s.k} /\ rows'[s.k] = v
        /\ \A j \in DOMAIN rows : rows'[j] = rows[j]
        /\ rows' = [j \in DOMAIN rows' |-> rows'[j]]
    BY <1>5, <2>1, RunInsert, Zenon
  <2>4. DOMAIN rows' \subseteq Keys /\ IsFiniteSet(DOMAIN rows')
    BY <1>1, <1>3, <1>4, <2>3, ZenonT(60)
  <2>5. ASSUME NEW k \in DOMAIN rows' PROVE rows'[k] \in RowSet /\ rows'[k].id \in 1..served
    BY <1>3, <2>2, <2>3
  <2> QED
    BY <2>3, <2>4, <2>5, Zenon
<1>6. CASE s.do = "remove"
  <2>1. /\ DOMAIN rows' = DOMAIN rows \ {s.k} /\ \A j \in DOMAIN rows : j # s.k => rows'[j] = rows[j]
        /\ rows' = [j \in DOMAIN rows' |-> rows'[j]]
    BY <1>6, RunRemove
  <2>2. IsFiniteSet(DOMAIN rows')
    BY <1>4, <2>1, Zenon
  <2>3. \A k \in DOMAIN rows' : k \in DOMAIN rows /\ rows'[k] = rows[k]
    BY <2>1
  <2> QED
    BY <1>3, <2>1, <2>2, <2>3
<1>7. CASE s.do = "renamerow" /\ s.k \in DOMAIN rows
  <2>1. /\ DOMAIN rows' = (DOMAIN rows \ {s.k}) \cup {s.x} /\ rows'[s.x] = rows[s.k]
        /\ \A j \in DOMAIN rows : j # s.k => rows'[j] = rows[j]
        /\ rows' = [j \in DOMAIN rows' |-> rows'[j]]
    BY <1>7, RunRenamerow
  <2>2. DOMAIN rows' \subseteq Keys /\ IsFiniteSet(DOMAIN rows')
    BY <1>1, <1>3, <1>4, <1>7, <2>1, ZenonT(60)
  <2>3. ASSUME NEW k \in DOMAIN rows' PROVE rows'[k] \in RowSet /\ rows'[k].id \in 1..served
    BY <1>3, <1>7, <2>1
  <2> QED
    BY <2>1, <2>2, <2>3, Zenon
<1>8. CASE s.do = "renamerow" /\ s.k \notin DOMAIN rows
  BY <1>3, <1>8, RunRenamerow, Zenon
<1>9. CASE s.do = "setbase"
  <2>1. /\ DOMAIN rows' = DOMAIN rows /\ \A j \in DOMAIN rows : rows'[j] \in RowSet /\ rows'[j].id = rows[j].id
        /\ rows' = [j \in DOMAIN rows' |-> rows'[j]]
    BY <1>9, RunSetbase
  <2> QED
    BY <1>3, <2>1
<1>10. CASE s.do = "update"
  <2>1. /\ DOMAIN rows' = DOMAIN rows /\ \A j \in DOMAIN rows : rows'[j] \in RowSet /\ rows'[j].id = rows[j].id
        /\ rows' = [j \in DOMAIN rows' |-> rows'[j]]
    BY <1>10, RunUpdate
  <2> QED
    BY <1>3, <2>1
<1>11. CASE s.do \in {"check", "findIdmap", "restore"} \cup Calls
  BY <1>3, <1>11, RunOther
<1>12. CASE s.do \in {"create", "copy", "destroy", "move"}
  BY <1>3, <1>12, RunVolumes
<1>13. s.do \in Dos
  BY <1>1, Types
<1> QED
  BY <1>5, <1>6, <1>7, <1>8, <1>9, <1>10, <1>11, <1>12, <1>13 DEF Dos

(* The volumes after a step.                                                 *)
LEMMA RunVolumeTypes ==
  ASSUME TypeInv, Plans, NEW t \in Threads, Run(t)
  PROVE  /\ vols' = [k \in DOMAIN vols' |-> vols'[k]] /\ DOMAIN vols' \subseteq Keys
         /\ torn' \subseteq DOMAIN vols'
<1> DEFINE th == threads[t]
           s == th.todo[1]
<1>1. Busy(t) /\ s.k \in Keys /\ s.x \in Keys /\ s \in Steps
  BY RunCommon, NextStep
<1>2. vols = [k \in DOMAIN vols |-> vols[k]] /\ DOMAIN vols \subseteq Keys /\ torn \subseteq DOMAIN vols
  BY DEF TypeInv
<1>3. CASE s.do \in {"create", "copy"}
  BY <1>1, <1>2, <1>3, RunMake, Zenon
<1>4. CASE s.do = "destroy"
  BY <1>1, <1>2, <1>4, RunDestroy, Zenon
<1>5. CASE s.do = "move"
  <2>1. th.kind = "rename"
    BY <1>1, <1>5, NextStep, ThreadFacts DEF Kinds7
  <2>2. s.k \in ContainerKeys /\ s.x \in ContainerKeys
    BY <1>1, <1>5, <2>1, NextStep
  <2> QED
    BY <1>5, <2>2, RunMove
<1>6. CASE s.do \in {"insert", "remove", "renamerow", "setbase", "update"}
  BY <1>2, <1>6, RunRows
<1>7. CASE s.do \in {"check", "findIdmap", "restore"} \cup Calls
  BY <1>2, <1>7, RunOther
<1>8. s.do \in Dos
  BY <1>1, Types
<1> QED
  BY <1>3, <1>4, <1>5, <1>6, <1>7, <1>8 DEF Dos

(* The marks after a step.                                                   *)
LEMMA RunMarks ==
  ASSUME TypeInv, NEW t \in Threads, Run(t)
  PROVE  seen \subseteq seen' /\ seen' \subseteq seen \cup {"cut", "restored"}
<1> DEFINE s == threads[t].todo[1]
<1>1. seen' = SeenAfter(s, t)
  BY RunCommon
<1>2. SeenAfter(s, t) \in {seen, seen \cup {"cut"}, seen \cup {"restored"}}
  <2>1. CASE s.do = "remove"
    BY <2>1 DEF SeenAfter
  <2>2. CASE s.do = "update"
    BY <2>2 DEF SeenAfter
  <2>3. CASE s.do \notin {"remove", "update"}
    BY <2>3 DEF SeenAfter
  <2> QED
    BY <2>1, <2>2, <2>3
<1> QED
  BY <1>1, <1>2

(* An idle thread.                                                           *)
LEMMA IdleFacts ==
  /\ Idle \in Records /\ PlanInv(Idle) /\ Idle.phase = "idle" /\ Idle.todo = <<>> /\ Idle.kind = "none"
  /\ Idle.inserted = FALSE /\ Idle.failed = FALSE /\ Idle.fault = FALSE /\ Idle.k = <<>>
  /\ DOMAIN Idle.todo = {}
<1>1. /\ Idle.phase = "idle" /\ Idle.todo = <<>> /\ Idle.kind = "none"
      /\ Idle.inserted = FALSE /\ Idle.failed = FALSE /\ Idle.fault = FALSE /\ Idle.k = <<>>
  BY DEF Idle
<1>2. DOMAIN Idle.todo = {}
  BY <1>1
<1>3. Idle \in Records
  BY EmptySeq DEF Idle, Records, Kinds7, Creates
<1>4. Making(Idle)
  BY <1>1, <1>2 DEF Making
<1>5. PlanInv(Idle)
  BY <1>1, <1>4, PlanIs DEF Creates
<1> QED
  BY <1>1, <1>2, <1>3, <1>5

(* A thread that a step of another does not touch.                           *)
LEMMA SameThread ==
  ASSUME TypeInv, Plans, served' \in Nat, served' >= served, NEW u \in Threads, threads'[u] = threads[u]
  PROVE  ThreadType(threads[u])' /\ PlanInv(threads[u])'
<1>1. ThreadType(threads[u]) /\ served \in Nat /\ threads[u].id \in Nat /\ PlanInv(threads[u])
  BY ThreadFacts DEF TypeInv, Plans
<1>2. threads[u].id \in 1..served => threads[u].id \in 1..served'
  BY <1>1
<1>3. ThreadType(threads[u])'
  BY <1>1, <1>2 DEF ThreadType
<1>4. PlanInv(threads[u])'
  BY <1>1 DEF PlanInv, Making, Undoing, Deleting, RenamingPlan, Restoring, Dropping
<1> QED
  BY <1>3, <1>4

\* Types and plans, when a step works.
LEMMA RunTyped ==
  ASSUME TypeInv, Plans, HostAssumption, NEW t \in Threads, Run(t)
  PROVE  TypeInv' /\ Plans'
<1> DEFINE old == threads[t]
           s == old.todo[1]
<1>1. /\ Busy(t) /\ served' = served /\ harm' = harm
  BY RunCommon
<1>2. /\ After(s, Tail(old.todo)) \in Seq(Steps)
      /\ \A u \in Threads : u # t => threads'[u] = threads[u]
      /\ threads' \in [Threads -> Records]
      /\ RanOn(old, threads'[t], s, After(s, Tail(old.todo)))
      /\ PlanInv(threads'[t])
  BY RunPlan
<1>3. served \in Nat /\ served' \in Nat /\ served' >= served /\ harm \in 0..MaxHarm /\ seen \subseteq Marks
  BY <1>1 DEF TypeInv
<1>4. ThreadType(threads[t])'
  <2>1. ThreadType(old) /\ old.phase = "busy" /\ old.k \in Keys /\ old.id \in 1..served
    BY <1>1, ThreadFacts, BusyFacts DEF Busy
  <2>2. PICK new, todo : new = threads'[t] /\ todo = After(s, Tail(old.todo))
    OBVIOUS
  <2>3. RanOn(old, new, s, todo)
    BY <1>2, <2>2
  <2>4. /\ new.kind = old.kind /\ new.k = old.k /\ new.id = old.id /\ new.todo = todo /\ new.failed = old.failed
        /\ new.phase = IF todo # <<>> THEN "busy" ELSE IF old.failed THEN "error" ELSE "ok"
    BY <2>3 DEF RanOn
  <2>5. /\ new.phase \in {"busy"} <=> new.todo # <<>>
        /\ new.phase # "idle"
        /\ new.phase = "ok" => ~new.failed
        /\ new.phase = "error" => new.failed
    BY <2>4
  <2>6. /\ new.kind = "snapshot" => new.k \in SnapshotKeys
        /\ new.kind \notin {"snapshot", "delete"} => new.k \in ContainerKeys
    BY <2>1, <2>4 DEF ThreadType
  <2> QED
    BY <1>1, <2>1, <2>2, <2>4, <2>5, <2>6 DEF ThreadType
<1>5. \A u \in Threads : ThreadType(threads[u])' /\ PlanInv(threads[u])'
  <2>1. PlanInv(threads[t])'
    BY <1>2 DEF PlanInv, Making, Undoing, Deleting, RenamingPlan, Restoring, Dropping
  <2> QED
    BY <1>2, <1>3, <1>4, <2>1, SameThread, SMTT(60)
<1>6. seen' \subseteq Marks
  BY <1>3, RunMarks, Zenon DEF Marks
<1>7. TypeInv'
  BY <1>1, <1>2, <1>3, <1>5, <1>6, RunRowTypes, RunVolumeTypes DEF TypeInv
<1> QED
  BY <1>5, <1>7 DEF Plans

\* When it fails.
LEMMA FailTyped ==
  ASSUME TypeInv, Plans, HostAssumption, NEW t \in Threads, Refuse(t) \/ Fault(t)
  PROVE  TypeInv' /\ Plans'
<1> DEFINE old == threads[t]
           s == old.todo[1]
<1>1. /\ Busy(t) /\ Fails(t) /\ s.do \notin Calls
      /\ rows' = rows /\ vols' = vols /\ served' = served
      /\ torn' \subseteq DOMAIN vols
      /\ seen' \subseteq seen \cup {"stuck"}
      /\ harm' \in 0..MaxHarm
  BY FailEffects
<1>2. /\ \A u \in Threads : u # t => threads'[u] = threads[u]
      /\ threads' \in [Threads -> Records]
      /\ FailedOn(old, threads'[t], s, threads'[t].todo)
      /\ PlanInv(threads'[t])
  BY <1>1, FailPlan
<1>3. served \in Nat /\ served' \in Nat /\ served' >= served /\ seen \subseteq Marks
  BY <1>1 DEF TypeInv
<1>4. ThreadType(threads[t])'
  <2>1. ThreadType(old) /\ old.phase = "busy" /\ old.k \in Keys /\ old.id \in 1..served
    BY <1>1, ThreadFacts, BusyFacts DEF Busy
  <2>2. PICK new : new = threads'[t]
    OBVIOUS
  <2>3. FailedOn(old, new, s, new.todo)
    BY <1>2, <2>2
  <2>4. /\ new.kind = old.kind /\ new.k = old.k /\ new.id = old.id
        /\ new.phase = IF new.todo # <<>> THEN "busy" ELSE IF new.failed THEN "error" ELSE "ok"
    BY <2>3 DEF FailedOn
  <2>5. /\ new.phase \in {"busy"} <=> new.todo # <<>>
        /\ new.phase # "idle"
        /\ new.phase = "ok" => ~new.failed
        /\ new.phase = "error" => new.failed
    BY <2>4
  <2>6. /\ new.kind = "snapshot" => new.k \in SnapshotKeys
        /\ new.kind \notin {"snapshot", "delete"} => new.k \in ContainerKeys
    BY <2>1, <2>4 DEF ThreadType
  <2> QED
    BY <1>1, <2>1, <2>2, <2>4, <2>5, <2>6 DEF ThreadType
<1>5. \A u \in Threads : ThreadType(threads[u])' /\ PlanInv(threads[u])'
  <2>1. PlanInv(threads[t])'
    BY <1>2 DEF PlanInv, Making, Undoing, Deleting, RenamingPlan, Restoring, Dropping
  <2> QED
    BY <1>2, <1>3, <1>4, <2>1, SameThread, SMTT(60)
<1>6. seen' \subseteq Marks
  BY <1>1, <1>3 DEF Marks
<1>7. TypeInv'
  BY <1>1, <1>2, <1>3, <1>5, <1>6 DEF TypeInv
<1> QED
  BY <1>5, <1>7 DEF Plans

\* When a request begins.
LEMMA RequestTyped ==
  ASSUME TypeInv, Plans, HostAssumption, NEW t \in Threads, Request(t)
  PROVE  TypeInv' /\ Plans'
<1>1. Begun(t, threads'[t]) /\ Asked(threads'[t])
  BY RequestFacts
<1>2. PICK new : new = threads'[t]
  OBVIOUS
<1>3. /\ served' = served + 1 /\ \A u \in Threads : u # t => threads'[u] = threads[u]
      /\ threads' \in [Threads -> Records]
      /\ new.phase = "busy" /\ new.id = served + 1 /\ new.k \in Keys /\ new.failed = FALSE
      /\ rows' = rows /\ vols' = vols /\ harm' = harm /\ torn' = torn
      /\ seen' \subseteq seen \cup {"overlap", "cut"}
  BY <1>1, <1>2 DEF Begun
<1>4. /\ new.todo # <<>> /\ PlanInv(new)
      /\ new.kind \in {"rename", "restore"} => new.k \in ContainerKeys
      /\ new.kind = "snapshot" => new.k \in SnapshotKeys
      /\ new.kind \in Creates \ {"snapshot"} => new.k \in ContainerKeys
  BY <1>1, <1>2 DEF Asked
<1>5. served \in Nat /\ served' \in Nat /\ served' >= served /\ seen \subseteq Marks
  BY <1>3 DEF TypeInv
<1>6. new.kind \in Creates \cup {"delete", "rename", "restore"}
  BY <1>2, <1>3 DEF Records, Kinds7
<1>7. ThreadType(threads[t])'
  <2>1. new.kind \notin {"snapshot", "delete"} => new.k \in ContainerKeys
    BY <1>4, <1>6
  <2>2. new.id \in 1..served'
    BY <1>3, <1>5
  <2> QED
    BY <1>2, <1>3, <1>4, <2>1, <2>2 DEF ThreadType
<1>8. \A u \in Threads : ThreadType(threads[u])' /\ PlanInv(threads[u])'
  <2>1. PlanInv(threads[t])'
    BY <1>2, <1>4 DEF PlanInv, Making, Undoing, Deleting, RenamingPlan, Restoring, Dropping
  <2> QED
    BY <1>3, <1>5, <1>7, <2>1, SameThread, SMTT(60)
<1>9. seen' \subseteq Marks
  BY <1>3, <1>5 DEF Marks
<1>10. \A k \in DOMAIN rows' : rows'[k] \in RowSet /\ rows'[k].id \in 1..served'
  <2>1. \A k \in DOMAIN rows : rows[k] \in RowSet /\ rows[k].id \in 1..served
    BY DEF TypeInv
  <2> QED
    BY <1>3, <1>5, <2>1
<1>11. TypeInv'
  BY <1>3, <1>5, <1>8, <1>9, <1>10 DEF TypeInv
<1> QED
  BY <1>8, <1>11 DEF Plans

\* When it returns.
LEMMA ReturnTyped ==
  ASSUME TypeInv, Plans, NEW t \in Threads, Return(t)
  PROVE  TypeInv' /\ Plans'
<1>1. /\ rows' = rows /\ vols' = vols /\ served' = served /\ harm' = harm /\ seen' = seen /\ torn' = torn
      /\ threads'[t] = Idle /\ \A u \in Threads : u # t => threads'[u] = threads[u]
      /\ threads' \in [Threads -> Records]
  BY ReturnEffects
<1>2. served' \in Nat /\ served' >= served
  BY <1>1 DEF TypeInv
<1>3. ThreadType(threads[t])' /\ PlanInv(threads[t])'
  <2>1. PlanInv(threads[t])'
    BY <1>1, IdleFacts DEF PlanInv, Making, Undoing, Deleting, RenamingPlan, Restoring, Dropping
  <2>2. ThreadType(threads[t])'
    BY <1>1, IdleFacts DEF ThreadType
  <2> QED
    BY <2>1, <2>2
<1>4. \A u \in Threads : ThreadType(threads[u])' /\ PlanInv(threads[u])'
  BY <1>1, <1>2, <1>3, SameThread
<1>5. TypeInv'
  BY <1>1, <1>4 DEF TypeInv
<1> QED
  BY <1>4, <1>5 DEF Plans

\* When the daemon crashes.
LEMMA CrashTyped ==
  ASSUME TypeInv, Plans, Crash
  PROVE  TypeInv' /\ Plans'
<1>1. /\ rows' = rows /\ vols' = vols /\ served' = served
      /\ \A t \in Threads : threads'[t] = Idle
      /\ threads' \in [Threads -> Records]
      /\ torn' \subseteq DOMAIN vols
      /\ seen' = seen \cup {"crash"} /\ harm' \in 0..MaxHarm
  BY CrashEffects
<1>2. ASSUME NEW t \in Threads
      PROVE  ThreadType(threads[t])' /\ PlanInv(threads[t])'
  <2>0. threads'[t] = Idle
    BY <1>1
  <2>1. PlanInv(threads[t])'
    BY <2>0, IdleFacts DEF PlanInv, Making, Undoing, Deleting, RenamingPlan, Restoring, Dropping
  <2>2. ThreadType(threads[t])'
    BY <2>0, IdleFacts DEF ThreadType
  <2> QED
    BY <2>1, <2>2
<1>3. seen' \subseteq Marks
  BY <1>1 DEF TypeInv, Marks
<1>4. TypeInv'
  BY <1>1, <1>2, <1>3 DEF TypeInv
<1> QED
  BY <1>2, <1>4 DEF Plans

(* Whatever happens.                                                         *)
LEMMA NextTyped ==
  ASSUME TypeInv, Plans, HostAssumption, [Next]_vars
  PROVE  TypeInv' /\ Plans'
<1>1. CASE UNCHANGED vars
  <2>1. TypeInv'
    BY <1>1, SMTT(60) DEF vars, TypeInv, ThreadType
  <2>2. Plans'
    BY <1>1 DEF vars, Plans, PlanInv, Making, Undoing, Deleting, RenamingPlan, Restoring, Dropping
  <2> QED
    BY <2>1, <2>2
<1>2. CASE Crash
  BY <1>2, CrashTyped
<1>3. ASSUME NEW t \in Threads, Request(t) \/ Run(t) \/ Refuse(t) \/ Fault(t) \/ Return(t)
      PROVE  TypeInv' /\ Plans'
  BY <1>3, RequestTyped, RunTyped, FailTyped, ReturnTyped
<1> QED
  BY <1>1, <1>2, <1>3 DEF Next

-----------------------------------------------------------------------------
(* What is still to be done after a step.                                    *)

(* ... when the first n steps are done with.                                 *)
LEMMA LeftFacts ==
  ASSUME NEW todo \in Seq(Steps), NEW rest \in Seq(Steps), NEW n \in Nat, Suffix(rest, todo, n)
  PROVE  /\ \A do, k : Pending(rest, do, k) => Pending(todo, do, k)
         /\ \A do : Holds(rest, do) => Holds(todo, do)
         /\ \A do, k : Pending(todo, do, k) =>
              Pending(rest, do, k) \/ \E j \in DOMAIN todo : j <= n /\ todo[j].do = do /\ todo[j].k = k
         /\ \A do : Holds(todo, do) =>
              Holds(rest, do) \/ \E j \in DOMAIN todo : j <= n /\ todo[j].do = do
         /\ \A i \in DOMAIN rest : Bare(rest, i) =>
              \/ \E j \in DOMAIN todo : Bare(todo, j) /\ todo[j] = rest[i]
              \/ n >= 1 /\ n \in DOMAIN todo /\ todo[n].do = "destroy" /\ n + 1 \in DOMAIN todo
                 /\ todo[n + 1] = rest[i]
<1>1. /\ \A i \in DOMAIN rest : i + n \in DOMAIN todo /\ rest[i] = todo[i + n]
      /\ \A i \in DOMAIN todo : i > n => i - n \in DOMAIN rest /\ rest[i - n] = todo[i]
  BY Zenon DEF Suffix
<1>2. PICK L \in Nat, M \in Nat : DOMAIN rest = 1..L /\ DOMAIN todo = 1..M
  BY Zenon DEF Suffix
<1>3. \A do, k : Pending(rest, do, k) => Pending(todo, do, k)
  BY <1>1 DEF Pending
<1>4. \A do : Holds(rest, do) => Holds(todo, do)
  BY <1>1 DEF Holds
<1>5. \A i \in DOMAIN todo : ~(i > n) => i <= n
  BY <1>2
<1>6. ASSUME NEW do, NEW k, Pending(todo, do, k)
      PROVE  Pending(rest, do, k) \/ \E j \in DOMAIN todo : j <= n /\ todo[j].do = do /\ todo[j].k = k
  BY <1>1, <1>5, <1>6 DEF Pending
<1>7. ASSUME NEW do, Holds(todo, do)
      PROVE  Holds(rest, do) \/ \E j \in DOMAIN todo : j <= n /\ todo[j].do = do
  BY <1>1, <1>5, <1>7 DEF Holds
<1>8. ASSUME NEW i \in DOMAIN rest, Bare(rest, i)
      PROVE  \/ \E j \in DOMAIN todo : Bare(todo, j) /\ todo[j] = rest[i]
             \/ n >= 1 /\ n \in DOMAIN todo /\ todo[n].do = "destroy" /\ n + 1 \in DOMAIN todo
                /\ todo[n + 1] = rest[i]
  <2>1. PICK j \in DOMAIN todo : j = i + n /\ rest[i] = todo[j]
    BY <1>1
  <2>2. todo[j].do = "remove" /\ ~(i > 1 /\ rest[i - 1].do = "destroy")
    BY <1>8, <2>1 DEF Bare
  <2>3. CASE i > 1
    <3>1. i - 1 \in DOMAIN rest /\ (i - 1) + n = j - 1
      BY <1>2, <2>1, <2>3
    <3>2. rest[i - 1] = todo[j - 1]
      BY <1>1, <3>1
    <3> QED
      BY <2>1, <2>2, <2>3, <3>2, Zenon DEF Bare
  <2>4. CASE i = 1 /\ n = 0
    BY <2>1, <2>2, <2>4 DEF Bare
  <2>5. CASE i = 1 /\ n >= 1
    <3>1. n \in DOMAIN todo /\ j - 1 = n /\ n + 1 = j
      BY <1>2, <2>1, <2>5
    <3>2. CASE todo[n].do = "destroy"
      BY <2>1, <2>5, <3>1, <3>2
    <3>3. CASE todo[n].do # "destroy"
      BY <2>1, <2>2, <3>1, <3>3, Zenon DEF Bare
    <3> QED
      BY <3>2, <3>3
  <2> QED
    BY <1>2, <2>3, <2>4, <2>5
<1> QED
  BY <1>3, <1>4, <1>6, <1>7, <1>8

(* ... when its first step is done with.                                     *)
LEMMA TailFacts ==
  ASSUME NEW todo \in Seq(Steps), todo # <<>>
  PROVE  LET s == todo[1]
             rest == Tail(todo) IN
         /\ rest \in Seq(Steps)
         /\ \A do, k : Pending(rest, do, k) => Pending(todo, do, k)
         /\ \A do : Holds(rest, do) => Holds(todo, do)
         /\ \A do, k : Pending(todo, do, k) => Pending(rest, do, k) \/ (s.do = do /\ s.k = k)
         /\ \A do : Holds(todo, do) => Holds(rest, do) \/ s.do = do
         /\ \A i \in DOMAIN rest : Bare(rest, i) =>
              \/ \E j \in DOMAIN todo : Bare(todo, j) /\ todo[j] = rest[i]
              \/ s.do = "destroy" /\ 2 \in DOMAIN todo /\ todo[2] = rest[i]
<1>1. Suffix(Tail(todo), todo, 1) /\ Tail(todo) \in Seq(Steps)
  BY TailSuffix
<1>2. PICK n \in Nat : n = 1
  OBVIOUS
<1>3. PICK rest : rest = Tail(todo)
  BY Zenon
<1>4. Suffix(rest, todo, n) /\ rest \in Seq(Steps)
  BY <1>1, <1>2, <1>3
<1>5. DOMAIN todo = 1..Len(todo)
  OBVIOUS
<1>6. \A j \in DOMAIN todo : j <= n => j = 1
  BY <1>2, <1>5
<1>7. n + 1 = 2
  BY <1>2
<1>8. /\ \A do, k : Pending(rest, do, k) => Pending(todo, do, k)
      /\ \A do : Holds(rest, do) => Holds(todo, do)
  BY <1>4, LeftFacts
<1>9. /\ \A do, k : Pending(todo, do, k) =>
              Pending(rest, do, k) \/ \E j \in DOMAIN todo : j <= n /\ todo[j].do = do /\ todo[j].k = k
      /\ \A do : Holds(todo, do) =>
              Holds(rest, do) \/ \E j \in DOMAIN todo : j <= n /\ todo[j].do = do
  BY <1>4, LeftFacts
<1>10. \A i \in DOMAIN rest : Bare(rest, i) =>
              \/ \E j \in DOMAIN todo : Bare(todo, j) /\ todo[j] = rest[i]
              \/ n >= 1 /\ n \in DOMAIN todo /\ todo[n].do = "destroy" /\ n + 1 \in DOMAIN todo
                 /\ todo[n + 1] = rest[i]
  BY <1>4, LeftFacts
<1>11. \A do, k : Pending(todo, do, k) => Pending(rest, do, k) \/ (todo[1].do = do /\ todo[1].k = k)
  BY <1>6, <1>9
<1>12. \A do : Holds(todo, do) => Holds(rest, do) \/ todo[1].do = do
  BY <1>6, <1>9
<1>13. \A i \in DOMAIN rest : Bare(rest, i) =>
              \/ \E j \in DOMAIN todo : Bare(todo, j) /\ todo[j] = rest[i]
              \/ todo[1].do = "destroy" /\ 2 \in DOMAIN todo /\ todo[2] = rest[i]
  BY <1>2, <1>7, <1>10
<1> QED
  BY <1>3, <1>4, <1>8, <1>11, <1>12, <1>13

(* A plan that takes away: the next step works.                              *)
LEMMA DropRun ==
  ASSUME NEW todo \in Seq(Steps), todo # <<>>, NEW c, Drops(todo, c), todo[1].do \notin Calls
  PROVE  LET s == todo[1]
             rest == Tail(todo) IN
         /\ \A i \in DOMAIN rest : Bare(rest, i) =>
              \/ \E j \in DOMAIN todo : Bare(todo, j) /\ todo[j].k = rest[i].k
              \/ s.do = "destroy" /\ s.k = rest[i].k
         /\ s.do = "destroy" => rest # <<>>
<1> DEFINE s == todo[1]
<1>1. 1 \in DOMAIN todo /\ (Tail(todo) = <<>> <=> Len(todo) = 1)
  BY TailSuffix
<1>2. s.do = "destroy" => 2 \in DOMAIN todo /\ todo[2].k = s.k
  <2>1. s.do = "destroy" => 1 + 1 \in DOMAIN todo /\ todo[1 + 1].k = s.k
    BY <1>1 DEF Drops
  <2> QED
    BY <2>1
<1>3. \A i \in DOMAIN Tail(todo) : Bare(Tail(todo), i) =>
              \/ \E j \in DOMAIN todo : Bare(todo, j) /\ todo[j] = Tail(todo)[i]
              \/ s.do = "destroy" /\ 2 \in DOMAIN todo /\ todo[2] = Tail(todo)[i]
  BY TailFacts
<1>4. DOMAIN todo = 1..Len(todo)
  OBVIOUS
<1>5. s.do = "destroy" => Tail(todo) # <<>>
  BY <1>1, <1>2, <1>4
<1>6. ASSUME NEW i \in DOMAIN Tail(todo), Bare(Tail(todo), i)
      PROVE  \/ \E j \in DOMAIN todo : Bare(todo, j) /\ todo[j].k = Tail(todo)[i].k
             \/ s.do = "destroy" /\ s.k = Tail(todo)[i].k
  BY <1>2, <1>3, <1>6
<1> QED
  BY <1>5, <1>6

(* ... or fails, and is left at that.                                        *)
LEMMA DropSkip ==
  ASSUME NEW todo \in Seq(Steps), todo # <<>>, NEW rest \in Seq(Steps), NEW c, Drops(todo, c),
         NEW n \in Nat, Suffix(rest, todo, n),
         (todo[1].do = "destroy" /\ n = 2) \/ (todo[1].do = "remove" /\ n = 1)
  PROVE  LET s == todo[1] IN
         /\ \A do, k : Pending(rest, do, k) => Pending(todo, do, k)
         /\ \A do : Holds(rest, do) => Holds(todo, do)
         /\ \A do, k : Pending(todo, do, k) => Pending(rest, do, k) \/ (s.k = k /\ do \in {s.do, "remove"})
         /\ Holds(todo, "Delete") => Holds(rest, "Delete")
         /\ \A i \in DOMAIN rest : Bare(rest, i) => \E j \in DOMAIN todo : Bare(todo, j) /\ todo[j].k = rest[i].k
<1> DEFINE s == todo[1]
<1>1. 1 \in DOMAIN todo
  BY TailSuffix
<1>2. s.do = "destroy" => 2 \in DOMAIN todo /\ todo[2].k = s.k /\ todo[2].do = "remove"
  <2>1. s.do = "destroy" => 1 + 1 \in DOMAIN todo /\ todo[1 + 1].k = s.k /\ todo[1 + 1].do = "remove"
    BY <1>1 DEF Drops
  <2> QED
    BY <2>1
<1>3. DOMAIN todo = 1..Len(todo)
  OBVIOUS
<1>4. /\ \A do, k : Pending(rest, do, k) => Pending(todo, do, k)
      /\ \A do : Holds(rest, do) => Holds(todo, do)
      /\ \A do, k : Pending(todo, do, k) =>
           Pending(rest, do, k) \/ \E j \in DOMAIN todo : j <= n /\ todo[j].do = do /\ todo[j].k = k
      /\ \A do : Holds(todo, do) =>
           Holds(rest, do) \/ \E j \in DOMAIN todo : j <= n /\ todo[j].do = do
  BY LeftFacts
<1>5. \A i \in DOMAIN rest : Bare(rest, i) =>
         \/ \E j \in DOMAIN todo : Bare(todo, j) /\ todo[j] = rest[i]
         \/ n >= 1 /\ n \in DOMAIN todo /\ todo[n].do = "destroy" /\ n + 1 \in DOMAIN todo
            /\ todo[n + 1] = rest[i]
  BY LeftFacts
<1>6. \A j \in DOMAIN todo : j <= n =>
        /\ todo[j].k = s.k /\ todo[j].do \in {s.do, "remove"} /\ todo[j].do \in {"destroy", "remove"}
        /\ j = n => todo[j].do # "destroy"
  <2>1. CASE s.do = "destroy" /\ n = 2
    <3>1. \A j \in DOMAIN todo : j <= 2 => j = 1 \/ j = 2
      BY <1>3
    <3> QED
      BY <1>2, <2>1, <3>1
  <2>2. CASE s.do = "remove" /\ n = 1
    <3>1. \A j \in DOMAIN todo : j <= 1 => j = 1
      BY <1>3
    <3> QED
      BY <2>2, <3>1
  <2> QED
    BY <2>1, <2>2
<1>7. ASSUME NEW do, NEW k, Pending(todo, do, k)
      PROVE  Pending(rest, do, k) \/ (s.k = k /\ do \in {s.do, "remove"})
  BY <1>4, <1>6, <1>7
<1>8. Holds(todo, "Delete") => Holds(rest, "Delete")
  BY <1>4, <1>6
<1>9. ASSUME NEW i \in DOMAIN rest, Bare(rest, i)
      PROVE  \E j \in DOMAIN todo : Bare(todo, j) /\ todo[j].k = rest[i].k
  <2>1. ~(n \in DOMAIN todo /\ todo[n].do = "destroy")
    BY <1>6
  <2> QED
    BY <1>5, <1>9, <2>1
<1> QED
  BY <1>4, <1>7, <1>8, <1>9

(* ... or is a function with steps of its own.                               *)
LEMMA DropCall ==
  ASSUME TypeInv, NEW todo \in Seq(Steps), todo # <<>>, NEW c \in Keys, Drops(todo, c), todo[1].do \in Calls
  PROVE  LET s == todo[1]
             more == PlanOf(s) \o Tail(todo) IN
         /\ more \in Seq(Steps)
         /\ \A i \in DOMAIN more : Bare(more, i) => \E j \in DOMAIN todo : Bare(todo, j) /\ todo[j].k = more[i].k
         /\ \A do, k : Pending(todo, do, k) => Pending(more, do, k) \/ (s.do = do /\ s.k = k)
         /\ \A do : Holds(todo, do) => Holds(more, do) \/ s.do = do
         /\ \A do, k : Pending(more, do, k) => Pending(todo, do, k) \/ s.do = "Delete" \/ k \in SnapshotsOf(c)
         /\ Holds(more, "Delete") => Holds(todo, "Delete")
         /\ s.k = c
         /\ s.do = "Delete" => Pending(more, "destroy", c) /\ Pending(more, "remove", c)
         /\ s.do = "Delete" => \A do, k : Pending(more, do, k) => Pending(todo, do, k) \/ k = c
         /\ s.do = "containerDeleteSnapshots" =>
              \A x \in SnapshotsOf(c) : Pending(more, "destroy", x) /\ Pending(more, "remove", x)
<1> DEFINE s == todo[1]
<1>1. 1 \in DOMAIN todo /\ Tail(todo) \in Seq(Steps)
  BY TailSuffix
<1>2. s.do \in {"Delete", "containerDeleteSnapshots"} /\ s.k = c
  BY <1>1 DEF Drops, Calls
<1>3. PICK p : p = PlanOf(s)
  OBVIOUS
<1>4. /\ p \in Seq(Steps)
      /\ \A i \in DOMAIN p :
           /\ p[i].do \in {"containerDeleteSnapshots", "destroy", "remove"}
           /\ p[i].do = "remove" => i > 1 /\ p[i - 1].do = "destroy"
           /\ s.do = "Delete" => p[i].k = c
           /\ s.do = "containerDeleteSnapshots" => p[i].k \in SnapshotsOf(c)
      /\ s.do = "Delete" => Pending(p, "destroy", c) /\ Pending(p, "remove", c)
      /\ s.do = "containerDeleteSnapshots" =>
           \A x \in SnapshotsOf(c) : Pending(p, "destroy", x) /\ Pending(p, "remove", x)
  <2>1. CASE s.do = "Delete"
    <3>1. p = Quietly(DeletePlan(c))
      BY <1>2, <1>3, <2>1 DEF PlanOf
    <3> DEFINE q == Quietly(DeletePlan(c))
    <3>2. /\ q \in Seq(Steps)
          /\ \A i \in DOMAIN q :
               /\ q[i].do \in {"containerDeleteSnapshots", "destroy", "remove"} /\ q[i].k = c
               /\ q[i].must = FALSE /\ q[i].undo = <<>>
               /\ q[i].do = "destroy" => /\ i + 1 \in DOMAIN q /\ q[i].skip = 1
                                         /\ q[i + 1].do = "remove" /\ q[i + 1].k = q[i].k
               /\ q[i].do = "remove" => q[i].skip = 0 /\ i > 1 /\ q[i - 1].do = "destroy"
          /\ Pending(q, "destroy", c) /\ Pending(q, "remove", c)
      BY QuietDelete, ZenonT(60)
    <3> QED
      BY <2>1, <3>1, <3>2
  <2>2. CASE s.do = "containerDeleteSnapshots"
    <3>1. p = containerDeleteSnapshots(c)
      BY <1>2, <1>3, <2>2 DEF PlanOf
    <3>2. LET q == containerDeleteSnapshots(c) IN
          /\ q \in Seq(Steps)
          /\ \A i \in DOMAIN q :
               /\ q[i].do \in {"destroy", "remove"} /\ q[i].k \in SnapshotsOf(c)
               /\ q[i].do = "remove" => i > 1 /\ q[i - 1].do = "destroy"
          /\ \A x \in SnapshotsOf(c) : Pending(q, "destroy", x) /\ Pending(q, "remove", x)
      BY SnapDeletes, ZenonT(60)
    <3> QED
      BY <2>2, <3>1, <3>2
  <2> QED
    BY <1>2, <2>1, <2>2
<1>5. PICK q : q = Tail(todo)
  BY Zenon
<1>6. q \in Seq(Steps)
  BY <1>1, <1>5
<1>7. PICK more : more = p \o q
  BY Zenon
<1>8. /\ more \in Seq(Steps) /\ Len(p) \in Nat /\ DOMAIN more = 1..Len(more) /\ DOMAIN p = 1..Len(p)
      /\ DOMAIN q = 1..Len(q) /\ Len(q) \in Nat /\ Len(more) = Len(p) + Len(q)
      /\ \A i \in DOMAIN more : more[i] = IF i <= Len(p) THEN p[i] ELSE q[i - Len(p)]
      /\ \A i \in DOMAIN p : i \in DOMAIN more /\ more[i] = p[i]
      /\ \A i \in DOMAIN q : i + Len(p) \in DOMAIN more /\ more[i + Len(p)] = q[i]
  BY <1>4, <1>6, <1>7, Joined
<1>9. /\ \A do, k : Pending(p, do, k) => Pending(more, do, k)
      /\ \A do, k : Pending(q, do, k) => Pending(more, do, k)
      /\ \A do : Holds(q, do) => Holds(more, do)
  BY <1>8 DEF Pending, Holds
<1>10. \A i \in DOMAIN more : \/ i \in DOMAIN p /\ more[i] = p[i]
                              \/ i - Len(p) \in DOMAIN q /\ more[i] = q[i - Len(p)]
  BY <1>8
<1>11. /\ \A do, k : Pending(more, do, k) => Pending(p, do, k) \/ Pending(q, do, k)
       /\ \A do : Holds(more, do) => Holds(p, do) \/ Holds(q, do)
  BY <1>10 DEF Pending, Holds
<1>12. /\ \A do, k : Pending(q, do, k) => Pending(todo, do, k)
       /\ \A do : Holds(q, do) => Holds(todo, do)
       /\ \A do, k : Pending(todo, do, k) => Pending(q, do, k) \/ (s.do = do /\ s.k = k)
       /\ \A do : Holds(todo, do) => Holds(q, do) \/ s.do = do
       /\ \A i \in DOMAIN q : Bare(q, i) =>
              \/ \E j \in DOMAIN todo : Bare(todo, j) /\ todo[j] = q[i]
              \/ s.do = "destroy" /\ 2 \in DOMAIN todo /\ todo[2] = q[i]
  BY <1>5, TailFacts
<1>13. ASSUME NEW i \in DOMAIN more, Bare(more, i)
       PROVE  \E j \in DOMAIN todo : Bare(todo, j) /\ todo[j].k = more[i].k
  <2>1. more[i].do = "remove" /\ ~(i > 1 /\ more[i - 1].do = "destroy")
    BY <1>13 DEF Bare
  <2>2. i \notin DOMAIN p
    <3> SUFFICES ASSUME i \in DOMAIN p
                 PROVE  FALSE
      OBVIOUS
    <3>1. p[i].do = "remove"
      BY <1>8, <2>1
    <3>2. i > 1 /\ p[i - 1].do = "destroy"
      BY <1>4, <3>1
    <3>3. i - 1 \in DOMAIN p
      BY <1>8, <3>2
    <3>4. more[i - 1] = p[i - 1]
      BY <1>8, <3>3
    <3> QED
      BY <2>1, <3>2, <3>4
  <2>3. PICK m \in DOMAIN q : m = i - Len(p) /\ more[i] = q[m]
    BY <1>10, <2>2
  <2>4. Bare(q, m)
    <3>1. CASE m > 1
      <4>1. m - 1 \in DOMAIN q /\ (m - 1) + Len(p) = i - 1 /\ i > 1
        BY <1>8, <2>3, <3>1, SMTT(60)
      <4>2. more[i - 1] = q[m - 1]
        BY <1>8, <4>1
      <4> QED
        BY <2>1, <2>3, <4>1, <4>2 DEF Bare
    <3>2. CASE ~(m > 1)
      BY <2>1, <2>3, <3>2 DEF Bare
    <3> QED
      BY <3>1, <3>2
  <2> QED
    BY <1>2, <1>12, <2>3, <2>4
<1>14. \A do, k : Pending(p, do, k) => k = c \/ k \in SnapshotsOf(c)
  BY <1>2, <1>4 DEF Pending
<1>15. ~Holds(p, "Delete")
  BY <1>4 DEF Holds
<1>16. s.do = "containerDeleteSnapshots" => \A do, k : Pending(p, do, k) => k \in SnapshotsOf(c)
  BY <1>4 DEF Pending
<1>17. s.do = "Delete" => \A do, k : Pending(p, do, k) => k = c
  BY <1>4 DEF Pending
<1>18. /\ \A do, k : Pending(todo, do, k) => Pending(more, do, k) \/ (s.do = do /\ s.k = k)
       /\ \A do : Holds(todo, do) => Holds(more, do) \/ s.do = do
  BY <1>9, <1>12
<1>19. \A do, k : Pending(more, do, k) => Pending(todo, do, k) \/ s.do = "Delete" \/ k \in SnapshotsOf(c)
  BY <1>2, <1>11, <1>12, <1>16
<1>20. Holds(more, "Delete") => Holds(todo, "Delete")
  BY <1>11, <1>12, <1>15
<1>21. /\ s.do = "Delete" => Pending(more, "destroy", c) /\ Pending(more, "remove", c)
       /\ s.do = "containerDeleteSnapshots" =>
            \A x \in SnapshotsOf(c) : Pending(more, "destroy", x) /\ Pending(more, "remove", x)
  BY <1>4, <1>9
<1>22. s.do = "Delete" => \A do, k : Pending(more, do, k) => Pending(todo, do, k) \/ k = c
  BY <1>11, <1>12, <1>17
<1> QED
  BY <1>2, <1>3, <1>5, <1>7, <1>8, <1>13, <1>18, <1>19, <1>20, <1>21, <1>22, ZenonT(60)

-----------------------------------------------------------------------------
(* Requests that do not overlap: what holds of them is kept.                 *)

(* How far a creation is after its next step.                                *)
LEMMA MakingNext ==
  ASSUME NEW th, Making(th), th.todo \in Seq(Steps), th.todo # <<>>
  PROVE  LET s == th.todo[1]
             rest == Tail(th.todo) IN
         /\ Rank(s) < 3 => rest # <<>> /\ Rank(rest[1]) <= 3
         /\ Rank(s) >= 3 => rest = <<>> \/ Rank(rest[1]) = 4
         /\ th.inserted => Rank(s) >= 2
         /\ ~th.inserted => Rank(s) \in {0, 1}
         /\ Rank(s) \in 0..4
<1> DEFINE todo == th.todo
           s == todo[1]
           rest == Tail(todo)
<1>1. /\ rest \in Seq(Steps) /\ Len(todo) \in Nat \ {0} /\ DOMAIN todo = 1..Len(todo)
      /\ \A i \in DOMAIN rest : i + 1 \in DOMAIN todo /\ rest[i] = todo[i + 1]
      /\ rest = <<>> <=> Len(todo) = 1
      /\ DOMAIN rest = 1..Len(rest) /\ Len(rest) = Len(todo) - 1
  BY TailRest
<1>2. /\ \A i, j \in DOMAIN todo :
           i < j => \/ Rank(todo[i]) < Rank(todo[j])
                    \/ Rank(todo[i]) = Rank(todo[j]) /\ Rank(todo[i]) \notin {1, 3}
      /\ \A i \in DOMAIN todo : Rank(todo[i]) < 3 => \E j \in DOMAIN todo : Rank(todo[j]) = 3
      /\ \A i \in DOMAIN todo : th.inserted => Rank(todo[i]) >= 2
      /\ ~th.inserted => \E i \in DOMAIN todo : todo[i].do = "insert"
  BY DEF Making, Ranked, Holds
<1>3. \A i \in DOMAIN todo : Rank(todo[i]) \in 0..4 /\ (todo[i].do = "insert" => Rank(todo[i]) = 1)
  BY RankFacts
<1>4. 1 \in DOMAIN todo
  BY <1>1
<1>5. rest # <<>> => 2 \in DOMAIN todo /\ rest[1] = todo[2]
  <2>1. rest # <<>> => 1 \in DOMAIN rest /\ 1 + 1 = 2
    BY <1>1
  <2> QED
    BY <1>1, <2>1
<1> HIDE DEF s, rest, todo
<1>6. s = todo[1]
  BY DEF s
<1>7. ASSUME Rank(s) < 3
      PROVE  rest # <<>> /\ Rank(rest[1]) <= 3
  <2>1. PICK j \in DOMAIN todo : Rank(todo[j]) = 3
    BY <1>2, <1>4, <1>6, <1>7
  <2>2. j # 1
    BY <1>3, <1>6, <1>7, <2>1
  <2>3. j \in Nat /\ j >= 2
    BY <1>1, <2>2
  <2>4. rest # <<>>
    BY <1>1, <2>3
  <2>5. CASE j = 2
    BY <1>5, <2>1, <2>4, <2>5
  <2>6. CASE j > 2
    <3>1. Rank(todo[2]) < Rank(todo[j]) \/ Rank(todo[2]) = Rank(todo[j])
      BY <1>2, <1>5, <2>4, <2>6
    <3>2. Rank(todo[2]) \in 0..4
      BY <1>3, <1>5, <2>4
    <3> QED
      BY <1>5, <2>1, <2>4, <3>1, <3>2
  <2> QED
    BY <2>3, <2>5, <2>6
<1>8. ASSUME Rank(s) >= 3, rest # <<>>
      PROVE  Rank(rest[1]) = 4
  <2>1. 2 \in DOMAIN todo /\ rest[1] = todo[2]
    BY <1>5, <1>8
  <2>2. \/ Rank(todo[1]) < Rank(todo[2])
        \/ Rank(todo[1]) = Rank(todo[2]) /\ Rank(todo[1]) \notin {1, 3}
    BY <1>2, <1>4, <2>1
  <2>3. Rank(todo[1]) \in 0..4 /\ Rank(todo[2]) \in 0..4
    BY <1>3, <1>4, <2>1
  <2> QED
    BY <1>6, <1>8, <2>1, <2>2, <2>3
<1>9. ASSUME ~th.inserted
      PROVE  Rank(s) \in {0, 1}
  <2>1. PICK i \in DOMAIN todo : todo[i].do = "insert"
    BY <1>2, <1>9
  <2>2. Rank(todo[i]) = 1 /\ i \in Nat /\ i >= 1
    BY <1>1, <1>3, <2>1
  <2>3. CASE i = 1
    BY <1>6, <2>2, <2>3
  <2>4. CASE i > 1
    <3>1. Rank(todo[1]) < Rank(todo[i]) \/ (Rank(todo[1]) = Rank(todo[i]))
      BY <1>2, <1>4, <2>4
    <3>2. Rank(todo[1]) \in 0..4
      BY <1>3, <1>4
    <3> QED
      BY <1>6, <2>2, <3>1, <3>2
  <2> QED
    BY <2>2, <2>3, <2>4
<1>10. Rank(s) \in 0..4 /\ (th.inserted => Rank(s) >= 2)
  BY <1>2, <1>3, <1>4, <1>6
<1> QED
  BY <1>7, <1>8, <1>9, <1>10, Zenon DEF s, rest, todo

(* An idle thread promises nothing.                                          *)
LEMMA IdleSolo ==
  Solo(Idle) /\ Solo(Idle)' /\ ~Past(Idle) /\ \A y : ~AwaitedBy(Idle, y) /\ ~AwaitedBy(Idle, y)'
<1>1. ~Past(Idle) /\ ~Past(Idle)'
  BY IdleFacts DEF Past
<1>2. Created(Idle) /\ Created(Idle)' /\ Undone(Idle) /\ Undone(Idle)'
  BY IdleFacts DEF Created, Undone
<1>3. Loose(Idle) /\ Loose(Idle)'
  BY IdleFacts DEF Loose
<1>4. Deleted(Idle) /\ Deleted(Idle)'
  BY IdleFacts DEF Deleted
<1>5. Moved(Idle) /\ Moved(Idle)'
  BY <1>1 DEF Moved
<1>6. OwnRows(Idle) /\ OwnRows(Idle)'
  BY IdleFacts DEF OwnRows
<1>7. \A y : ~AwaitedBy(Idle, y) /\ ~AwaitedBy(Idle, y)'
  BY <1>1 DEF AwaitedBy
<1> QED
  BY <1>1, <1>2, <1>3, <1>4, <1>5, <1>6, <1>7 DEF Solo

(* Who is busy is alone, and the others stay idle.                           *)
LEMMA AloneFacts ==
  ASSUME TypeInv, Alone, NEW t \in Threads, threads[t].phase # "idle", Others(t)
  PROVE  /\ \A u \in Threads : u # t => threads[u] = Idle /\ threads'[u] = Idle
         /\ Alone'
         /\ \A y : Awaited(y) => AwaitedBy(threads[t], y)
         /\ \A y : AwaitedBy(threads[t], y)' => Awaited(y)'
         /\ \A u \in Threads : u # t => Solo(threads[u])'
<1>1. \A u \in Threads : u # t => threads[u] = Idle /\ threads'[u] = Idle
  BY DEF TypeInv, ThreadType, Alone, Others
<1>2. Alone'
  BY <1>1, IdleFacts DEF Alone
<1>3. \A y : Awaited(y) => AwaitedBy(threads[t], y)
  BY <1>1, IdleSolo DEF Awaited
<1>4. \A y : AwaitedBy(threads[t], y)' => Awaited(y)'
  BY DEF Awaited
<1>5. ASSUME NEW u \in Threads, u # t
      PROVE  Solo(threads[u])'
  <2>1. threads'[u] = Idle
    BY <1>1, <1>5
  <2>2. Solo(Idle)'
    BY IdleSolo
  <2> QED
    BY <2>1, <2>2 DEF Solo, Created, Undone, Loose, Deleted, Moved, OwnRows, Past
<1> QED
  BY <1>1, <1>2, <1>3, <1>4, <1>5

(* When all are idle every volume that is kept has its row.                  *)
LEMMA AllIdle ==
  ASSUME TypeInv, \A u \in Threads : threads[u].phase = "idle"
  PROVE  /\ \A u \in Threads : threads[u] = Idle
         /\ \A y : ~Awaited(y)
<1>1. \A u \in Threads : threads[u] = Idle
  BY DEF TypeInv, ThreadType
<1> QED
  BY <1>1, IdleSolo DEF Awaited

(* A request is taken up.                                                    *)
LEMMA RequestApart ==
  ASSUME TypeInv, HostAssumption, ApartInv, NEW t \in Threads, Request(t)
  PROVE  ApartInv'
<1> DEFINE new == threads'[t]
<1>1. Begun(t, new) /\ Asked(new)
  BY RequestFacts
<1> SUFFICES ASSUME Apart'
             PROVE  Alone' /\ NoOrphan' /\ \A u \in Threads : Solo(threads[u])'
  BY DEF ApartInv
<1> HIDE DEF new
<1>2. /\ \A u \in Threads : threads[u].phase = "idle"
      /\ \A u \in Threads : u # t => threads'[u] = threads[u]
      /\ rows' = rows /\ vols' = vols /\ torn' = torn /\ seen \subseteq seen'
  BY <1>1 DEF Begun, Apart
<1>3. /\ new.failed = FALSE /\ new.inserted = FALSE /\ new.id = served + 1
  BY <1>1 DEF Begun
<1>4. NoOrphan
  BY <1>2 DEF ApartInv, Apart
<1>5. /\ \A u \in Threads : threads[u] = Idle
      /\ \A y : ~Awaited(y)
  BY <1>2, AllIdle
<1>6. \A u \in Threads : u # t => threads'[u] = Idle
  BY <1>2, <1>5
<1>7. Alone'
  BY <1>6, IdleFacts DEF Alone
<1>8. NoOrphan'
  BY <1>2, <1>4, <1>5 DEF NoOrphan, Kept
<1>9. \A u \in Threads : u # t => Solo(threads[u])'
  <2> TAKE u \in Threads
  <2> HAVE u # t
  <2>1. threads'[u] = Idle /\ Solo(Idle)'
    BY <1>6, IdleSolo
  <2> QED
    BY <2>1 DEF Solo, Created, Undone, Loose, Deleted, Moved, OwnRows, Past
<1>10. new = threads'[t]
  BY DEF new
<1>11. Created(threads[t])' /\ Undone(threads[t])'
  BY <1>3, <1>10 DEF Created, Undone
<1>12. Loose(threads[t])'
  BY <1>1, <1>10 DEF Loose, Asked
<1>13. Deleted(threads[t])'
  <2>1. /\ new.todo # <<>>
        /\ new.kind = "delete" => new.k \in DOMAIN rows /\ Pending(new.todo, "destroy", new.k)
    BY <1>1 DEF Asked
  <2> QED
    BY <1>2, <1>3, <1>10, <2>1 DEF Deleted
<1>14. Moved(threads[t])'
  BY <1>1, <1>10 DEF Moved, Past, Asked
<1>15. OwnRows(threads[t])'
  <2>1. \A j \in DOMAIN rows : rows[j].id \in 1..served /\ served \in Nat
    BY DEF TypeInv
  <2>2. \A j \in DOMAIN rows : rows[j].id # served + 1
    BY <2>1
  <2> QED
    BY <1>2, <1>3, <1>10, <2>2 DEF OwnRows
<1>16. Solo(threads[t])'
  BY <1>11, <1>12, <1>13, <1>14, <1>15 DEF Solo
<1> QED
  BY <1>7, <1>8, <1>9, <1>16

(* A request is answered.                                                    *)
LEMMA ReturnApart ==
  ASSUME TypeInv, ApartInv, NEW t \in Threads, Return(t)
  PROVE  ApartInv'
<1>1. /\ rows' = rows /\ vols' = vols /\ served' = served /\ harm' = harm /\ seen' = seen /\ torn' = torn
      /\ threads[t].phase \in {"ok", "error"} /\ threads[t].todo = <<>>
      /\ threads'[t] = Idle /\ \A u \in Threads : u # t => threads'[u] = threads[u]
      /\ \A y : Kept(y)' <=> Kept(y)
  BY ReturnEffects
<1> SUFFICES ASSUME Apart'
             PROVE  Alone' /\ NoOrphan' /\ \A u \in Threads : Solo(threads[u])'
  BY DEF ApartInv
<1>2. Alone /\ NoOrphan
  BY <1>1 DEF ApartInv, Apart
<1>3. threads[t].phase # "idle" /\ Others(t)
  BY <1>1 DEF Others
<1>4. /\ Alone'
      /\ \A y : Awaited(y) => AwaitedBy(threads[t], y)
      /\ \A u \in Threads : u # t => Solo(threads[u])'
  BY <1>2, <1>3, AloneFacts
<1>5. \A y : ~AwaitedBy(threads[t], y)
  BY <1>1 DEF AwaitedBy, Past
<1>6. NoOrphan'
  BY <1>1, <1>2, <1>4, <1>5 DEF NoOrphan
<1>7. Solo(threads[t])'
  <2>1. Solo(Idle)'
    BY IdleSolo
  <2> QED
    BY <1>1, <2>1 DEF Solo, Created, Undone, Loose, Deleted, Moved, OwnRows, Past
<1> QED
  BY <1>4, <1>6, <1>7

(* What a rename waits for has its new name.                                 *)
LEMMA AwaitedName ==
  ASSUME TypeInv, Plans, NEW t \in Threads, NEW y, AwaitedBy(threads[t], y)
  PROVE  /\ threads[t].kind = "rename" /\ threads[t].todo # <<>>
         /\ 1 \in DOMAIN threads[t].todo /\ threads[t].todo[1].do \in {"renamerow", "RenameSnapshots"}
         /\ Of(threads[t].todo[1].x) = Of(y)
<1> DEFINE todo == threads[t].todo
<1>1. /\ todo \in Seq(Steps) /\ todo # <<>> /\ RenamingPlan(threads[t]) /\ threads[t].kind = "rename"
      /\ todo[1].do \in {"renamerow", "RenameSnapshots"}
  BY ThreadFacts DEF AwaitedBy, Past, Plans, PlanInv
<1>2. 1 \in DOMAIN todo /\ DOMAIN todo = 1..Len(todo) /\ \A i \in DOMAIN todo : i # 1 => i > 1
  BY <1>1, TailSuffix
<1>3. PICK i \in DOMAIN todo :
        \/ todo[i].do = "renamerow" /\ todo[i].x = y
        \/ todo[i].do = "RenameSnapshots" /\ Of(y) = todo[i].x
  BY DEF AwaitedBy
<1>4. Of(todo[i].x) = Of(y)
  <2>1. CASE todo[i].do = "renamerow" /\ todo[i].x = y
    BY <2>1
  <2>2. CASE todo[i].do = "RenameSnapshots" /\ Of(y) = todo[i].x
    <3>1. todo[i].x \in ContainerKeys
      BY <1>1, <2>2 DEF RenamingPlan
    <3> QED
      BY <2>2, <3>1, KeyFacts
  <2> QED
    BY <1>3, <2>1, <2>2
<1>5. Of(todo[1].x) = Of(todo[i].x)
  <2>1. CASE i = 1
    BY <2>1
  <2>2. CASE i > 1
    <3>1. \A j, m \in DOMAIN todo : j < m => (todo[j].do # "check" => Of(todo[j].x) = Of(todo[m].x))
      BY <1>1 DEF RenamingPlan
    <3>2. Of(todo[1].x) = Of(todo[i].x)
      <4>1. todo[1].do # "check" /\ 1 < i
        BY <1>1, <2>2
      <4> QED
        BY <1>2, <3>1, <4>1
    <3> QED
      BY <3>2
  <2> QED
    BY <1>2, <2>1, <2>2
<1> QED
  BY <1>1, <1>2, <1>4, <1>5

(* The daemon is killed.                                                     *)
LEMMA CrashApart ==
  ASSUME TypeInv, Plans, ApartInv, Crash
  PROVE  ApartInv'
<1>1. /\ rows' = rows /\ vols' = vols /\ served' = served
      /\ \A t \in Threads : threads'[t] = Idle
      /\ \A y \in DOMAIN vols \ DOMAIN rows : Renaming(y) => y \in torn'
      /\ seen' = seen \cup {"crash"}
      /\ \A y : Kept(y)' => Kept(y)
  BY CrashEffects
<1> SUFFICES ASSUME Apart'
             PROVE  Alone' /\ NoOrphan' /\ \A u \in Threads : Solo(threads[u])'
  BY DEF ApartInv
<1>2. NoOrphan
  BY <1>1 DEF ApartInv, Apart
<1>3. Alone'
  BY <1>1, IdleFacts DEF Alone
<1>4. \A u \in Threads : Solo(threads[u])'
  <2> TAKE u \in Threads
  <2>1. threads'[u] = Idle /\ Solo(Idle)'
    BY <1>1, IdleSolo
  <2> QED
    BY <2>1 DEF Solo, Created, Undone, Loose, Deleted, Moved, OwnRows, Past
<1>5. ASSUME NEW y \in DOMAIN vols, Awaited(y)
      PROVE  Renaming(y)
  <2>1. PICK t \in Threads : AwaitedBy(threads[t], y)
    BY <1>5 DEF Awaited
  <2> QED
    BY <2>1, AwaitedName DEF Renaming
<1>6. NoOrphan'
  BY <1>1, <1>2, <1>5 DEF NoOrphan, Kept
<1> QED
  BY <1>3, <1>4, <1>6

(* What a plan says of its next steps, by kind of request.                   *)
LEMMA PlanFacts ==
  ASSUME TypeInv, Plans, NEW t \in Threads
  PROVE  LET th == threads[t] IN
         /\ th.kind \in Creates \cup {"delete", "rename", "restore"}
         /\ th.kind \in Creates /\ ~th.failed => Making(th)
         /\ th.kind \in Creates /\ th.failed => Undoing(th) /\ Drops(th.todo, th.k)
         /\ th.kind = "delete" => Deleting(th) /\ Drops(th.todo, th.k)
         /\ th.kind = "rename" => RenamingPlan(th)
         /\ th.kind = "restore" => Restoring(th)
<1>1. threads[t].kind \in Kinds7 /\ PlanInv(threads[t])
  BY ThreadFacts DEF Plans
<1> QED
  BY <1>1 DEF PlanInv, Kinds7, Undoing, Deleting, Dropping

(* What the failing of a step leaves to prove.                               *)
LEMMA SoloParts ==
  ASSUME TypeInv, NEW t \in Threads, Alone, Others(t), threads[t].phase # "idle",
         NoOrphan', Solo(threads[t])'
  PROVE  Alone' /\ NoOrphan' /\ \A u \in Threads : Solo(threads[u])'
<1>1. /\ Alone' /\ \A u \in Threads : u # t => Solo(threads[u])'
  BY AloneFacts
<1> QED
  BY <1>1

(* Rows and volumes stay: what the next part of a failed plan promises.      *)
LEMMA FailKeeps ==
  ASSUME TypeInv, Plans, NEW t \in Threads, Refuse(t) \/ Fault(t), Alone, NoOrphan, Solo(threads[t]),
         threads[t].kind # "rename"
  PROVE  /\ NoOrphan' /\ Moved(threads[t])' /\ OwnRows(threads[t])'
<1>1. /\ Busy(t) /\ Fails(t) /\ rows' = rows /\ vols' = vols /\ \A y : Kept(y)' => Kept(y)
      /\ threads[t].todo[1].do \notin Calls
  BY FailEffects
<1>2. /\ threads'[t].kind = threads[t].kind /\ threads'[t].k = threads[t].k
      /\ threads'[t].id = threads[t].id /\ threads'[t].inserted = threads[t].inserted
      /\ Others(t)
  BY <1>1, FailPlan DEF FailedOn, Others
<1>3. threads[t].phase # "idle"
  BY <1>1 DEF Busy
<1>4. \A y : Awaited(y) => AwaitedBy(threads[t], y)
  BY <1>2, <1>3, AloneFacts
<1>5. \A y : ~AwaitedBy(threads[t], y)
  BY DEF AwaitedBy, Past
<1>6. NoOrphan'
  BY <1>1, <1>4, <1>5 DEF NoOrphan
<1>7. Moved(threads[t])'
  BY <1>2 DEF Moved, Past
<1>8. OwnRows(threads[t])
  BY DEF Solo
<1>9. OwnRows(threads[t])'
  BY <1>1, <1>2, <1>3, <1>8 DEF OwnRows
<1> QED
  BY <1>6, <1>7, <1>9

(* A creation fails: what it did is taken back.                              *)
LEMMA MakingFails ==
  ASSUME TypeInv, Plans, NEW t \in Threads, Refuse(t) \/ Fault(t), Alone, NoOrphan, Solo(threads[t]),
         threads[t].kind \in Creates, ~threads[t].failed
  PROVE  NoOrphan' /\ Solo(threads[t])'
<1>0. PICK old, new, s, k : old = threads[t] /\ new = threads'[t] /\ s = old.todo[1] /\ k = old.k
  OBVIOUS
<1>1. /\ Busy(t) /\ Fails(t) /\ rows' = rows /\ vols' = vols /\ \A y : Kept(y)' => Kept(y)
      /\ s.do \notin Calls /\ s \in Steps
  BY <1>0, FailEffects
<1>2. /\ new.kind = old.kind /\ new.k = old.k /\ new.inserted = old.inserted
      /\ new.failed = (old.failed \/ s.must) /\ (s.must => new.todo = s.undo)
  BY <1>0, <1>1, FailPlan DEF FailedOn
<1>3. /\ old.todo \in Seq(Steps) /\ old.todo # <<>> /\ k \in Keys /\ s.k = k /\ s.must
      /\ s.undo \in MakingUndo(s) /\ Making(old) /\ 1 \in DOMAIN old.todo
  BY <1>0, <1>1, NextStep, PlanFacts
<1>4. old.inserted \in BOOLEAN /\ (old.inserted => Rank(s) >= 2) /\ (~old.inserted => Rank(s) \in {0, 1})
      /\ Rank(s) \in 0..4
  BY <1>0, <1>3, MakingNext, ThreadFacts
<1>5. /\ s.undo \in {<<>>, <<ContainerRemove(k)>>, <<Delete(k)>>, DeleteAndRemove(k)}
      /\ s.undo = <<>> => Rank(s) \in {0, 1}
      /\ s.undo = <<ContainerRemove(k)>> => Rank(s) \in {2, 3}
  BY <1>1, <1>3, MakingUndoIs
<1>6. s.undo = DeleteAndRemove(k) => Rank(s) = 2
  <2>1. DeleteAndRemove(k) # <<>> /\ DeleteAndRemove(k) # <<Delete(k)>> /\ DeleteAndRemove(k) # <<ContainerRemove(k)>>
    BY DEF DeleteAndRemove
  <2> QED
    BY <1>3, <1>4, <2>1 DEF MakingUndo
<1>7. /\ s.undo = <<ContainerRemove(k)>> => Pending(s.undo, "remove", k)
      /\ s.undo \in {<<Delete(k)>>, DeleteAndRemove(k)} => Holds(s.undo, "Delete")
      /\ \A i \in DOMAIN s.undo : Bare(s.undo, i) =>
           s.undo[i].k = k /\ s.undo \in {<<ContainerRemove(k)>>, DeleteAndRemove(k)}
  <2>1. PICK u : u = s.undo
    OBVIOUS
  <2>2. u \in {<<>>, <<ContainerRemove(k)>>, <<Delete(k)>>, DeleteAndRemove(k)}
    BY <1>5, <2>1
  <2>3. /\ u = <<ContainerRemove(k)>> => Pending(u, "remove", k)
        /\ u \in {<<Delete(k)>>, DeleteAndRemove(k)} => Holds(u, "Delete")
    BY <1>3, <2>2, UndoBrings
  <2>4. \A i \in DOMAIN u : Bare(u, i) =>
           u[i].k = k /\ u \in {<<ContainerRemove(k)>>, DeleteAndRemove(k)}
    BY <1>3, <2>2, UndoBrings
  <2> QED
    BY <2>1, <2>3, <2>4
<1>8. old.inserted /\ Rank(s) <= 3 => ~Kept(k)
  BY <1>0, <1>3 DEF Solo, Created
<1>10. /\ new.kind \in Creates /\ new.failed /\ new.todo = s.undo /\ new.k = k /\ new.inserted = old.inserted
       /\ new = threads'[t]
  BY <1>0, <1>2, <1>3, Zenon
<1>11. Created(threads[t])' /\ Deleted(threads[t])'
  BY <1>10 DEF Created, Deleted, Creates
<1>12. Undone(threads[t])'
  <2> SUFFICES ASSUME old.inserted
               PROVE  /\ Pending(s.undo, "remove", k) \/ Holds(s.undo, "Delete")
                      /\ Kept(k)' => Holds(s.undo, "Delete")
    BY <1>10 DEF Undone
  <2>1. CASE s.undo = <<ContainerRemove(k)>>
    BY <1>1, <1>4, <1>5, <1>7, <1>8, <2>1
  <2>2. CASE s.undo \in {<<Delete(k)>>, DeleteAndRemove(k)}
    BY <1>7, <2>2
  <2>3. s.undo # <<>>
    BY <1>4, <1>5
  <2> QED
    BY <1>5, <2>1, <2>2, <2>3
<1>13. Loose(threads[t])'
  <2>1. ASSUME NEW i \in DOMAIN s.undo, Bare(s.undo, i)
        PROVE  ~Kept(k)' /\ s.undo[i].k = k
    <3>1. s.undo[i].k = k /\ s.undo \in {<<ContainerRemove(k)>>, DeleteAndRemove(k)}
      BY <1>7, <2>1
    <3>2. Rank(s) \in {2, 3}
      BY <1>5, <1>6, <3>1
    <3>3. ~Kept(k)
      BY <1>4, <1>8, <3>2
    <3>4. ~Kept(k)'
      BY <1>1, <3>3
    <3> QED
      BY <3>1, <3>4
  <2> QED
    BY <1>10, <2>1 DEF Loose
<1>14. threads[t].kind # "rename"
  BY <1>0 DEF Creates
<1>15. NoOrphan' /\ Moved(threads[t])' /\ OwnRows(threads[t])'
  BY <1>14, FailKeeps
<1> QED
  BY <1>11, <1>12, <1>13, <1>15 DEF Solo

(* A failed creation's undoing fails.                                        *)
LEMMA UndoingFails ==
  ASSUME TypeInv, Plans, NEW t \in Threads, Refuse(t) \/ Fault(t), Alone, NoOrphan, Solo(threads[t]),
         threads[t].kind \in Creates, threads[t].failed
  PROVE  NoOrphan' /\ Solo(threads[t])'
<1>0. PICK old, new, s, k : old = threads[t] /\ new = threads'[t] /\ s = old.todo[1] /\ k = old.k
  OBVIOUS
<1>1. /\ Busy(t) /\ Fails(t) /\ rows' = rows /\ vols' = vols /\ \A y : Kept(y)' => Kept(y)
      /\ s.do \notin Calls /\ s \in Steps /\ seen \subseteq seen'
      /\ Refused(s, t) \/ "stuck" \in seen'
  BY <1>0, FailEffects
<1>2. /\ new.kind = old.kind /\ new.k = old.k /\ new.inserted = old.inserted
      /\ new.failed = (old.failed \/ s.must) /\ (s.must => new.todo = s.undo)
      /\ ~s.must => /\ Suffix(new.todo, old.todo, s.skip + 1) /\ new.todo \in Seq(Steps)
                    /\ (s.do = "destroy" /\ s.skip = 1) \/ (s.do = "remove" /\ s.skip = 0)
      /\ s.must \in BOOLEAN /\ s.skip \in Nat
  BY <1>0, <1>1, FailPlan DEF FailedOn
<1>3. /\ old.todo \in Seq(Steps) /\ old.todo # <<>> /\ k \in Keys /\ s.undo = <<>> /\ 1 \in DOMAIN old.todo
      /\ s.do \in {"Delete", "containerDeleteSnapshots", "destroy", "remove"}
      /\ Undoing(old) /\ Drops(old.todo, k)
  BY <1>0, <1>1, NextStep, PlanFacts
<1>4. s.must => Len(old.todo) = 1
  BY <1>0, <1>1, <1>3 DEF Undoing
<1>5. /\ new = threads'[t] /\ new.kind \in Creates /\ new.failed /\ new.k = k
      /\ new.inserted = old.inserted
  BY <1>0, <1>2, Zenon
<1>6. Undone(old) /\ Loose(old)
  BY <1>0 DEF Solo
<1>7. Created(threads[t])' /\ Deleted(threads[t])'
  BY <1>5 DEF Created, Deleted, Creates
<1>8. Undone(threads[t])'
  <2> SUFFICES ASSUME old.inserted, "stuck" \notin seen'
               PROVE  /\ k \in DOMAIN rows => Pending(new.todo, "remove", k) \/ Holds(new.todo, "Delete")
                      /\ Kept(k)' => Pending(new.todo, "destroy", k) \/ Holds(new.todo, "Delete")
    BY <1>1, <1>5 DEF Undone
  <2>1. Refused(s, t) /\ "stuck" \notin seen
    BY <1>1
  <2>2. s.do = "remove" /\ s.k \notin DOMAIN rows
    <3>1. s.do # "destroy"
      BY <2>1, RefusedFacts
    <3>2. s.do = "remove"
      BY <1>1, <1>3, <3>1 DEF Calls
    <3> QED
      BY <2>1, <3>2, RefusedFacts
  <2>3. /\ k \in DOMAIN rows => Pending(old.todo, "remove", k) \/ Holds(old.todo, "Delete")
        /\ Kept(k) => Pending(old.todo, "destroy", k) \/ Holds(old.todo, "Delete")
    BY <1>0, <1>6, <2>1 DEF Undone
  <2>4. CASE s.must
    <3>1. DOMAIN old.todo = {1}
      BY <1>3, <1>4, <2>4
    <3>2. /\ Pending(old.todo, "remove", k) => s.k = k
          /\ ~Holds(old.todo, "Delete") /\ ~Pending(old.todo, "destroy", k)
      BY <1>0, <2>2, <3>1 DEF Pending, Holds
    <3> QED
      BY <1>1, <2>2, <2>3, <3>2
  <2>5. CASE ~s.must
    <3>1. PICK n \in Nat : n = 1
      OBVIOUS
    <3>2. Suffix(new.todo, old.todo, n) /\ new.todo \in Seq(Steps)
      BY <1>2, <2>2, <2>5, <3>1
    <3>3. PICK rest, todo : rest = new.todo /\ todo = old.todo
      OBVIOUS
    <3>4. /\ todo \in Seq(Steps) /\ todo # <<>> /\ rest \in Seq(Steps) /\ Drops(todo, k) /\ Suffix(rest, todo, n)
          /\ todo[1] = s /\ todo[1].do = "remove" /\ n = 1
      BY <1>0, <1>3, <2>2, <3>1, <3>2, <3>3
    <3>5. /\ \A do, x : Pending(todo, do, x) => Pending(rest, do, x) \/ (todo[1].k = x /\ do \in {todo[1].do, "remove"})
          /\ Holds(todo, "Delete") => Holds(rest, "Delete")
      BY <3>4, DropSkip
    <3>6. /\ Pending(todo, "remove", k) => Pending(rest, "remove", k) \/ s.k = k
          /\ Pending(todo, "destroy", k) => Pending(rest, "destroy", k)
      BY <3>4, <3>5
    <3> QED
      BY <1>1, <2>2, <2>3, <3>3, <3>5, <3>6
  <2> QED
    BY <1>2, <2>4, <2>5
<1>9. Loose(threads[t])'
  <2>1. CASE s.must
    <3>1. new.todo = <<>>
      BY <1>2, <1>3, <2>1
    <3>2. DOMAIN new.todo = {}
      BY <3>1
    <3> QED
      BY <1>5, <3>2 DEF Loose
  <2>2. CASE ~s.must
    <3>1. PICK n \in Nat : n = s.skip + 1
      BY <1>2
    <3>2. PICK rest, todo : rest = new.todo /\ todo = old.todo
      OBVIOUS
    <3>3. /\ todo \in Seq(Steps) /\ todo # <<>> /\ rest \in Seq(Steps) /\ Drops(todo, k) /\ Suffix(rest, todo, n)
          /\ (todo[1].do = "destroy" /\ n = 2) \/ (todo[1].do = "remove" /\ n = 1)
      BY <1>0, <1>2, <1>3, <2>2, <3>1, <3>2
    <3>4. \A i \in DOMAIN rest : Bare(rest, i) => \E j \in DOMAIN todo : Bare(todo, j) /\ todo[j].k = rest[i].k
      BY <3>3, DropSkip
    <3>5. \A j \in DOMAIN todo : Bare(todo, j) => ~Kept(todo[j].k)
      BY <1>6, <3>2 DEF Loose
    <3>6. \A i \in DOMAIN rest : Bare(rest, i) => ~Kept(rest[i].k)
      BY <3>4, <3>5
    <3>7. \A i \in DOMAIN rest : Bare(rest, i) => ~Kept(rest[i].k)'
      <4> TAKE i \in DOMAIN rest
      <4> HAVE Bare(rest, i)
      <4>1. PICK y : y = rest[i].k
        OBVIOUS
      <4> QED
        BY <1>1, <3>6, <4>1
    <3> QED
      BY <1>5, <3>2, <3>7 DEF Loose
  <2> QED
    BY <1>2, <2>1, <2>2
<1>10. threads[t].kind # "rename"
  BY <1>0 DEF Creates
<1>11. NoOrphan' /\ Moved(threads[t])' /\ OwnRows(threads[t])'
  BY <1>10, FailKeeps
<1> QED
  BY <1>7, <1>8, <1>9, <1>11 DEF Solo

(* A delete fails, or goes on.                                               *)
LEMMA DeletingFails ==
  ASSUME TypeInv, Plans, NEW t \in Threads, Refuse(t) \/ Fault(t), Alone, NoOrphan, Solo(threads[t]),
         threads[t].kind = "delete"
  PROVE  NoOrphan' /\ Solo(threads[t])'
<1>0. PICK old, new, s, k : old = threads[t] /\ new = threads'[t] /\ s = old.todo[1] /\ k = old.k
  OBVIOUS
<1>1. /\ Busy(t) /\ Fails(t) /\ rows' = rows /\ vols' = vols /\ \A y : Kept(y)' => Kept(y)
      /\ s.do \notin Calls /\ s \in Steps
  BY <1>0, FailEffects
<1>2. /\ new.kind = old.kind /\ new.k = old.k /\ new.inserted = old.inserted
      /\ new.failed = (old.failed \/ s.must) /\ (s.must => new.todo = s.undo)
      /\ new.fault = (old.fault \/ ~Refused(s, t))
      /\ ~s.must => /\ Suffix(new.todo, old.todo, s.skip + 1) /\ new.todo \in Seq(Steps)
                    /\ (s.do = "destroy" /\ s.skip = 1) \/ (s.do = "remove" /\ s.skip = 0)
      /\ s.must \in BOOLEAN /\ s.skip \in Nat
  BY <1>0, <1>1, FailPlan DEF FailedOn
<1>3. /\ old.todo \in Seq(Steps) /\ old.todo # <<>> /\ k \in Keys /\ s.undo = <<>> /\ 1 \in DOMAIN old.todo
      /\ s.do \in {"Delete", "containerDeleteSnapshots", "destroy", "remove"}
      /\ Deleting(old) /\ Drops(old.todo, k)
  BY <1>0, <1>1, NextStep, PlanFacts
<1>4. /\ new = threads'[t] /\ new.kind = "delete" /\ new.k = k /\ old.kind = "delete"
  BY <1>0, <1>2
<1>5. Deleted(old) /\ Loose(old)
  BY <1>0 DEF Solo
<1>6. Created(threads[t])' /\ Undone(threads[t])'
  BY <1>4 DEF Created, Undone, Creates
<1>7. Deleted(threads[t])'
  <2> SUFFICES ASSUME ~new.fault
               PROVE  /\ ~new.failed /\ new.todo # <<>> /\ k \in DOMAIN rows
                      /\ k \in DOMAIN vols => Pending(new.todo, "destroy", k)
    BY <1>1, <1>4 DEF Deleted
  <2>1. Refused(s, t) /\ ~old.fault
    BY <1>2, Zenon
  <2>2. s.do = "remove" /\ s.k \notin DOMAIN rows
    <3>1. s.do # "destroy"
      BY <2>1, RefusedFacts
    <3>2. s.do = "remove"
      BY <1>1, <1>3, <3>1 DEF Calls
    <3> QED
      BY <2>1, <3>2, RefusedFacts
  <2>3. ~old.failed /\ k \in DOMAIN rows /\ (k \in DOMAIN vols => Pending(old.todo, "destroy", k))
    BY <1>0, <1>3, <1>4, <1>5, <2>1 DEF Deleted
  <2>4. /\ Len(old.todo) # 1 /\ ~s.must
    <3>1. PICK N \in Nat : N = Len(old.todo) /\ DOMAIN old.todo = 1..N
      BY <1>3
    <3>2. /\ old.todo[N].k = k
          /\ \A i \in DOMAIN old.todo : i < N /\ old.todo[i].do = "remove" => ~old.todo[i].must
      BY <1>0, <1>3, <3>1 DEF Deleting
    <3>3. N # 1
      BY <1>0, <2>2, <2>3, <3>2
    <3>4. 1 < N
      <4>1. 1 \in 1..N
        BY <1>3, <3>1, Zenon
      <4> QED
        BY <3>3, <4>1
    <3> QED
      BY <1>0, <1>3, <2>2, <3>1, <3>2, <3>3, <3>4
  <2>5. PICK n \in Nat : n = 1
    OBVIOUS
  <2>6. Suffix(new.todo, old.todo, n) /\ new.todo \in Seq(Steps)
    BY <1>2, <2>2, <2>4, <2>5
  <2>7. PICK rest, todo : rest = new.todo /\ todo = old.todo
    OBVIOUS
  <2>8. /\ todo \in Seq(Steps) /\ todo # <<>> /\ rest \in Seq(Steps) /\ Drops(todo, k) /\ Suffix(rest, todo, n)
        /\ todo[1] = s /\ todo[1].do = "remove" /\ n = 1
    BY <1>0, <1>3, <2>2, <2>5, <2>6, <2>7
  <2>9. \A do, x : Pending(todo, do, x) => Pending(rest, do, x) \/ (todo[1].k = x /\ do \in {todo[1].do, "remove"})
    BY <2>8, DropSkip
  <2>10. Pending(todo, "destroy", k) => Pending(rest, "destroy", k)
    BY <2>8, <2>9
  <2>11. rest # <<>>
    <3>1. PICK N \in Nat : N = Len(todo) /\ DOMAIN todo = 1..N /\ todo[N].do = "remove" /\ todo[N].k = k
      BY <1>0, <1>3, <2>7 DEF Deleting
    <3>2. Pending(todo, "remove", k)
      <4>1. N \in DOMAIN todo
        BY <2>8, <3>1
      <4> QED
        BY <3>1, <4>1 DEF Pending
    <3>3. Pending(rest, "remove", k)
      BY <2>2, <2>3, <2>8, <2>9, <3>2
    <3> QED
      BY <3>3 DEF Pending
  <2>12. ~new.failed
    BY <1>2, <2>3, <2>4
  <2> QED
    BY <2>3, <2>7, <2>10, <2>11, <2>12
<1>8. Loose(threads[t])'
  <2>1. CASE s.must
    <3>1. new.todo = <<>>
      BY <1>2, <1>3, <2>1
    <3>2. DOMAIN new.todo = {}
      BY <3>1
    <3> QED
      BY <1>4, <3>2 DEF Loose
  <2>2. CASE ~s.must
    <3>1. PICK n \in Nat : n = s.skip + 1
      BY <1>2
    <3>2. PICK rest, todo : rest = new.todo /\ todo = old.todo
      OBVIOUS
    <3>3. /\ todo \in Seq(Steps) /\ todo # <<>> /\ rest \in Seq(Steps) /\ Drops(todo, k) /\ Suffix(rest, todo, n)
          /\ (todo[1].do = "destroy" /\ n = 2) \/ (todo[1].do = "remove" /\ n = 1)
      BY <1>0, <1>2, <1>3, <2>2, <3>1, <3>2
    <3>4. \A i \in DOMAIN rest : Bare(rest, i) => \E j \in DOMAIN todo : Bare(todo, j) /\ todo[j].k = rest[i].k
      BY <3>3, DropSkip
    <3>5. \A j \in DOMAIN todo : Bare(todo, j) => ~Kept(todo[j].k)
      BY <1>5, <3>2 DEF Loose
    <3>6. \A i \in DOMAIN rest : Bare(rest, i) => ~Kept(rest[i].k)
      BY <3>4, <3>5
    <3>7. \A i \in DOMAIN rest : Bare(rest, i) => ~Kept(rest[i].k)'
      <4> TAKE i \in DOMAIN rest
      <4> HAVE Bare(rest, i)
      <4>1. PICK y : y = rest[i].k
        OBVIOUS
      <4> QED
        BY <1>1, <3>6, <4>1
    <3> QED
      BY <1>4, <3>2, <3>7 DEF Loose
  <2> QED
    BY <1>2, <2>1, <2>2
<1>9. threads[t].kind # "rename"
  BY <1>0, <1>4
<1>10. NoOrphan' /\ Moved(threads[t])' /\ OwnRows(threads[t])'
  BY <1>9, FailKeeps
<1> QED
  BY <1>6, <1>7, <1>8, <1>10 DEF Solo

(* A rename or a restore fails, and ends.                                    *)
LEMMA OtherFails ==
  ASSUME TypeInv, Plans, NEW t \in Threads, Refuse(t) \/ Fault(t), Alone, NoOrphan, Solo(threads[t]),
         threads[t].kind \in {"rename", "restore"}
  PROVE  NoOrphan' /\ Solo(threads[t])'
<1>0. PICK old, new, s, k : old = threads[t] /\ new = threads'[t] /\ s = old.todo[1] /\ k = old.k
  OBVIOUS
<1>1. /\ Busy(t) /\ Fails(t) /\ rows' = rows /\ vols' = vols /\ \A y : Kept(y)' => Kept(y)
      /\ s.do \notin Calls /\ s \in Steps
      /\ s.do = "renamerow" =>
           \A y \in DOMAIN vols : Of(y) = Of(s.x) /\ (y \notin DOMAIN rows \/ y = s.x) => y \in torn'
  BY <1>0, FailEffects
<1>2. /\ new.kind = old.kind /\ new.k = old.k /\ new.id = old.id /\ (s.must => new.todo = s.undo)
  BY <1>0, <1>1, FailPlan DEF FailedOn
<1>3. s.must /\ s.undo = <<>> /\ 1 \in DOMAIN old.todo
  BY <1>0, <1>1, NextStep
<1>4. /\ new = threads'[t] /\ new.kind = old.kind /\ old.kind \in {"rename", "restore"} /\ new.k = k
      /\ new.todo = <<>> /\ new.id = old.id
  BY <1>0, <1>2, <1>3
<1>5. DOMAIN new.todo = {}
  BY <1>4
<1>6. Created(threads[t])' /\ Undone(threads[t])' /\ Deleted(threads[t])' /\ Loose(threads[t])' /\ Moved(threads[t])'
  BY <1>4, <1>5 DEF Created, Undone, Deleted, Loose, Moved, Past, Creates
<1>7. Others(t) /\ threads[t].phase # "idle"
  BY <1>0, <1>1, FailPlan DEF Others, Busy
<1>8. OwnRows(threads[t])'
  <2>1. OwnRows(old)
    BY <1>0 DEF Solo
  <2> QED
    BY <1>0, <1>1, <1>4, <1>7, <2>1 DEF OwnRows, Creates
<1>9. NoOrphan'
  <2> SUFFICES ASSUME NEW y \in DOMAIN vols, Kept(y)', y \notin DOMAIN rows
               PROVE  FALSE
    BY <1>1 DEF NoOrphan
  <2>1. Kept(y) /\ y \notin torn'
    BY <1>1 DEF Kept
  <2>2. AwaitedBy(threads[t], y)
    <3>1. Awaited(y)
      BY <2>1 DEF NoOrphan
    <3> QED
      BY <1>7, <3>1, AloneFacts
  <2>3. s.do \in {"renamerow", "RenameSnapshots"} /\ Of(s.x) = Of(y)
    BY <1>0, <2>2, AwaitedName
  <2>4. s.do = "renamerow"
    BY <1>1, <2>3 DEF Calls
  <2> QED
    BY <1>1, <2>1, <2>3, <2>4
<1> QED
  BY <1>6, <1>8, <1>9 DEF Solo

(* Whatever fails.                                                           *)
LEMMA FailApart ==
  ASSUME TypeInv, Plans, ApartInv, NEW t \in Threads, Refuse(t) \/ Fault(t)
  PROVE  ApartInv'
<1> SUFFICES ASSUME Apart'
             PROVE  Alone' /\ NoOrphan' /\ \A u \in Threads : Solo(threads[u])'
  BY DEF ApartInv
<1>1. Busy(t) /\ Fails(t) /\ seen \subseteq seen' /\ threads[t].todo[1].do \notin Calls
  BY FailEffects
<1>2. Alone /\ NoOrphan /\ Solo(threads[t])
  BY <1>1 DEF ApartInv, Apart
<1>3. Others(t) /\ threads[t].phase # "idle"
  BY <1>1, FailPlan DEF Others, Busy
<1>4. NoOrphan' /\ Solo(threads[t])'
  <2>1. CASE threads[t].kind \in Creates /\ ~threads[t].failed
    BY <1>2, <2>1, MakingFails
  <2>2. CASE threads[t].kind \in Creates /\ threads[t].failed
    BY <1>2, <2>2, UndoingFails
  <2>3. CASE threads[t].kind = "delete"
    BY <1>2, <2>3, DeletingFails
  <2>4. CASE threads[t].kind \in {"rename", "restore"}
    BY <1>2, <2>4, OtherFails
  <2>5. threads[t].kind \in Creates \cup {"delete", "rename", "restore"}
    BY PlanFacts
  <2> QED
    BY <2>1, <2>2, <2>3, <2>4, <2>5
<1> QED
  BY <1>2, <1>3, <1>4, SoloParts

(* A creation goes on.                                                       *)
LEMMA MakingRuns ==
  ASSUME TypeInv, HostAssumption, Plans, NEW t \in Threads, Run(t), Alone, NoOrphan, Solo(threads[t]),
         threads[t].kind \in Creates, ~threads[t].failed
  PROVE  NoOrphan' /\ Solo(threads[t])'
<1>0. PICK old, new, s, k, rest : /\ old = threads[t] /\ new = threads'[t] /\ s = old.todo[1] /\ k = old.k
                                  /\ rest = Tail(old.todo)
  BY Zenon
<1>1. /\ Busy(t) /\ ~Refused(s, t) /\ s \in Steps /\ seen \subseteq seen'
  BY <1>0, RunCommon, RunMarks
<1>2. /\ old.todo \in Seq(Steps) /\ old.todo # <<>> /\ k \in Keys /\ s.k = k
      /\ s.do \in {"check", "insert", "findIdmap", "setbase", "create", "copy"}
      /\ Making(old) /\ 1 \in DOMAIN old.todo
  BY <1>0, <1>1, NextStep, PlanFacts
<1>3. /\ RanOn(old, new, s, rest) /\ Others(t) /\ PlanInv(new)
  <2>1. After(s, rest) = rest
    BY <1>2 DEF After, Calls
  <2> QED
    BY <1>0, <2>1, RunPlan DEF Others
<1>4. /\ new = threads'[t] /\ new.kind \in Creates /\ ~new.failed /\ new.k = k /\ new.id = old.id
      /\ new.size = old.size /\ new.todo = rest /\ new.inserted = (old.inserted \/ s.do = "insert")
  BY <1>0, <1>3 DEF RanOn
<1>5. /\ Rank(s) < 3 => rest # <<>> /\ Rank(rest[1]) <= 3
      /\ Rank(s) >= 3 => rest = <<>> \/ Rank(rest[1]) = 4
      /\ old.inserted => Rank(s) >= 2
      /\ ~old.inserted => Rank(s) \in {0, 1}
      /\ Rank(s) \in 0..4
  BY <1>0, <1>2, MakingNext, Zenon
<1>6. /\ s.do = "insert" => Rank(s) = 1
      /\ s.do \in {"findIdmap", "setbase"} => Rank(s) = 2
      /\ s.do \in {"create", "copy"} <=> Rank(s) = 3
  BY RankFacts
<1>7. \A y : Kept(y) => y \in DOMAIN rows
  <2>1. threads[t].phase # "idle" /\ threads[t].kind # "rename"
    BY <1>0, <1>1 DEF Busy, Creates
  <2>2. \A y : ~Awaited(y)
    BY <1>3, <2>1, AloneFacts DEF AwaitedBy, Past
  <2> QED
    BY <2>2 DEF NoOrphan, Kept
<1>8. old.inserted =>
        /\ k \in DOMAIN rows /\ rows[k].id = old.id /\ rows[k].size = old.size
        /\ Rank(s) <= 3 => ~Kept(k)
        /\ Rank(s) = 4 => k \in DOMAIN vols
  BY <1>0, <1>2 DEF Solo, Created
<1>9. \A j \in DOMAIN rows : rows[j].id = old.id => old.inserted /\ j = k
  <2>1. OwnRows(old) /\ old.phase = "busy"
    BY <1>0, <1>1 DEF Solo, Busy
  <2> QED
    BY <1>0, <2>1 DEF OwnRows
<1>10. Undone(threads[t])' /\ Deleted(threads[t])' /\ Moved(threads[t])'
  BY <1>4 DEF Undone, Deleted, Moved, Past, Creates
<1>11. Loose(threads[t])'
  <2>1. Making(new)
    BY <1>3, <1>4 DEF PlanInv
  <2>2. \A i \in DOMAIN new.todo : new.todo[i].do # "remove"
    BY <2>1 DEF Making
  <2> QED
    BY <1>4, <2>2 DEF Loose, Bare
  \* It is enough that its row and volume are as its plan says.
<1>12. ASSUME new.inserted => /\ k \in DOMAIN rows' /\ rows'[k].id = old.id /\ rows'[k].size = old.size
                              /\ Rank(s) < 3 => ~Kept(k)'
                              /\ Rank(s) >= 3 => k \in DOMAIN vols',
              \A j \in DOMAIN rows' : rows'[j].id = old.id => new.inserted /\ j = k,
              \A y : Kept(y)' => y \in DOMAIN rows'
       PROVE  NoOrphan' /\ Solo(threads[t])'
  <2>1. Created(threads[t])'
    <3> SUFFICES ASSUME new.inserted
                 PROVE  /\ k \in DOMAIN rows' /\ rows'[k].id = old.id /\ rows'[k].size = old.size
                        /\ rest # <<>> /\ Rank(rest[1]) <= 3 => ~Kept(k)'
                        /\ rest = <<>> \/ Rank(rest[1]) = 4 => k \in DOMAIN vols'
      BY <1>4 DEF Created
    <3>1. CASE Rank(s) < 3
      <4>1. Rank(rest[1]) # 4 /\ rest # <<>>
        BY <1>5, <3>1
      <4> QED
        BY <1>12, <3>1, <4>1
    <3>2. CASE Rank(s) >= 3
      <4>1. ~(rest # <<>> /\ Rank(rest[1]) <= 3)
        BY <1>5, <3>2
      <4> QED
        BY <1>12, <3>2, <4>1
    <3> QED
      BY <1>5, <3>1, <3>2
  <2>2. OwnRows(threads[t])'
    BY <1>4, <1>12 DEF OwnRows
  <2>3. NoOrphan'
    BY <1>12 DEF NoOrphan
  <2> QED
    BY <1>10, <1>11, <2>1, <2>2, <2>3 DEF Solo
<1>13. CASE s.do \in {"check", "findIdmap"}
  <2>1. rows' = rows /\ vols' = vols /\ \A y : Kept(y)' <=> Kept(y)
    BY <1>0, <1>13, RunOther
  <2>2. new.inserted = old.inserted /\ Rank(s) # 3
    BY <1>0, <1>4, <1>6, <1>13, ThreadFacts
  <2> QED
    BY <1>5, <1>7, <1>8, <1>9, <1>12, <2>1, <2>2
<1>14. CASE s.do = "insert"
  <2>1. /\ k \notin DOMAIN rows /\ DOMAIN rows' = DOMAIN rows \cup {k}
        /\ rows'[k] = [id |-> old.id, size |-> old.size, base |-> 0]
        /\ \A j \in DOMAIN rows : rows'[j] = rows[j]
    BY <1>0, <1>2, <1>14, RunInsert, Zenon
  <2>2. vols' = vols /\ \A y : Kept(y)' <=> Kept(y)
    BY <1>0, <1>14, RunRows
  <2>3. new.inserted /\ Rank(s) = 1
    BY <1>4, <1>6, <1>14, Zenon
  <2>4. rows'[k].id = old.id /\ rows'[k].size = old.size
    BY <2>1
  <2>5. ~Kept(k)'
    BY <1>7, <2>1, <2>2
  <2>6. \A j \in DOMAIN rows' : rows'[j].id = old.id => j = k
    BY <1>9, <2>1
  <2>7. \A y : Kept(y)' => y \in DOMAIN rows'
    BY <1>7, <2>1, <2>2
  <2> QED
    BY <1>12, <2>1, <2>3, <2>4, <2>5, <2>6, <2>7
<1>15. CASE s.do = "setbase"
  <2>1. /\ DOMAIN rows' = DOMAIN rows
        /\ \A j \in DOMAIN rows : rows'[j].id = rows[j].id /\ rows'[j].size = rows[j].size
    BY <1>0, <1>15, RunSetbase
  <2>2. vols' = vols /\ \A y : Kept(y)' <=> Kept(y)
    BY <1>0, <1>15, RunRows
  <2>3. new.inserted = old.inserted /\ Rank(s) = 2
    BY <1>0, <1>4, <1>6, <1>15, ThreadFacts
  <2> QED
    BY <1>5, <1>7, <1>8, <1>9, <1>12, <2>1, <2>2, <2>3
<1>16. CASE s.do \in {"create", "copy"}
  <2>1. DOMAIN vols' = DOMAIN vols \cup {k} /\ \A y : Kept(y)' <=> Kept(y) \/ y = k
    BY <1>0, <1>2, <1>16, RunMake, Zenon
  <2>2. rows' = rows
    BY <1>0, <1>16, RunVolumes
  <2>3. old.inserted /\ Rank(s) = 3 /\ new.inserted = old.inserted
    BY <1>0, <1>4, <1>5, <1>6, <1>16, ThreadFacts
  <2> QED
    BY <1>7, <1>8, <1>9, <1>12, <2>1, <2>2, <2>3
<1> QED
  BY <1>2, <1>13, <1>14, <1>15, <1>16

(* What is taken away goes on being taken away: rows lose nothing that has   *)
(* a volume.                                                                 *)
LEMMA DroppingRuns ==
  ASSUME TypeInv, HostAssumption, Plans, NEW t \in Threads, Run(t), Alone, NoOrphan, Solo(threads[t]),
         \/ threads[t].kind \in Creates /\ threads[t].failed
         \/ threads[t].kind = "delete"
  PROVE  /\ NoOrphan' /\ Loose(threads[t])' /\ OwnRows(threads[t])' /\ Moved(threads[t])'
         /\ LET old == threads[t]
                new == threads'[t]
                s == old.todo[1] IN
            /\ new.kind = old.kind /\ new.k = old.k /\ new.failed = old.failed /\ new.fault = old.fault
            /\ new.inserted = old.inserted
            /\ DOMAIN vols' \subseteq DOMAIN vols /\ \A y : Kept(y)' => Kept(y)
            /\ s.do = "remove" => DOMAIN rows' = DOMAIN rows \ {s.k}
            /\ s.do # "remove" => rows' = rows
            /\ s.do = "destroy" => s.k \notin DOMAIN vols' /\ \A y : Kept(y)' => y # s.k
            /\ s.do \notin Calls => new.todo = Tail(old.todo)
            /\ s.do \in Calls => new.todo = PlanOf(s) \o Tail(old.todo)
<1>0. PICK old, new, s, k, rest : /\ old = threads[t] /\ new = threads'[t] /\ s = old.todo[1] /\ k = old.k
                                  /\ rest = Tail(old.todo)
  BY Zenon
<1>1. /\ Busy(t) /\ ~Refused(s, t) /\ s \in Steps /\ seen \subseteq seen'
  BY <1>0, RunCommon, RunMarks
<1>2. /\ old.todo \in Seq(Steps) /\ old.todo # <<>> /\ k \in Keys /\ 1 \in DOMAIN old.todo
      /\ s.do \in {"Delete", "containerDeleteSnapshots", "destroy", "remove"}
      /\ Drops(old.todo, k)
  BY <1>0, <1>1, NextStep, PlanFacts
<1>3. /\ RanOn(old, new, s, After(s, rest)) /\ Others(t)
  BY <1>0, RunPlan DEF Others
<1>4. /\ new = threads'[t] /\ new.kind = old.kind /\ new.k = k /\ new.id = old.id
      /\ new.failed = old.failed /\ new.fault = old.fault
      /\ new.inserted = old.inserted /\ new.todo = After(s, rest)
  <2>1. old.inserted \in BOOLEAN
    BY <1>0, ThreadFacts
  <2> QED
    BY <1>0, <1>2, <1>3, <2>1 DEF RanOn
<1>5. threads[t].phase # "idle" /\ threads[t].kind # "rename"
  BY <1>0, <1>1 DEF Busy, Creates
<1>6. \A y : Kept(y) => y \in DOMAIN rows
  <2>1. \A y : ~Awaited(y)
    BY <1>3, <1>5, AloneFacts DEF AwaitedBy, Past
  <2> QED
    BY <2>1 DEF NoOrphan, Kept
<1>7. \A j \in DOMAIN old.todo : Bare(old.todo, j) => ~Kept(old.todo[j].k)
  BY <1>0 DEF Solo, Loose
<1>8. \A j \in DOMAIN rows : rows[j].id = old.id => old.kind \in Creates /\ old.inserted /\ j = k
  BY <1>0, <1>5 DEF Solo, OwnRows
<1>9. Moved(threads[t])'
  BY <1>0, <1>4, <1>5 DEF Moved, Past
  \* It is enough that no row of a kept volume goes.
<1>10. ASSUME DOMAIN rows' \subseteq DOMAIN rows, \A j \in DOMAIN rows' : rows'[j] = rows[j],
              \A y : Kept(y)' => Kept(y) /\ y \in DOMAIN rows',
              \A i \in DOMAIN new.todo : Bare(new.todo, i) =>
                \/ \E j \in DOMAIN old.todo : Bare(old.todo, j) /\ old.todo[j].k = new.todo[i].k
                \/ s.do = "destroy" /\ s.k = new.todo[i].k /\ ~Kept(s.k)'
       PROVE  NoOrphan' /\ Loose(threads[t])' /\ OwnRows(threads[t])' /\ Moved(threads[t])'
  <2>1. NoOrphan'
    BY <1>10 DEF NoOrphan
  <2>2. OwnRows(threads[t])'
    BY <1>4, <1>8, <1>10 DEF OwnRows
  <2>3. ASSUME NEW i \in DOMAIN new.todo, Bare(new.todo, i), NEW y, y = new.todo[i].k
        PROVE  ~Kept(y)'
    <3>1. CASE \E j \in DOMAIN old.todo : Bare(old.todo, j) /\ old.todo[j].k = new.todo[i].k
      <4>1. ~Kept(y)
        BY <1>7, <2>3, <3>1
      <4> QED
        BY <1>10, <4>1
    <3>2. CASE s.do = "destroy" /\ s.k = new.todo[i].k /\ ~Kept(s.k)'
      BY <2>3, <3>2
    <3> QED
      BY <1>10, <2>3, <3>1, <3>2
  <2>4. Loose(threads[t])'
    BY <1>4, <2>3 DEF Loose
  <2> QED
    BY <1>9, <2>1, <2>2, <2>4
<1>11. CASE s.do \in Calls
  <2>1. rows' = rows /\ vols' = vols /\ \A y : Kept(y)' <=> Kept(y)
    BY <1>0, <1>11, RunOther
  <2>2. new.todo = PlanOf(s) \o rest
    BY <1>4, <1>11 DEF After
  <2>3. \A i \in DOMAIN new.todo : Bare(new.todo, i) =>
          \E j \in DOMAIN old.todo : Bare(old.todo, j) /\ old.todo[j].k = new.todo[i].k
    <3>1. PICK todo : todo = old.todo
      OBVIOUS
    <3> DEFINE more == PlanOf(todo[1]) \o Tail(todo)
    <3>2. todo \in Seq(Steps) /\ todo # <<>> /\ Drops(todo, k) /\ todo[1].do \in Calls
      BY <1>0, <1>2, <1>11, <3>1
    <3>3. \A i \in DOMAIN more : Bare(more, i) => \E j \in DOMAIN todo : Bare(todo, j) /\ todo[j].k = more[i].k
      BY <1>2, <3>2, DropCall, Zenon
    <3>4. new.todo = more
      BY <1>0, <2>2, <3>1
    <3> QED
      BY <3>1, <3>3, <3>4, ZenonT(60)
  <2>4. NoOrphan' /\ Loose(threads[t])' /\ OwnRows(threads[t])' /\ Moved(threads[t])'
    BY <1>6, <1>10, <2>1, <2>3
  <2> QED
    BY <1>0, <1>4, <1>11, <2>1, <2>2, <2>4, Zenon DEF Calls
<1>12. s.do \notin Calls => new.todo = rest
  BY <1>4 DEF After
<1>13. s.do \notin Calls =>
         \A i \in DOMAIN rest : Bare(rest, i) =>
              \/ \E j \in DOMAIN old.todo : Bare(old.todo, j) /\ old.todo[j].k = rest[i].k
              \/ s.do = "destroy" /\ s.k = rest[i].k
  BY <1>0, <1>2, DropRun, ZenonT(60)
<1>14. CASE s.do = "destroy"
  <2>1. /\ DOMAIN vols' = DOMAIN vols \ {s.k} /\ torn' = torn \ {s.k}
        /\ \A y : Kept(y)' <=> Kept(y) /\ y # s.k
    BY <1>0, <1>14, RunDestroy, Zenon
  <2>2. rows' = rows
    BY <1>0, <1>14, RunVolumes
  <2>3. s.k \notin DOMAIN vols' /\ ~Kept(s.k)' /\ s.do \notin Calls
    BY <1>14, <2>1 DEF Calls
  <2>4. NoOrphan' /\ Loose(threads[t])' /\ OwnRows(threads[t])' /\ Moved(threads[t])'
    BY <1>6, <1>10, <1>12, <1>13, <1>14, <2>1, <2>2, <2>3
  <2>5. /\ DOMAIN vols' \subseteq DOMAIN vols /\ \A y : Kept(y)' => Kept(y)
        /\ s.do # "remove" /\ new.todo = rest
    BY <1>12, <1>14, <2>1, <2>3
  <2> QED
    BY <1>0, <1>4, <1>14, <2>2, <2>3, <2>4, <2>5, Zenon
<1>15. CASE s.do = "remove"
  <2>1. /\ s.k \in DOMAIN rows /\ DOMAIN rows' = DOMAIN rows \ {s.k}
        /\ \A j \in DOMAIN rows : j # s.k => rows'[j] = rows[j]
    BY <1>0, <1>15, RunRemove, Zenon
  <2>2. vols' = vols /\ \A y : Kept(y)' <=> Kept(y)
    BY <1>0, <1>15, RunRows
  <2>3. ~Kept(s.k) /\ s.do \notin Calls
    <3>1. Bare(old.todo, 1)
      BY <1>0, <1>15 DEF Bare
    <3> QED
      BY <1>0, <1>2, <1>7, <1>15, <3>1 DEF Calls
  <2>4. \A y : Kept(y)' => Kept(y) /\ y \in DOMAIN rows'
    BY <1>6, <2>1, <2>2, <2>3
  <2>5. NoOrphan' /\ Loose(threads[t])' /\ OwnRows(threads[t])' /\ Moved(threads[t])'
    BY <1>10, <1>12, <1>13, <1>15, <2>1, <2>3, <2>4
  <2> QED
    BY <1>0, <1>4, <1>12, <1>15, <2>1, <2>2, <2>3, <2>5, Zenon
<1> QED
  BY <1>2, <1>11, <1>14, <1>15, Zenon DEF Calls

(* A failed creation goes on being undone.                                   *)
LEMMA UndoingRuns ==
  ASSUME TypeInv, HostAssumption, Plans, NEW t \in Threads, Run(t), Alone, NoOrphan, Solo(threads[t]),
         threads[t].kind \in Creates, threads[t].failed
  PROVE  NoOrphan' /\ Solo(threads[t])'
<1>0. PICK old, new, s, k, rest : /\ old = threads[t] /\ new = threads'[t] /\ s = old.todo[1] /\ k = old.k
                                  /\ rest = Tail(old.todo)
  BY Zenon
<1>1. /\ NoOrphan' /\ Loose(threads[t])' /\ OwnRows(threads[t])' /\ Moved(threads[t])'
      /\ new.kind = old.kind /\ new.k = k /\ new.failed = old.failed /\ new.inserted = old.inserted
      /\ DOMAIN vols' \subseteq DOMAIN vols /\ \A y : Kept(y)' => Kept(y)
      /\ s.do = "remove" => DOMAIN rows' = DOMAIN rows \ {s.k}
      /\ s.do # "remove" => rows' = rows
      /\ s.do = "destroy" => \A y : Kept(y)' => y # s.k
      /\ s.do \notin Calls => new.todo = rest
      /\ s.do \in Calls => new.todo = PlanOf(s) \o rest
  BY <1>0, DroppingRuns, ZenonT(60)
<1>2. Busy(t) /\ seen \subseteq seen'
  BY RunCommon, RunMarks
<1>3. /\ old.todo \in Seq(Steps) /\ old.todo # <<>> /\ k \in Keys
      /\ s.do \in {"Delete", "containerDeleteSnapshots", "destroy", "remove"}
      /\ Drops(old.todo, k)
  BY <1>0, <1>2, NextStep, PlanFacts
<1>4. new = threads'[t] /\ new.kind \in Creates /\ new.failed
  BY <1>0, <1>1
<1>5. Created(threads[t])' /\ Deleted(threads[t])'
  BY <1>4 DEF Created, Deleted, Creates
<1>6. Undone(threads[t])'
  <2> SUFFICES ASSUME old.inserted, "stuck" \notin seen
               PROVE  /\ k \in DOMAIN rows' => Pending(new.todo, "remove", k) \/ Holds(new.todo, "Delete")
                      /\ Kept(k)' => Pending(new.todo, "destroy", k) \/ Holds(new.todo, "Delete")
    BY <1>1, <1>2, <1>4 DEF Undone
  <2>1. /\ k \in DOMAIN rows => Pending(old.todo, "remove", k) \/ Holds(old.todo, "Delete")
        /\ Kept(k) => Pending(old.todo, "destroy", k) \/ Holds(old.todo, "Delete")
    BY <1>0, <1>1, <1>4 DEF Solo, Undone
  <2>2. CASE s.do \in Calls
    <3>1. PICK todo : todo = old.todo
      OBVIOUS
    <3> DEFINE more == PlanOf(todo[1]) \o Tail(todo)
    <3>2. todo \in Seq(Steps) /\ todo # <<>> /\ Drops(todo, k) /\ todo[1].do \in Calls
      BY <1>0, <1>3, <2>2, <3>1
    <3>3. /\ \A do, x : Pending(todo, do, x) => Pending(more, do, x) \/ (todo[1].do = do /\ todo[1].k = x)
          /\ \A do : Holds(todo, do) => Holds(more, do) \/ todo[1].do = do
          /\ todo[1].do = "Delete" => Pending(more, "destroy", k) /\ Pending(more, "remove", k)
      BY <1>3, <3>2, DropCall, Zenon
    <3>4. new.todo = more /\ todo[1] = s /\ todo = old.todo
      BY <1>0, <1>1, <2>2, <3>1, Zenon
    <3>5. s.do # "remove" /\ s.do # "destroy"
      BY <2>2 DEF Calls
    <3> HIDE DEF more
    <3> QED
      BY <1>1, <2>1, <3>3, <3>4, <3>5
  <2>3. CASE s.do \notin Calls
    <3>1. /\ \A do, x : Pending(old.todo, do, x) => Pending(rest, do, x) \/ (s.do = do /\ s.k = x)
          /\ \A do : Holds(old.todo, do) => Holds(rest, do) \/ s.do = do
      BY <1>0, <1>3, TailFacts
    <3>2. s.do \in {"destroy", "remove"} /\ new.todo = rest
      BY <1>1, <1>3, <2>3 DEF Calls
    <3>3. Holds(old.todo, "Delete") => Holds(rest, "Delete")
      BY <3>1, <3>2
    <3>4. CASE s.do = "destroy"
      BY <1>1, <2>1, <3>1, <3>2, <3>3, <3>4
    <3>5. CASE s.do = "remove"
      BY <1>1, <2>1, <3>1, <3>2, <3>3, <3>5
    <3> QED
      BY <3>2, <3>4, <3>5
  <2> QED
    BY <2>2, <2>3
<1> QED
  BY <1>1, <1>5, <1>6 DEF Solo

(* A delete goes on.                                                         *)
LEMMA DeletingRuns ==
  ASSUME TypeInv, HostAssumption, Plans, NEW t \in Threads, Run(t), Alone, NoOrphan, Solo(threads[t]),
         threads[t].kind = "delete"
  PROVE  NoOrphan' /\ Solo(threads[t])'
<1>0. PICK old, new, s, k, rest : /\ old = threads[t] /\ new = threads'[t] /\ s = old.todo[1] /\ k = old.k
                                  /\ rest = Tail(old.todo)
  BY Zenon
<1>1. /\ NoOrphan' /\ Loose(threads[t])' /\ OwnRows(threads[t])' /\ Moved(threads[t])'
      /\ new.kind = old.kind /\ new.k = k /\ new.failed = old.failed /\ new.fault = old.fault
      /\ DOMAIN vols' \subseteq DOMAIN vols
      /\ s.do = "remove" => DOMAIN rows' = DOMAIN rows \ {s.k}
      /\ s.do # "remove" => rows' = rows
      /\ s.do = "destroy" => s.k \notin DOMAIN vols'
      /\ s.do \notin Calls => new.todo = rest
      /\ s.do \in Calls => new.todo = PlanOf(s) \o rest
  BY <1>0, DroppingRuns, Zenon
<1>2. Busy(t)
  BY RunCommon
<1>3. /\ old.todo \in Seq(Steps) /\ old.todo # <<>> /\ k \in Keys /\ 1 \in DOMAIN old.todo
      /\ s.do \in {"containerDeleteSnapshots", "destroy", "remove"}
      /\ Drops(old.todo, k) /\ Deleting(old)
  BY <1>0, <1>2, NextStep, PlanFacts
<1>4. new = threads'[t] /\ new.kind = "delete"
  BY <1>0, <1>1
<1>5. Created(threads[t])' /\ Undone(threads[t])'
  BY <1>4 DEF Created, Undone, Creates
<1>6. PICK N \in Nat : /\ N = Len(old.todo) /\ DOMAIN old.todo = 1..N /\ N \in DOMAIN old.todo
                       /\ old.todo[N].do = "remove" /\ old.todo[N].k = k
                       /\ \A i \in DOMAIN old.todo : i < N /\ old.todo[i].do = "remove" => old.todo[i].k # k
  <2>1. PICK N \in Nat : N = Len(old.todo) /\ DOMAIN old.todo = 1..N
    BY <1>3
  <2>2. N \in DOMAIN old.todo
    BY <1>3, <2>1
  <2>3. /\ old.todo[N].do = "remove" /\ old.todo[N].k = k
        /\ \A i \in DOMAIN old.todo : i < N /\ old.todo[i].do = "remove" => old.todo[i].k # k
    BY <1>0, <1>3, <2>1 DEF Deleting
  <2> QED
    BY <2>1, <2>2, <2>3
<1>7. Pending(old.todo, "remove", k)
  BY <1>6 DEF Pending
<1>8. Deleted(threads[t])'
  <2> SUFFICES ASSUME ~old.fault
               PROVE  /\ ~new.failed
                      /\ new.todo # <<>> => k \in DOMAIN rows'
                      /\ k \in DOMAIN vols' => Pending(new.todo, "destroy", k)
                      /\ new.todo = <<>> => k \notin DOMAIN rows'
    BY <1>1, <1>4 DEF Deleted
  <2>1. ~old.failed /\ k \in DOMAIN rows /\ (k \in DOMAIN vols => Pending(old.todo, "destroy", k))
    BY <1>0, <1>1, <1>3, <1>4 DEF Solo, Deleted
  <2>2. CASE s.do \in Calls
    <3>1. PICK todo : todo = old.todo
      OBVIOUS
    <3> DEFINE more == PlanOf(todo[1]) \o Tail(todo)
    <3>2. todo \in Seq(Steps) /\ todo # <<>> /\ Drops(todo, k) /\ todo[1].do \in Calls
      BY <1>0, <1>3, <2>2, <3>1
    <3>3. \A do, x : Pending(todo, do, x) => Pending(more, do, x) \/ (todo[1].do = do /\ todo[1].k = x)
      BY <1>3, <3>2, DropCall, Zenon
    <3>4. new.todo = more /\ todo[1] = s /\ todo = old.todo
      BY <1>0, <1>1, <2>2, <3>1, Zenon
    <3> HIDE DEF more
    <3>5. s.do # "remove" /\ s.do # "destroy"
      BY <2>2 DEF Calls
    <3>6. Pending(more, "remove", k)
      BY <1>7, <3>3, <3>4, <3>5
    <3>7. more # <<>>
      BY <3>6 DEF Pending
    <3>8. Pending(old.todo, "destroy", k) => Pending(more, "destroy", k)
      BY <3>3, <3>4, <3>5
    <3> QED
      BY <1>1, <2>1, <3>4, <3>5, <3>7, <3>8
  <2>3. CASE s.do \notin Calls
    <3>1. \A do, x : Pending(old.todo, do, x) => Pending(rest, do, x) \/ (s.do = do /\ s.k = x)
      BY <1>0, <1>3, TailFacts
    <3>2. s.do \in {"destroy", "remove"} /\ new.todo = rest
      BY <1>1, <1>3, <2>3 DEF Calls
    <3>3. CASE s.do = "destroy"
      <4>1. Pending(rest, "remove", k)
        BY <1>7, <3>1, <3>3
      <4>2. rest # <<>>
        BY <4>1 DEF Pending
      <4>3. k \in DOMAIN vols' => Pending(rest, "destroy", k)
        BY <1>1, <2>1, <3>1, <3>3
      <4> QED
        BY <1>1, <2>1, <3>2, <3>3, <4>2, <4>3
    <3>4. CASE s.do = "remove" /\ s.k # k
      <4>1. Pending(rest, "remove", k)
        BY <1>7, <3>1, <3>4
      <4>2. rest # <<>>
        BY <4>1 DEF Pending
      <4>3. k \in DOMAIN vols' => Pending(rest, "destroy", k)
        BY <1>1, <2>1, <3>1, <3>4
      <4>4. k \in DOMAIN rows'
        BY <1>1, <2>1, <3>4
      <4> QED
        BY <1>1, <2>1, <3>2, <4>2, <4>3, <4>4
    <3>5. CASE s.do = "remove" /\ s.k = k
      <4>1. N = 1
        <5>1. 1 \in 1..N
          BY <1>3, <1>6, Zenon
        <5>2. ~(1 < N)
          BY <1>0, <1>3, <1>6, <3>5
        <5> QED
          BY <5>1, <5>2
      <4>2. rest = <<>>
        BY <1>0, <1>3, <1>6, <4>1, TailSuffix, Zenon
      <4>3. ~Pending(old.todo, "destroy", k)
        <5>1. DOMAIN old.todo = {1}
          BY <1>6, <4>1
        <5> QED
          BY <1>0, <3>5, <5>1 DEF Pending
      <4>4. k \notin DOMAIN vols'
        BY <1>1, <2>1, <4>3
      <4> QED
        BY <1>1, <2>1, <3>2, <3>5, <4>2, <4>4
    <3> QED
      BY <3>2, <3>3, <3>4, <3>5
  <2> QED
    BY <2>2, <2>3
<1> QED
  BY <1>1, <1>5, <1>8 DEF Solo

(* A restore goes on.                                                        *)
LEMMA RestoringRuns ==
  ASSUME TypeInv, HostAssumption, Plans, NEW t \in Threads, Run(t), Alone, NoOrphan, Solo(threads[t]),
         threads[t].kind = "restore"
  PROVE  NoOrphan' /\ Solo(threads[t])'
<1>0. PICK old, new, s, rest : /\ old = threads[t] /\ new = threads'[t] /\ s = old.todo[1]
                               /\ rest = Tail(old.todo)
  BY Zenon
<1>1. Busy(t)
  BY RunCommon
<1>2. /\ old.todo \in Seq(Steps) /\ old.todo # <<>> /\ s.do \in {"check", "restore", "update"}
  BY <1>0, <1>1, NextStep
<1>3. RanOn(old, new, s, rest) /\ Others(t) /\ PlanInv(new)
  <2>1. After(s, rest) = rest
    BY <1>2 DEF After, Calls
  <2> QED
    BY <1>0, <2>1, RunPlan DEF Others
<1>4. new = threads'[t] /\ new.kind = "restore" /\ new.id = old.id
  BY <1>0, <1>3 DEF RanOn
<1>5. Created(threads[t])' /\ Undone(threads[t])' /\ Deleted(threads[t])' /\ Moved(threads[t])'
  BY <1>4 DEF Created, Undone, Deleted, Moved, Past, Creates
<1>6. Loose(threads[t])'
  <2>1. Restoring(new)
    BY <1>3, <1>4 DEF PlanInv
  <2>2. \A i \in DOMAIN new.todo : new.todo[i].do # "remove"
    BY <2>1 DEF Restoring
  <2> QED
    BY <1>4, <2>2 DEF Loose, Bare
<1>7. /\ DOMAIN rows' = DOMAIN rows /\ \A j \in DOMAIN rows : rows'[j].id = rows[j].id
      /\ vols' = vols /\ \A y : Kept(y)' <=> Kept(y)
  <2>1. CASE s.do \in {"check", "restore"}
    BY <1>0, <2>1, RunOther
  <2>2. CASE s.do = "update"
    BY <1>0, <2>2, RunRows, RunUpdate
  <2> QED
    BY <1>2, <2>1, <2>2
<1>8. threads[t].phase # "idle" /\ threads[t].kind # "rename"
  BY <1>0, <1>1 DEF Busy
<1>9. NoOrphan'
  <2>1. \A y : ~Awaited(y)
    BY <1>3, <1>8, AloneFacts DEF AwaitedBy, Past
  <2> QED
    BY <1>7, <2>1 DEF NoOrphan
<1>10. OwnRows(threads[t])'
  <2>1. \A j \in DOMAIN rows : rows[j].id # old.id
    BY <1>0, <1>8 DEF Solo, OwnRows, Creates
  <2> QED
    BY <1>4, <1>7, <2>1 DEF OwnRows
<1> QED
  BY <1>5, <1>6, <1>9, <1>10 DEF Solo

(* A rename after its next step.                                             *)
LEMMA RenamingSteps ==
  ASSUME NEW th, RenamingPlan(th), th.todo \in Seq(Steps), th.todo # <<>>, th.k \in ContainerKeys
  PROVE  LET s == th.todo[1]
             rest == Tail(th.todo) IN
         /\ s.do = "check" => rest # <<>> /\ rest[1].do = "move"
         /\ s.do = "move" =>
              /\ rest # <<>> /\ 1 \in DOMAIN rest /\ 2 \in DOMAIN rest
              /\ rest[1].do = "renamerow" /\ rest[1].k = th.k /\ rest[1].x = s.x
              /\ rest[2].do = "RenameSnapshots" /\ rest[2].k = th.k /\ rest[2].x = s.x
         /\ s.do = "renamerow" =>
              /\ rest # <<>> => rest[1].do \in {"renamerow", "RenameSnapshots"}
              /\ \A i \in DOMAIN rest : /\ rest[i].do = "renamerow" => rest[i].k # s.k
                                        /\ rest[i].do = "RenameSnapshots" => s.k = th.k
<1> DEFINE todo == th.todo
           s == todo[1]
           rest == Tail(todo)
<1>1. /\ rest \in Seq(Steps) /\ Len(todo) \in Nat \ {0} /\ DOMAIN todo = 1..Len(todo)
      /\ \A i \in DOMAIN rest : i + 1 \in DOMAIN todo /\ rest[i] = todo[i + 1]
      /\ \A i \in DOMAIN todo : i > 1 => i - 1 \in DOMAIN rest /\ rest[i - 1] = todo[i]
      /\ rest = <<>> <=> Len(todo) = 1
      /\ DOMAIN rest = 1..Len(rest) /\ Len(rest) = Len(todo) - 1
  BY TailRest
<1>2. 1 \in DOMAIN todo
  BY <1>1
<1>3. \A i \in DOMAIN todo :
        /\ todo[i].do \in {"check", "move", "renamerow", "RenameSnapshots"}
        /\ todo[i].do \in {"move", "RenameSnapshots"} => todo[i].k = th.k /\ todo[i].x \in ContainerKeys
        /\ todo[i].do = "renamerow" => todo[i].x = Renamed(todo[i].k, Of(todo[i].x))
        /\ todo[i].do = "check" => i = 1 /\ Len(todo) = 4 /\ todo[2].do = "move"
        /\ todo[i].do = "move" => i + 2 = Len(todo) /\ todo[i + 1].do = "renamerow"
                                  /\ todo[i + 1].k = th.k /\ todo[i + 2].do = "RenameSnapshots"
  BY DEF RenamingPlan
<1>4. \A i, j \in DOMAIN todo : i < j =>
        /\ todo[i].do # "check" => Of(todo[i].x) = Of(todo[j].x)
        /\ todo[j].do = "move" => todo[i].do = "check"
        /\ todo[i].do = "renamerow" /\ todo[j].do = "renamerow" => todo[i].k # todo[j].k
        /\ todo[j].do = "RenameSnapshots" => todo[i].do \in {"check", "move"} \/ todo[i].k = th.k
  BY DEF RenamingPlan
<1> HIDE DEF s, rest, todo
<1>6. s = todo[1] /\ th.todo = todo
  BY DEF s, todo
<1>7. ASSUME s.do = "check"
      PROVE  rest # <<>> /\ rest[1].do = "move"
  <2>1. Len(todo) = 4 /\ todo[2].do = "move"
    BY <1>2, <1>3, <1>6, <1>7
  <2>2. 1 \in DOMAIN rest /\ rest[1] = todo[1 + 1]
    BY <1>1, <2>1
  <2>3. 1 + 1 = 2
    OBVIOUS
  <2> QED
    BY <1>1, <2>1, <2>2, <2>3
<1>8. ASSUME s.do = "move"
      PROVE  /\ rest # <<>> /\ 1 \in DOMAIN rest /\ 2 \in DOMAIN rest
             /\ rest[1].do = "renamerow" /\ rest[1].k = th.k /\ rest[1].x = s.x
             /\ rest[2].do = "RenameSnapshots" /\ rest[2].k = th.k /\ rest[2].x = s.x
  <2>1. 1 + 2 = Len(todo) /\ todo[1 + 1].do = "renamerow"
        /\ todo[1 + 1].k = th.k /\ todo[1 + 2].do = "RenameSnapshots"
    BY <1>2, <1>3, <1>6, <1>8, Zenon
  <2>2. 1 + 1 = 2 /\ 1 + 2 = 3 /\ 2 + 1 = 3
    OBVIOUS
  <2>3. 1 \in DOMAIN rest /\ 2 \in DOMAIN rest /\ 2 \in DOMAIN todo /\ 3 \in DOMAIN todo /\ rest # <<>>
    <3>1. Len(todo) = 3 /\ Len(rest) = 2 /\ rest # <<>>
      <4>1. 1 + 2 = Len(todo)
        BY <2>1
      <4>2. Len(rest) = Len(todo) - 1
        BY <1>1
      <4>3. rest = <<>> <=> Len(todo) = 1
        BY <1>1
      <4>4. Len(todo) = 3
        BY <4>1
      <4>5. Len(rest) = 2
        BY <4>2, <4>4
      <4>6. rest # <<>>
        BY <4>3, <4>4
      <4> QED
        BY <4>4, <4>5, <4>6
    <3>2. DOMAIN todo = 1..3 /\ DOMAIN rest = 1..2
      BY <1>1, <3>1
    <3> QED
      BY <3>1, <3>2
  <2>4. rest[1] = todo[2] /\ rest[2] = todo[3]
    <3>1. rest[1] = todo[1 + 1] /\ rest[2] = todo[2 + 1]
      BY <1>1, <2>3
    <3> QED
      BY <2>2, <3>1
  <2>5. /\ s.x \in ContainerKeys /\ todo[3].x \in ContainerKeys /\ todo[3].k = th.k
        /\ todo[2].x = Renamed(th.k, Of(todo[2].x))
    BY <1>2, <1>3, <1>6, <1>8, <2>1, <2>2, <2>3
  <2>6. Of(s.x) = Of(todo[2].x) /\ Of(s.x) = Of(todo[3].x)
    <3>1. 1 < 2 /\ 1 < 3
      OBVIOUS
    <3> QED
      BY <1>2, <1>4, <1>6, <1>8, <2>3, <3>1
  <2>7. todo[3].x = s.x
    BY <2>5, <2>6, KeyFacts
  <2>8. todo[2].x = s.x
    <3>1. PICK x : x = s.x
      OBVIOUS
    <3>2. x \in ContainerKeys /\ todo[2].x = Renamed(th.k, x)
      BY <2>5, <2>6, <3>1, KeyFacts
    <3>3. ~IsSnapshot(th.k)
      BY KeyFacts
    <3> QED
      BY <3>1, <3>2, <3>3 DEF Renamed
  <2> QED
    BY <2>1, <2>2, <2>3, <2>4, <2>5, <2>7, <2>8
<1>9. ASSUME s.do = "renamerow"
      PROVE  /\ rest # <<>> => rest[1].do \in {"renamerow", "RenameSnapshots"}
             /\ \A i \in DOMAIN rest : /\ rest[i].do = "renamerow" => rest[i].k # s.k
                                       /\ rest[i].do = "RenameSnapshots" => s.k = th.k
  <2>1. ASSUME NEW i \in DOMAIN rest
        PROVE  /\ rest[i].do \in {"renamerow", "RenameSnapshots"}
               /\ rest[i].do = "renamerow" => rest[i].k # s.k
               /\ rest[i].do = "RenameSnapshots" => s.k = th.k
    <3>1. PICK j \in DOMAIN todo : j = i + 1 /\ rest[i] = todo[j] /\ 1 < j
      BY <1>1, <2>1
    <3>2. /\ todo[j].do = "move" => todo[1].do = "check"
          /\ todo[1].do = "renamerow" /\ todo[j].do = "renamerow" => todo[1].k # todo[j].k
          /\ todo[j].do = "RenameSnapshots" => todo[1].do \in {"check", "move"} \/ todo[1].k = th.k
      BY <1>2, <1>4, <3>1
    <3>3. todo[j].do # "check"
      BY <1>3, <3>1
    <3>4. todo[j].do \in {"check", "move", "renamerow", "RenameSnapshots"}
      BY <1>3
    <3> QED
      BY <1>6, <1>9, <3>1, <3>2, <3>3, <3>4
  <2>2. rest # <<>> => 1 \in DOMAIN rest
    BY <1>1
  <2> QED
    BY <2>1, <2>2
<1> QED
  BY <1>7, <1>8, <1>9 DEF s, rest, todo

(* The volumes of a container are renamed: their rows follow.                *)
LEMMA MoveRuns ==
  ASSUME TypeInv, HostAssumption, Plans, NEW t \in Threads, Run(t), Alone, NoOrphan,
         threads[t].kind = "rename", threads[t].todo[1].do = "move"
  PROVE  NoOrphan' /\ Moved(threads[t])'
<1>0. PICK old, new, s, k, x, rest : /\ old = threads[t] /\ new = threads'[t] /\ s = old.todo[1] /\ k = old.k
                                     /\ rest = Tail(old.todo) /\ x = s.x
  BY Zenon
<1>1. Busy(t)
  BY RunCommon
<1>2. /\ old.todo \in Seq(Steps) /\ old.todo # <<>> /\ k \in ContainerKeys /\ s.do = "move"
      /\ s.k = k /\ x \in ContainerKeys /\ Of(x) # k /\ RenamingPlan(old)
  BY <1>0, <1>1, NextStep, PlanFacts
<1>3. RanOn(old, new, s, rest) /\ Others(t)
  <2>1. After(s, rest) = rest
    BY <1>2 DEF After, Calls
  <2> QED
    BY <1>0, <2>1, RunPlan DEF Others
<1>4. new = threads'[t] /\ new.kind = "rename" /\ new.k = k /\ new.todo = rest
  BY <1>0, <1>3 DEF RanOn
<1>5. /\ rest # <<>> /\ 1 \in DOMAIN rest /\ 2 \in DOMAIN rest
      /\ rest[1].do = "renamerow" /\ rest[1].k = k /\ rest[1].x = x
      /\ rest[2].do = "RenameSnapshots" /\ rest[2].k = k /\ rest[2].x = x
  BY <1>0, <1>2, RenamingSteps, Zenon
<1>6. /\ DOMAIN vols' \subseteq Keys
      /\ \A y \in Keys :
           /\ y \in DOMAIN vols' <=> \/ y \in DOMAIN vols /\ Of(y) # k
                                     \/ Of(y) = x /\ Renamed(y, k) \in DOMAIN vols
           /\ Kept(y)' => (Kept(y) /\ Of(y) # k) \/ (Of(y) = x /\ Kept(Renamed(y, k)))
  <2>1. PICK kk, xx : kk = threads[t].todo[1].k /\ xx = threads[t].todo[1].x
    BY Zenon
  <2>2. kk \in ContainerKeys /\ xx \in ContainerKeys
    BY <1>0, <1>2, <2>1
  <2>3. /\ DOMAIN vols' \subseteq Keys
        /\ \A y \in Keys :
             /\ y \in DOMAIN vols' <=> \/ y \in DOMAIN vols /\ Of(y) # kk
                                       \/ Of(y) = xx /\ Renamed(y, kk) \in DOMAIN vols
             /\ Kept(y)' => (Kept(y) /\ Of(y) # kk) \/ (Of(y) = xx /\ Kept(Renamed(y, kk)))
    BY <2>1, <2>2, RunMove
  <2>4. kk = k /\ xx = x
    BY <1>0, <1>2, <2>1
  <2> QED
    BY <2>3, <2>4
<1>7. rows' = rows
  BY <1>0, <1>2, RunVolumes
<1>8. Past(threads[t])'
  BY <1>4, <1>5 DEF Past
<1>9. x # k /\ Of(x) = x
  BY <1>2, KeyFacts
<1>10. Moved(threads[t])'
  <2>1. \A y \in DOMAIN vols' : Of(y) # k
    BY <1>6, <1>9
  <2> QED
    BY <1>4, <2>1 DEF Moved, Tree
<1>11. \A y : ~Awaited(y)
  <2>1. ~Past(threads[t]) /\ threads[t].phase # "idle"
    BY <1>0, <1>1, <1>2 DEF Past, Busy
  <2> QED
    BY <1>3, <2>1, AloneFacts DEF AwaitedBy
<1>12. \A y : Kept(y) => y \in DOMAIN rows
  BY <1>11 DEF NoOrphan, Kept
<1>13. ASSUME NEW y \in DOMAIN vols', Kept(y)', y \notin DOMAIN rows
       PROVE  AwaitedBy(threads[t], y)'
  <2>1. y \in Keys /\ Of(y) = x /\ Renamed(y, k) \in DOMAIN rows
    BY <1>6, <1>12, <1>13
  <2>2. CASE IsSnapshot(y)
    <3>1. rest[2].do = "RenameSnapshots" /\ IsSnapshot(y) /\ Of(y) = rest[2].x /\ Renamed(y, rest[2].k) \in DOMAIN rows'
      BY <1>5, <1>7, <2>1, <2>2
    <3> QED
      BY <1>4, <1>5, <1>8, <3>1 DEF AwaitedBy
  <2>3. CASE ~IsSnapshot(y)
    <3>1. Of(y) = y /\ Renamed(y, k) = k
      BY <2>1, <2>3, KeyFacts DEF Renamed
    <3>2. rest[1].do = "renamerow" /\ rest[1].x = y /\ rest[1].k \in DOMAIN rows'
      BY <1>5, <1>7, <2>1, <3>1
    <3> QED
      BY <1>4, <1>5, <1>8, <3>2 DEF AwaitedBy
  <2> QED
    BY <2>2, <2>3
<1>14. NoOrphan'
  <2>1. threads[t].phase # "idle"
    BY <1>1 DEF Busy
  <2>2. \A y : AwaitedBy(threads[t], y)' => Awaited(y)'
    BY <1>3, <2>1, AloneFacts
  <2> QED
    BY <1>7, <1>13, <2>2 DEF NoOrphan
<1> QED
  BY <1>10, <1>14

(* A row is renamed; those of the volumes still waiting stay.                *)
LEMMA RowRuns ==
  ASSUME TypeInv, HostAssumption, Plans, NEW t \in Threads, Run(t), Alone, NoOrphan, Moved(threads[t]),
         threads[t].kind = "rename", threads[t].todo[1].do = "renamerow"
  PROVE  NoOrphan' /\ Moved(threads[t])'
<1>0. PICK old, new, s, k, rest : /\ old = threads[t] /\ new = threads'[t] /\ s = old.todo[1] /\ k = old.k
                                  /\ rest = Tail(old.todo)
  BY Zenon
<1>1. Busy(t)
  BY RunCommon
<1>2. /\ old.todo \in Seq(Steps) /\ old.todo # <<>> /\ k \in ContainerKeys /\ s.do = "renamerow"
      /\ Of(s.k) = k /\ RenamingPlan(old) /\ s.k \in Keys
  BY <1>0, <1>1, NextStep, PlanFacts
<1>3. RanOn(old, new, s, rest) /\ Others(t)
  <2>1. After(s, rest) = rest
    BY <1>2 DEF After, Calls
  <2> QED
    BY <1>0, <2>1, RunPlan DEF Others
<1>4. new = threads'[t] /\ new.kind = "rename" /\ new.k = k /\ new.todo = rest /\ old.kind = "rename"
  BY <1>0, <1>3 DEF RanOn
<1>5. /\ rest # <<>> => rest[1].do \in {"renamerow", "RenameSnapshots"}
      /\ \A i \in DOMAIN rest : /\ rest[i].do = "renamerow" => rest[i].k # s.k
                                /\ rest[i].do = "RenameSnapshots" => s.k = k
  BY <1>0, <1>2, RenamingSteps
<1>6. /\ s.k \notin DOMAIN rows => rows' = rows
      /\ s.k \in DOMAIN rows => DOMAIN rows' = (DOMAIN rows \ {s.k}) \cup {s.x}
      /\ s.x \notin DOMAIN rows
  BY <1>0, <1>2, RunRenamerow, Zenon
<1>7. vols' = vols /\ \A y : Kept(y)' <=> Kept(y)
  BY <1>0, <1>2, RunRows
<1>8. Past(old) /\ Tree(DOMAIN vols, k) = {}
  BY <1>0, <1>2, <1>4 DEF Past, Moved
<1>9. Moved(threads[t])'
  BY <1>4, <1>7, <1>8 DEF Moved
<1>10. s.k \notin DOMAIN vols
  BY <1>2, <1>8 DEF Tree
<1>11. \A y : y \in DOMAIN rows /\ y # s.k => y \in DOMAIN rows'
  BY <1>6
<1>12. ASSUME NEW y \in DOMAIN vols, AwaitedBy(old, y), y \notin DOMAIN rows'
       PROVE  AwaitedBy(threads[t], y)'
  <2>1. PICK i \in DOMAIN old.todo :
          \/ old.todo[i].do = "renamerow" /\ old.todo[i].x = y /\ old.todo[i].k \in DOMAIN rows
          \/ old.todo[i].do = "RenameSnapshots" /\ IsSnapshot(y) /\ Of(y) = old.todo[i].x
             /\ Renamed(y, old.todo[i].k) \in DOMAIN rows
    BY <1>12 DEF AwaitedBy
  <2>2. i # 1
    BY <1>0, <1>2, <1>6, <1>12, <2>1
  <2>3. PICK j \in DOMAIN rest : rest[j] = old.todo[i]
    <3>1. PICK todo : todo = old.todo
      OBVIOUS
    <3>2. /\ \A m \in DOMAIN todo : m > 1 => m - 1 \in DOMAIN rest /\ rest[m - 1] = todo[m]
          /\ \A m \in DOMAIN todo : m # 1 => m > 1
      BY <1>0, <1>2, <3>1, TailRest, TailSuffix, SMTT(60)
    <3> QED
      BY <2>2, <3>1, <3>2
  <2>4. Past(new)
    BY <1>4, <1>5, <2>3 DEF Past
  <2>5. \/ rest[j].do = "renamerow" /\ rest[j].x = y /\ rest[j].k \in DOMAIN rows'
        \/ rest[j].do = "RenameSnapshots" /\ IsSnapshot(y) /\ Of(y) = rest[j].x
           /\ Renamed(y, rest[j].k) \in DOMAIN rows'
    <3>1. CASE rest[j].do = "renamerow" /\ rest[j].x = y /\ rest[j].k \in DOMAIN rows
      BY <1>5, <1>11, <3>1
    <3>2. CASE rest[j].do = "RenameSnapshots" /\ IsSnapshot(y) /\ Of(y) = rest[j].x
               /\ Renamed(y, rest[j].k) \in DOMAIN rows
      <4>1. s.k = k /\ ~IsSnapshot(s.k)
        BY <1>2, <1>5, <3>2, KeyFacts
      <4>2. rest[j].k = k
        <5>1. old.todo[i].k = k
          BY <1>0, <1>2, <2>3, <3>2 DEF RenamingPlan
        <5> QED
          BY <2>3, <5>1
      <4>3. IsSnapshot(Renamed(y, k))
        <5>1. y \in Keys
          BY DEF TypeInv
        <5> QED
          BY <1>2, <3>2, <5>1, RenamedFacts
      <4> QED
        BY <1>11, <3>2, <4>1, <4>2, <4>3
    <3> QED
      BY <2>1, <2>3, <3>1, <3>2
  <2>6. new.todo = rest /\ new = threads'[t]
    BY <1>4
  <2> QED
    BY <2>4, <2>5, <2>6 DEF AwaitedBy, Past
<1>13. NoOrphan'
  <2>1. threads[t].phase # "idle"
    BY <1>1 DEF Busy
  <2>2. \A y : Awaited(y) => AwaitedBy(old, y)
    BY <1>0, <1>3, <2>1, AloneFacts
  <2>3. \A y : AwaitedBy(threads[t], y)' => Awaited(y)'
    BY <1>3, <2>1, AloneFacts
  <2> SUFFICES ASSUME NEW y \in DOMAIN vols, Kept(y), y \notin DOMAIN rows'
               PROVE  Awaited(y)'
    BY <1>7 DEF NoOrphan
  <2>4. CASE y \in DOMAIN rows
    BY <1>10, <1>11, <2>4
  <2>5. CASE Awaited(y)
    BY <1>12, <2>2, <2>3, <2>5
  <2> QED
    BY <2>4, <2>5 DEF NoOrphan
<1> QED
  BY <1>9, <1>13

(* The rows of the snapshots are next.                                       *)
LEMMA SnapshotsRun ==
  ASSUME TypeInv, HostAssumption, Plans, NEW t \in Threads, Run(t), Alone, NoOrphan, Moved(threads[t]),
         threads[t].kind = "rename", threads[t].todo[1].do = "RenameSnapshots"
  PROVE  NoOrphan' /\ Moved(threads[t])'
<1>0. PICK old, new, s, k, x : /\ old = threads[t] /\ new = threads'[t] /\ s = old.todo[1] /\ k = old.k
                               /\ x = s.x
  OBVIOUS
<1>1. Busy(t)
  BY RunCommon
<1>2. /\ old.todo \in Seq(Steps) /\ old.todo # <<>> /\ k \in ContainerKeys /\ s.do = "RenameSnapshots"
      /\ s.k = k /\ x \in ContainerKeys /\ RenamingPlan(old) /\ s.do \in Calls
  BY <1>0, <1>1, NextStep, PlanFacts DEF Calls
<1>3. RanOn(old, new, s, PlanOf(s) \o Tail(old.todo)) /\ Others(t)
  <2>1. After(s, Tail(old.todo)) = PlanOf(s) \o Tail(old.todo)
    BY <1>2 DEF After
  <2> QED
    BY <1>0, <2>1, RunPlan, Zenon DEF Others
<1>4. new = threads'[t] /\ new.kind = "rename" /\ new.k = k /\ new.todo = PlanOf(s) \o Tail(old.todo)
      /\ new.failed = old.failed /\ old.kind = "rename"
  BY <1>0, <1>3 DEF RanOn
<1>5. Len(old.todo) = 1 /\ new.todo = RenameSnapshots(k, x)
  <2>1. new.failed => old.failed
    BY <1>4
  <2>2. new.todo = PlanOf(old.todo[1]) \o Tail(old.todo) /\ new.k = old.k /\ old.k \in ContainerKeys
        /\ old.todo[1].do \in Calls
    BY <1>0, <1>2, <1>4
  <2>3. Len(old.todo) = 1 /\ new.todo = RenameSnapshots(old.k, old.todo[1].x)
    BY <1>2, <2>1, <2>2, RenamingCall, Zenon
  <2> QED
    BY <1>0, <2>3
<1>6. /\ new.todo \in Seq(Steps)
      /\ \A i \in DOMAIN new.todo :
           new.todo[i].do = "renamerow" /\ new.todo[i].x = Renamed(new.todo[i].k, x)
      /\ \A z \in SnapshotsOf(k) : Pending(new.todo, "renamerow", z)
  <2> DEFINE p == RenameSnapshots(k, x)
  <2>1. k \in Keys
    BY <1>2, KeyFacts
  <2>2. /\ p \in Seq(Steps)
        /\ \A i \in DOMAIN p :
             /\ p[i].do = "renamerow" /\ p[i].k \in SnapshotsOf(k) /\ p[i].x = Renamed(p[i].k, x)
             /\ p[i].must = TRUE /\ p[i].undo = <<>>
        /\ \A z \in SnapshotsOf(k) : Pending(p, "renamerow", z)
    BY <1>2, <2>1, SnapRenames, Zenon
  <2> HIDE DEF p
  <2>3. new.todo = p
    BY <1>5 DEF p
  <2> QED
    BY <2>2, <2>3
<1>7. rows' = rows /\ vols' = vols /\ \A y : Kept(y)' <=> Kept(y)
  BY <1>0, <1>2, RunOther
<1>8. Past(old) /\ Tree(DOMAIN vols, k) = {}
  BY <1>0, <1>2, <1>4 DEF Past, Moved
<1>9. Moved(threads[t])'
  BY <1>4, <1>7, <1>8 DEF Moved
<1>10. ASSUME NEW y \in DOMAIN vols, AwaitedBy(old, y)
       PROVE  AwaitedBy(threads[t], y)'
  <2>1. DOMAIN old.todo = {1}
    BY <1>2, <1>5
  <2>2. IsSnapshot(y) /\ Of(y) = x /\ Renamed(y, k) \in DOMAIN rows
    BY <1>0, <1>2, <1>10, <2>1 DEF AwaitedBy
  <2>3. PICK z : z = Renamed(y, k)
    OBVIOUS
  <2>4. y \in Keys
    BY DEF TypeInv
  <2>5. IsSnapshot(z) /\ Of(z) = k /\ Renamed(z, x) = y
    <3>1. IsSnapshot(z) /\ Of(z) = k /\ Renamed(z, x) = Renamed(y, x)
      BY <1>2, <2>2, <2>3, <2>4, RenamedFacts
    <3>2. Renamed(y, Of(y)) = y
      BY <1>2, <2>4, RenamedFacts
    <3> QED
      BY <2>2, <3>1, <3>2
  <2>6. z \in SnapshotsOf(k)
    BY <2>2, <2>3, <2>5 DEF SnapshotsOf
  <2>7. PICK i \in DOMAIN new.todo : new.todo[i].do = "renamerow" /\ new.todo[i].k = z
    BY <1>6, <2>6 DEF Pending
  <2>8. new.todo[i].x = y /\ new.todo[i].k \in DOMAIN rows'
    BY <1>6, <1>7, <2>2, <2>3, <2>5, <2>7
  <2>9. new.todo # <<>> /\ new.todo[1].do = "renamerow"
    <3>1. 1 \in DOMAIN new.todo /\ new.todo # <<>>
      BY <1>6, <2>7
    <3> QED
      BY <1>6, <3>1
  <2> QED
    BY <1>4, <2>7, <2>8, <2>9, Zenon DEF AwaitedBy, Past
<1>11. NoOrphan'
  <2>1. threads[t].phase # "idle"
    BY <1>1 DEF Busy
  <2>2. \A y : Awaited(y) => AwaitedBy(old, y)
    BY <1>0, <1>3, <2>1, AloneFacts
  <2>3. \A y : AwaitedBy(threads[t], y)' => Awaited(y)'
    BY <1>3, <2>1, AloneFacts
  <2> SUFFICES ASSUME NEW y \in DOMAIN vols, Kept(y), y \notin DOMAIN rows
               PROVE  Awaited(y)'
    BY <1>7 DEF NoOrphan
  <2>4. Awaited(y)
    BY DEF NoOrphan
  <2> QED
    BY <1>10, <2>2, <2>3, <2>4
<1> QED
  BY <1>9, <1>11

(* A rename goes on.                                                         *)
LEMMA RenamingRuns ==
  ASSUME TypeInv, HostAssumption, Plans, NEW t \in Threads, Run(t), Alone, NoOrphan, Solo(threads[t]),
         threads[t].kind = "rename"
  PROVE  NoOrphan' /\ Solo(threads[t])'
<1>0. PICK old, new, s : old = threads[t] /\ new = threads'[t] /\ s = old.todo[1]
  OBVIOUS
<1>1. Busy(t)
  BY RunCommon
<1>2. /\ old.todo \in Seq(Steps) /\ old.todo # <<>> /\ old.k \in ContainerKeys
      /\ s.do \in {"check", "move", "renamerow", "RenameSnapshots"} /\ RenamingPlan(old)
  BY <1>0, <1>1, NextStep, PlanFacts
<1>3. RanOn(old, new, s, After(s, Tail(old.todo))) /\ Others(t) /\ PlanInv(new)
  BY <1>0, RunPlan DEF Others
<1>4. new = threads'[t] /\ new.kind = "rename" /\ new.id = old.id /\ old.kind = "rename"
      /\ new.todo = After(s, Tail(old.todo)) /\ new.k = old.k
  BY <1>0, <1>3 DEF RanOn
<1>5. Moved(threads[t]) /\ threads[t].phase # "idle"
  BY <1>1 DEF Solo, Busy
<1>6. Created(threads[t])' /\ Undone(threads[t])' /\ Deleted(threads[t])'
  BY <1>4 DEF Created, Undone, Deleted, Creates
<1>7. Loose(threads[t])'
  <2>1. RenamingPlan(new)
    BY <1>3, <1>4 DEF PlanInv
  <2>2. \A i \in DOMAIN new.todo : new.todo[i].do # "remove"
    BY <2>1 DEF RenamingPlan
  <2> QED
    BY <1>4, <2>2 DEF Loose, Bare
<1>8. \A j \in DOMAIN rows : rows[j].id # old.id
  BY <1>0, <1>4, <1>5 DEF Solo, OwnRows, Creates
<1>9. OwnRows(threads[t])'
  <2>1. \A j \in DOMAIN rows' : \E i \in DOMAIN rows : rows'[j] = rows[i]
    <3>1. CASE s.do = "renamerow"
      BY <1>0, <3>1, RunRenamerow, ZenonT(60)
    <3>2. CASE s.do = "move"
      BY <1>0, <3>2, RunVolumes
    <3>3. CASE s.do \in {"check", "RenameSnapshots"}
      BY <1>0, <3>3, RunOther DEF Calls
    <3> QED
      BY <1>2, <3>1, <3>2, <3>3
  <2> QED
    BY <1>4, <1>8, <2>1 DEF OwnRows
<1>10. NoOrphan' /\ Moved(threads[t])'
  <2>1. CASE s.do = "check"
    <3>1. rows' = rows /\ vols' = vols /\ \A y : Kept(y)' <=> Kept(y)
      BY <1>0, <2>1, RunOther
    <3>2. new.todo = Tail(old.todo)
      BY <1>4, <2>1 DEF After, Calls
    <3>3. Tail(old.todo)[1].do = "move"
      BY <1>0, <1>2, <2>1, RenamingSteps
    <3>4. Moved(threads[t])'
      BY <1>4, <3>2, <3>3, Zenon DEF Moved, Past
    <3>5. \A y : ~Awaited(y)
      <4>1. ~Past(threads[t])
        BY <1>0, <2>1 DEF Past
      <4> QED
        BY <1>3, <1>5, <4>1, AloneFacts DEF AwaitedBy
    <3>6. NoOrphan'
      BY <3>1, <3>5 DEF NoOrphan
    <3> QED
      BY <3>4, <3>6
  <2>2. CASE s.do = "move"
    BY <1>0, <2>2, MoveRuns
  <2>3. CASE s.do = "renamerow"
    BY <1>0, <1>5, <2>3, RowRuns
  <2>4. CASE s.do = "RenameSnapshots"
    BY <1>0, <1>5, <2>4, SnapshotsRun
  <2> QED
    BY <1>2, <2>1, <2>2, <2>3, <2>4
<1> QED
  BY <1>6, <1>7, <1>9, <1>10 DEF Solo

(* Whatever works.                                                           *)
LEMMA RunApart ==
  ASSUME TypeInv, HostAssumption, Plans, ApartInv, NEW t \in Threads, Run(t)
  PROVE  ApartInv'
<1> SUFFICES ASSUME Apart'
             PROVE  Alone' /\ NoOrphan' /\ \A u \in Threads : Solo(threads[u])'
  BY DEF ApartInv
<1>1. Busy(t) /\ seen \subseteq seen'
  BY RunCommon, RunMarks
<1>2. Alone /\ NoOrphan /\ Solo(threads[t])
  BY <1>1 DEF ApartInv, Apart
<1>3. Others(t) /\ threads[t].phase # "idle"
  BY <1>1, RunPlan DEF Others, Busy
<1>4. NoOrphan' /\ Solo(threads[t])'
  <2>1. CASE threads[t].kind \in Creates /\ ~threads[t].failed
    BY <1>2, <2>1, MakingRuns
  <2>2. CASE threads[t].kind \in Creates /\ threads[t].failed
    BY <1>2, <2>2, UndoingRuns
  <2>3. CASE threads[t].kind = "delete"
    BY <1>2, <2>3, DeletingRuns
  <2>4. CASE threads[t].kind = "rename"
    BY <1>2, <2>4, RenamingRuns
  <2>5. CASE threads[t].kind = "restore"
    BY <1>2, <2>5, RestoringRuns
  <2>6. threads[t].kind \in Creates \cup {"delete", "rename", "restore"}
    BY PlanFacts
  <2> QED
    BY <2>1, <2>2, <2>3, <2>4, <2>5, <2>6
<1> QED
  BY <1>2, <1>3, <1>4, SoloParts

(* Whatever happens.                                                         *)
LEMMA NextApart ==
  ASSUME TypeInv, HostAssumption, Plans, ApartInv, [Next]_vars
  PROVE  ApartInv'
<1>1. CASE \E t \in Threads : Request(t)
  BY <1>1, RequestApart
<1>2. CASE \E t \in Threads : Run(t)
  BY <1>2, RunApart
<1>3. CASE \E t \in Threads : Refuse(t) \/ Fault(t)
  BY <1>3, FailApart
<1>4. CASE \E t \in Threads : Return(t)
  BY <1>4, ReturnApart
<1>5. CASE Crash
  BY <1>5, CrashApart
<1>6. CASE UNCHANGED vars
  <2>1. rows' = rows /\ vols' = vols /\ threads' = threads /\ seen' = seen /\ torn' = torn
    BY <1>6 DEF vars
  <2> QED
    BY <2>1 DEF ApartInv, Apart, Alone, NoOrphan, Kept, Awaited, AwaitedBy, Past, Solo, Created, Undone, Loose,
                Deleted, Moved, OwnRows
<1> QED
  BY <1>1, <1>2, <1>3, <1>4, <1>5, <1>6 DEF Next

-----------------------------------------------------------------------------
(* Ranges.                                                                   *)

(* A range stays free as long as nobody else takes one.                      *)
LEMMA FitsKept ==
  ASSUME NEW k, NEW base, NEW size, Fits(k, base, size),
         \A j \in ContainerKeys : Claims(j)' /\ j # k /\ rows'[j].base > 0 =>
           Claims(j) /\ rows'[j].base = rows[j].base /\ rows'[j].size = rows[j].size
  PROVE  Fits(k, base, size)'
<1>1. ASSUME NEW j \in ContainerKeys, size > 0, Claims(j)', j # k, rows'[j].base > 0
      PROVE  Beside(j, base, size)'
  <2>1. Claims(j) /\ rows'[j].base = rows[j].base /\ rows'[j].size = rows[j].size
    BY <1>1
  <2>2. Beside(j, base, size)
    BY <1>1, <2>1 DEF Fits
  <2> QED
    BY <2>1, <2>2 DEF Beside
<1> QED
  BY <1>1 DEF Fits

\* The row whose range is yet to come, if any.
Rangeless(th) == IF th.kind \in Creates /\ th.inserted THEN th.k ELSE <<>>

(* All rows but that one have their range.                                   *)
LEMMA RangesNeat ==
  ASSUME TypeInv, ApartInv, Ranges, seen = {}, NEW t \in Threads, threads[t].phase # "idle"
  PROVE  /\ Alone /\ NoOrphan /\ Solo(threads[t]) /\ Neat(Rangeless(threads[t]))
<1>1. Alone /\ NoOrphan /\ Solo(threads[t])
  BY DEF ApartInv, Apart
<1>2. ASSUME NEW j \in ContainerKeys, Claims(j), j # Rangeless(threads[t])
      PROVE  Fits(j, rows[j].base, rows[j].size)
  <2>1. \/ Fits(j, rows[j].base, rows[j].size)
        \/ \E u \in Threads : /\ threads[u].kind \in Creates /\ threads[u].inserted
                              /\ threads[u].phase # "idle" /\ threads[u].k = j
    BY <1>2 DEF Ranges
  <2>2. \A u \in Threads : threads[u].phase # "idle" => u = t
    BY <1>1 DEF Alone
  <2> QED
    BY <1>2, <2>1, <2>2 DEF Rangeless
<1> QED
  BY <1>1, <1>2 DEF Neat

\* What a creation knows of its range.
RangeOfMaking(th) ==
  (th.kind \in Creates /\ th.inserted /\ ~th.failed /\ th.k \in ContainerKeys) =>
     IF Holds(th.todo, "setbase")
     THEN th.todo[1].do = "setbase" => Fits(th.k, th.base, th.size)
     ELSE Fits(th.k, rows[th.k].base, rows[th.k].size)

(* After a step of t it is enough that the other rows have ranges, and the   *)
(* one that is being made has one when its plan says so.                     *)
LEMMA RangesSuffice ==
  ASSUME TypeInv, Alone, NEW t \in Threads, threads[t].phase # "idle", Others(t), threads'[t].phase # "idle",
         \A j \in ContainerKeys : Claims(j)' /\ j # Rangeless(threads'[t]) =>
           \A base, size : base = rows'[j].base /\ size = rows'[j].size => Fits(j, base, size)',
         \A j \in ContainerKeys : Claims(j)' /\ j = Rangeless(threads'[t]) =>
           \/ rows'[j].base = 0
           \/ \A base, size : base = rows'[j].base /\ size = rows'[j].size => Fits(j, base, size)',
         RangeOfMaking(threads[t])'
  PROVE  Ranges'
<1>1. \A u \in Threads : u # t => threads'[u] = Idle
  BY AloneFacts
<1>2. ASSUME NEW u \in Threads, u # t
      PROVE  RangeOfMaking(threads[u])'
  BY <1>1, <1>2, IdleFacts DEF RangeOfMaking
<1>3. ASSUME NEW j \in ContainerKeys, Claims(j)'
      PROVE  \/ Fits(j, rows[j].base, rows[j].size)'
             \/ /\ rows'[j].base = 0
                /\ \E u \in Threads : /\ threads'[u].kind \in Creates /\ threads'[u].inserted
                                      /\ threads'[u].phase # "idle" /\ threads'[u].k = j
  <2>1. PICK base, size : base = rows'[j].base /\ size = rows'[j].size
    BY Zenon
  <2>2. Fits(j, base, size)' => Fits(j, rows[j].base, rows[j].size)'
    BY <2>1 DEF Fits, Beside
  <2>3. CASE j # Rangeless(threads'[t])
    BY <1>3, <2>1, <2>2, <2>3
  <2>4. CASE j = Rangeless(threads'[t])
    <3>1. j # <<>>
      BY KeyFacts
    <3>2. threads'[t].kind \in Creates /\ threads'[t].inserted /\ threads'[t].k = j
      BY <2>4, <3>1 DEF Rangeless
    <3> QED
      BY <1>3, <2>1, <2>2, <2>4, <3>2
  <2> QED
    BY <2>3, <2>4
<1>4. \A u \in Threads : RangeOfMaking(threads[u])'
  BY <1>2
<1> QED
  BY <1>3, <1>4 DEF Ranges, RangeOfMaking

(* What a range is when nothing changes.                                     *)
LEMMA FitsSame ==
  ASSUME rows' = rows, NEW k, NEW base, NEW size
  PROVE  Fits(k, base, size)' <=> Fits(k, base, size)
BY DEF Fits, Claims, Beside

\* Ranges, when a request begins.
LEMMA RangesRequest ==
  ASSUME TypeInv, HostAssumption, Ranges, NEW t \in Threads, Request(t)
  PROVE  Ranges'
<1>1. PICK new : new = threads'[t]
  OBVIOUS
<1>2. Begun(t, new)
  BY <1>1, RequestFacts
<1> SUFFICES ASSUME seen' = {}
             PROVE  Ranges'
  BY DEF Ranges
<1>3. /\ \A u \in Threads : threads[u].phase = "idle"
      /\ \A u \in Threads : u # t => threads'[u] = threads[u]
      /\ rows' = rows /\ seen = {} /\ new.inserted = FALSE
  BY <1>2 DEF Begun
<1>4. \A u \in Threads : threads[u] = Idle
  BY <1>3, AllIdle
<1>5. \A u \in Threads : ~threads'[u].inserted
  BY <1>1, <1>3, <1>4, IdleFacts
<1>6. \A j \in ContainerKeys : Claims(j) => Fits(j, rows[j].base, rows[j].size)
  BY <1>3 DEF Ranges
<1>7. ASSUME NEW j \in ContainerKeys, Claims(j)'
      PROVE  Fits(j, rows[j].base, rows[j].size)'
  <2>1. PICK base, size : base = rows[j].base /\ size = rows[j].size
    OBVIOUS
  <2>2. Fits(j, base, size)
    BY <1>3, <1>6, <1>7, <2>1 DEF Claims
  <2>3. Fits(j, base, size)'
    BY <1>3, <2>2, FitsSame
  <2> QED
    BY <1>3, <2>1, <2>3 DEF Fits, Beside
<1> QED
  BY <1>5, <1>7 DEF Ranges

\* When it returns.
LEMMA RangesReturn ==
  ASSUME TypeInv, HostAssumption, ApartInv, Ranges, NEW t \in Threads, Return(t)
  PROVE  Ranges'
<1> SUFFICES ASSUME seen' = {}
             PROVE  Ranges'
  BY DEF Ranges
<1>1. PICK old : old = threads[t]
  OBVIOUS
<1>2. /\ rows' = rows /\ vols' = vols /\ seen' = seen
      /\ old.phase \in {"ok", "error"} /\ old.todo = <<>>
      /\ threads'[t] = Idle /\ \A u \in Threads : u # t => threads'[u] = threads[u]
  BY <1>1, ReturnEffects
<1>3. Alone /\ NoOrphan /\ Solo(old) /\ Neat(Rangeless(old)) /\ seen = {}
  BY <1>1, <1>2, RangesNeat
<1>4. \A u \in Threads : threads'[u] = Idle
  BY <1>1, <1>2, <1>3 DEF Alone, TypeInv, ThreadType
<1>5. \A u \in Threads : ~threads'[u].inserted
  BY <1>4, IdleFacts
<1>6. ASSUME NEW j \in ContainerKeys, Claims(j)
      PROVE  Fits(j, rows[j].base, rows[j].size)
  <2>1. CASE j # Rangeless(old)
    BY <1>3, <1>6, <2>1 DEF Neat
  <2>2. CASE j = Rangeless(old)
    <3>1. j # <<>>
      BY KeyFacts
    <3>2. old.kind \in Creates /\ old.inserted /\ old.k = j
      BY <2>2, <3>1 DEF Rangeless
    <3>3. ~Holds(old.todo, "setbase") /\ ~Holds(old.todo, "Delete") /\ ~Pending(old.todo, "remove", j)
      <4>1. DOMAIN old.todo = {}
        BY <1>2
      <4> QED
        BY <4>1 DEF Holds, Pending
    <3>4. CASE old.failed
      <4>1. j \notin DOMAIN rows
        BY <1>3, <3>2, <3>3, <3>4 DEF Solo, Undone
      <4> QED
        BY <1>6, <4>1 DEF Claims
    <3>5. CASE ~old.failed
      BY <1>1, <1>3, <3>2, <3>3, <3>5 DEF Ranges
    <3> QED
      BY <3>4, <3>5
  <2> QED
    BY <2>1, <2>2
<1>7. ASSUME NEW j \in ContainerKeys, Claims(j)'
      PROVE  Fits(j, rows[j].base, rows[j].size)'
  <2>1. PICK base, size : base = rows[j].base /\ size = rows[j].size
    OBVIOUS
  <2>2. Fits(j, base, size)
    BY <1>2, <1>6, <1>7, <2>1 DEF Claims
  <2>3. Fits(j, base, size)'
    BY <1>2, <2>2, FitsSame
  <2> QED
    BY <1>2, <2>1, <2>3 DEF Fits, Beside
<1> QED
  BY <1>5, <1>7 DEF Ranges

(* A step that leaves the rows, of the request that is served.               *)
LEMMA RangesStill ==
  ASSUME TypeInv, ApartInv, Ranges, seen = {}, NEW t \in Threads, threads[t].phase # "idle", Others(t),
         threads'[t].phase # "idle", rows' = rows, Rangeless(threads'[t]) = Rangeless(threads[t]),
         RangeOfMaking(threads[t])'
  PROVE  Ranges'
<1>1. PICK old, new : old = threads[t] /\ new = threads'[t]
  OBVIOUS
<1>2. Alone /\ Neat(Rangeless(old)) /\ Rangeless(new) = Rangeless(old)
  BY <1>1, RangesNeat
<1>3. ASSUME NEW j \in ContainerKeys, Claims(j)', j # Rangeless(new),
             NEW base, NEW size, base = rows'[j].base /\ size = rows'[j].size
      PROVE  Fits(j, base, size)'
  <2>1. Fits(j, base, size)
    BY <1>2, <1>3 DEF Neat, Claims
  <2> QED
    BY <2>1, FitsSame
<1>4. ASSUME NEW j \in ContainerKeys, Claims(j)', j = Rangeless(new)
      PROVE  \/ rows'[j].base = 0
             \/ \A base, size : base = rows'[j].base /\ size = rows'[j].size => Fits(j, base, size)'
  <2>1. rows[j].base = 0 \/ Fits(j, rows[j].base, rows[j].size)
    BY <1>4 DEF Ranges, Claims
  <2>2. ASSUME NEW base, NEW size, base = rows'[j].base /\ size = rows'[j].size,
               Fits(j, rows[j].base, rows[j].size)
        PROVE  Fits(j, base, size)'
    <3>1. Fits(j, base, size)
      BY <2>2
    <3> QED
      BY <3>1, FitsSame
  <2> QED
    BY <2>1, <2>2
<1> QED
  BY <1>1, <1>2, <1>3, <1>4, RangesSuffice

\* When a step fails.
LEMMA RangesFail ==
  ASSUME TypeInv, HostAssumption, Plans, ApartInv, Ranges, NEW t \in Threads, Refuse(t) \/ Fault(t)
  PROVE  Ranges'
<1> SUFFICES ASSUME seen' = {}
             PROVE  Ranges'
  BY DEF Ranges
<1>1. PICK old, new, s : old = threads[t] /\ new = threads'[t] /\ s = old.todo[1]
  OBVIOUS
<1>2. /\ Busy(t) /\ Fails(t) /\ rows' = rows /\ seen \subseteq seen' /\ s.do \notin Calls
  BY <1>1, FailEffects
<1>3. /\ new.kind = old.kind /\ new.k = old.k /\ new.inserted = old.inserted
      /\ new.failed = (old.failed \/ s.must) /\ Others(t) /\ new.phase # "idle"
  BY <1>1, <1>2, FailPlan DEF FailedOn, Others
<1>4. old.phase # "idle" /\ seen = {}
  BY <1>1, <1>2 DEF Busy
<1>5. Alone /\ Neat(Rangeless(old))
  BY <1>1, <1>4, RangesNeat
<1>6. Rangeless(new) = Rangeless(old)
  BY <1>3 DEF Rangeless
<1>7. RangeOfMaking(threads[t])'
  <2>1. old.kind \in Creates /\ ~old.failed => s.must
    BY <1>1, <1>2, NextStep
  <2>2. new.kind \in Creates => new.failed
    BY <1>3, <2>1, Zenon
  <2> QED
    BY <1>1, <2>2 DEF RangeOfMaking
<1> QED
  BY <1>1, <1>2, <1>3, <1>4, <1>6, <1>7, RangesStill

(* When a creation's range is written.                                       *)
LEMMA SetbaseNext ==
  ASSUME NEW th, Making(th), th.todo \in Seq(Steps), th.todo # <<>>
  PROVE  LET s == th.todo[1]
             rest == Tail(th.todo) IN
         /\ Holds(rest, "setbase") => Holds(th.todo, "setbase")
         /\ Holds(th.todo, "setbase") => Holds(rest, "setbase") \/ s.do = "setbase"
         /\ Holds(rest, "setbase") /\ rest[1].do = "setbase" => s.do = "findIdmap"
         /\ s.do = "insert" => Holds(rest, "setbase")
<1>1. PICK todo, rest : todo = th.todo /\ rest = Tail(todo)
  BY Zenon
<1>2. /\ \A i \in DOMAIN todo : /\ todo[i].do = "setbase" => i = 1 \/ todo[i - 1].do = "findIdmap"
                                /\ todo[i].do = "insert" => Holds(todo, "setbase")
  BY <1>1 DEF Making
<1>3. /\ Holds(rest, "setbase") => Holds(todo, "setbase")
      /\ Holds(todo, "setbase") => Holds(rest, "setbase") \/ todo[1].do = "setbase"
  BY <1>1, TailFacts
<1>4. 1 \in DOMAIN todo
  BY <1>1, TailSuffix
<1>5. ASSUME Holds(rest, "setbase"), rest[1].do = "setbase"
      PROVE  todo[1].do = "findIdmap"
  <2>1. /\ \A i \in DOMAIN rest : i + 1 \in DOMAIN todo /\ rest[i] = todo[i + 1]
        /\ DOMAIN rest = 1..Len(rest) /\ rest \in Seq(Steps)
    BY <1>1, TailRest
  <2>2. 1 \in DOMAIN rest
    BY <1>5, <2>1 DEF Holds
  <2>3. 1 + 1 = 2 /\ 2 - 1 = 1 /\ 2 # 1
    OBVIOUS
  <2>4. 2 \in DOMAIN todo /\ todo[2].do = "setbase"
    BY <1>5, <2>1, <2>2, <2>3
  <2> QED
    BY <1>2, <2>3, <2>4
<1>6. todo[1].do = "insert" => Holds(rest, "setbase")
  <2> HAVE todo[1].do = "insert"
  <2> QED
    BY <1>2, <1>3, <1>4
<1> QED
  BY <1>1, <1>3, <1>5, <1>6, Zenon

(* A creation goes on: it takes a range that nobody has.                     *)
LEMMA RangesMaking ==
  ASSUME TypeInv, HostAssumption, Plans, ApartInv, Ranges, NEW t \in Threads, Run(t),
         threads[t].kind \in Creates, ~threads[t].failed
  PROVE  Ranges'
<1> SUFFICES ASSUME seen' = {}
             PROVE  Ranges'
  BY DEF Ranges
<1>0. PICK old, new, s, k, rest : /\ old = threads[t] /\ new = threads'[t] /\ s = old.todo[1] /\ k = old.k
                                  /\ rest = Tail(old.todo)
  BY Zenon
<1>1. /\ Busy(t) /\ ~Refused(s, t) /\ s \in Steps /\ seen = {}
  BY <1>0, RunCommon, RunMarks
<1>2. /\ old.todo \in Seq(Steps) /\ old.todo # <<>> /\ k \in Keys /\ s.k = k
      /\ s.do \in {"check", "insert", "findIdmap", "setbase", "create", "copy"}
      /\ Making(old) /\ 1 \in DOMAIN old.todo
      /\ old.size \in Nat /\ old.inserted \in BOOLEAN
  BY <1>0, <1>1, NextStep, PlanFacts, ThreadFacts
<1>3. /\ RanOn(old, new, s, rest) /\ Others(t)
  <2>1. After(s, rest) = rest
    BY <1>2 DEF After, Calls
  <2> QED
    BY <1>0, <2>1, RunPlan DEF Others
<1>4. /\ new = threads'[t] /\ new.kind = old.kind /\ new.kind \in Creates /\ ~new.failed /\ new.k = k
      /\ new.size = old.size /\ new.todo = rest /\ new.inserted = (old.inserted \/ s.do = "insert")
      /\ new.base = IF s.do = "findIdmap" THEN findIdmap(k, old.size) ELSE old.base
      /\ new.phase # "idle"
  BY <1>0, <1>2, <1>3 DEF RanOn
<1>5. threads[t].phase # "idle"
  BY <1>1 DEF Busy
<1>6. Alone /\ Solo(old) /\ Neat(Rangeless(old))
  BY <1>0, <1>1, <1>5, RangesNeat
<1>7. /\ Holds(rest, "setbase") => Holds(old.todo, "setbase")
      /\ Holds(old.todo, "setbase") => Holds(rest, "setbase") \/ s.do = "setbase"
      /\ Holds(rest, "setbase") /\ rest[1].do = "setbase" => s.do = "findIdmap"
      /\ s.do = "insert" => Holds(rest, "setbase")
  BY <1>0, <1>2, SetbaseNext, Zenon
<1>8. /\ old.inserted => Rank(s) >= 2
      /\ ~old.inserted => Rank(s) \in {0, 1}
      /\ s.do = "insert" => Rank(s) = 1
      /\ s.do \in {"findIdmap", "setbase"} => Rank(s) = 2
      /\ Rank(s) \in 0..4
  BY <1>0, <1>2, MakingNext, RankFacts
<1>9. RangeOfMaking(old)
  BY <1>0, <1>1 DEF Ranges, RangeOfMaking
<1>10. Rangeless(old) = IF old.inserted THEN k ELSE <<>>
  BY <1>0, <1>4 DEF Rangeless
<1>11. CASE s.do \in {"check", "findIdmap", "create", "copy"}
  <2>1. rows' = rows
    BY <1>0, <1>11, RunOther, RunVolumes
  <2>2. new.inserted = old.inserted /\ Rangeless(new) = Rangeless(old)
    BY <1>0, <1>2, <1>4, <1>11 DEF Rangeless
  <2>3. RangeOfMaking(threads[t])'
    <3> SUFFICES ASSUME old.inserted, k \in ContainerKeys
                 PROVE  /\ Holds(rest, "setbase") =>
                             (rest[1].do = "setbase" =>
                                \A base, size : base = new.base /\ size = new.size => Fits(k, base, size)')
                        /\ ~Holds(rest, "setbase") =>
                             \A base, size : base = rows[k].base /\ size = rows[k].size => Fits(k, base, size)'
      <4> DEFINE B1 == \A base, size : base = new.base /\ size = new.size => Fits(k, base, size)'
                 B2 == \A base, size : base = rows[k].base /\ size = rows[k].size => Fits(k, base, size)'
      <4>1. B1 => Fits(k, new.base, new.size)'
        <5>1. B1 => \A base, size : base = new.base /\ size = new.size => Fits(k, base, size)'
          OBVIOUS
        <5> QED
          BY <5>1
      <4>2. B2 => Fits(k, rows[k].base, rows[k].size)'
        <5>1. PICK base, size : base = rows[k].base /\ size = rows[k].size
          OBVIOUS
        <5>2. B2 => Fits(k, base, size)'
          BY <5>1
        <5> QED
          BY <2>1, <5>1, <5>2 DEF Fits, Beside
      <4> QED
        BY <1>4, <2>1, <2>2, <4>1, <4>2 DEF RangeOfMaking
    <3>1. CASE Holds(rest, "setbase") /\ rest[1].do = "setbase"
      <4>1. s.do = "findIdmap" /\ new.base = findIdmap(k, old.size) /\ Neat(k)
        BY <1>4, <1>6, <1>7, <1>10, <3>1
      <4>2. findIdmap(k, old.size) # NoRange
        BY <1>0, <1>1, <1>2, <4>1, RefusedFacts
      <4>3. PICK b, z : b = findIdmap(k, z) /\ z = old.size
        OBVIOUS
      <4>4. Fits(k, b, z)
        BY <1>2, <4>1, <4>2, <4>3, FindFits
      <4>5. Fits(k, b, z)'
        BY <2>1, <4>4, FitsSame
      <4> QED
        BY <1>4, <3>1, <4>1, <4>3, <4>5
    <3>2. CASE ~Holds(rest, "setbase")
      <4>1. ~Holds(old.todo, "setbase")
        BY <1>7, <1>11, <3>2
      <4>2. Fits(k, rows[k].base, rows[k].size)
        BY <1>0, <1>4, <1>9, <4>1 DEF RangeOfMaking
      <4>3. ASSUME NEW base, NEW size, base = rows[k].base /\ size = rows[k].size
            PROVE  Fits(k, base, size)'
        <5>1. Fits(k, base, size)
          BY <4>2, <4>3
        <5> QED
          BY <2>1, <5>1, FitsSame
      <4> QED
        BY <3>2, <4>3
    <3> QED
      BY <3>1, <3>2
  <2>4. /\ Others(t) /\ threads'[t].phase # "idle" /\ Rangeless(threads'[t]) = Rangeless(threads[t])
        /\ seen = {}
    BY <1>0, <1>1, <1>3, <1>4, <2>2
  <2> QED
    BY <1>5, <2>1, <2>3, <2>4, RangesStill
<1>12. CASE s.do = "insert"
  <2>1. /\ k \notin DOMAIN rows /\ DOMAIN rows' = DOMAIN rows \cup {k}
        /\ rows'[k].base = 0
        /\ \A j \in DOMAIN rows : rows'[j] = rows[j]
    <3>1. /\ k \notin DOMAIN rows /\ DOMAIN rows' = DOMAIN rows \cup {k}
          /\ rows'[k] = [id |-> old.id, size |-> old.size, base |-> 0]
          /\ \A j \in DOMAIN rows : rows'[j] = rows[j]
      BY <1>0, <1>2, <1>12, RunInsert, Zenon
    <3> QED
      BY <3>1
  <2>2. ~old.inserted /\ new.inserted
    <3>1. Rank(s) = 1
      BY <1>8, <1>12
    <3>2. ~(Rank(s) >= 2)
      BY <3>1
    <3> QED
      BY <1>4, <1>8, <1>12, <3>2, Zenon
  <2>3. Neat(<<>>) /\ Rangeless(new) = k
    BY <1>4, <1>6, <1>10, <2>2 DEF Rangeless
  <2>4. ASSUME NEW j \in ContainerKeys, Claims(j)', j # k,
               NEW base, NEW size, base = rows'[j].base /\ size = rows'[j].size
        PROVE  Fits(j, base, size)'
    <3>1. Claims(j) /\ j # <<>> /\ base = rows[j].base /\ size = rows[j].size
      BY <2>1, <2>4, KeyFacts DEF Claims
    <3>2. Fits(j, base, size)
      BY <2>3, <3>1 DEF Neat
    <3>3. \A i \in ContainerKeys : Claims(i)' /\ i # j /\ rows'[i].base > 0 =>
           Claims(i) /\ rows'[i].base = rows[i].base /\ rows'[i].size = rows[i].size
      BY <2>1 DEF Claims
    <3> QED
      BY <3>2, <3>3, FitsKept
  <2>5. RangeOfMaking(threads[t])'
    <3>1. Holds(rest, "setbase") /\ rest[1].do # "setbase"
      BY <1>7, <1>12
    <3> QED
      BY <1>4, <3>1 DEF RangeOfMaking, Holds
  <2> QED
    BY <1>3, <1>4, <1>5, <1>6, <2>1, <2>3, <2>4, <2>5, RangesSuffice
<1>13. CASE s.do = "setbase"
  <2>1. old.inserted /\ new.inserted /\ new.base = old.base
    <3>1. Rank(s) = 2
      BY <1>8, <1>13
    <3>2. ~(Rank(s) \in {0, 1})
      BY <3>1
    <3> QED
      BY <1>4, <1>8, <1>13, <3>2, Zenon
  <2>2. /\ k \in DOMAIN rows /\ rows[k].id = old.id /\ rows[k].size = old.size
        /\ \A j \in DOMAIN rows : rows[j].id = old.id => j = k
    <3>1. Created(old) /\ OwnRows(old) /\ old.phase # "idle"
      BY <1>0, <1>5, <1>6 DEF Solo
    <3> QED
      BY <1>0, <1>4, <2>1, <3>1 DEF Created, OwnRows
  <2>3. /\ DOMAIN rows' = DOMAIN rows
        /\ \A j \in DOMAIN rows :
             /\ rows'[j].size = rows[j].size
             /\ rows'[j].base = IF j = k THEN old.base ELSE rows[j].base
    BY <1>0, <1>13, <2>2, RunSetbase
  <2>4. Neat(k) /\ Rangeless(new) = k
    BY <1>4, <1>6, <1>10, <2>1 DEF Rangeless
  <2>5. k \in ContainerKeys => Fits(k, old.base, old.size)
    <3>1. Holds(old.todo, "setbase")
      BY <1>0, <1>2, <1>13 DEF Holds
    <3> QED
      BY <1>0, <1>4, <1>9, <1>13, <2>1, <3>1 DEF RangeOfMaking
  <2>6. ASSUME NEW base, NEW size, base = old.base, size = old.size, k \in ContainerKeys
        PROVE  Fits(k, base, size)'
    <3>1. Fits(k, base, size)
      BY <2>5, <2>6
    <3>2. \A i \in ContainerKeys : Claims(i)' /\ i # k /\ rows'[i].base > 0 =>
           Claims(i) /\ rows'[i].base = rows[i].base /\ rows'[i].size = rows[i].size
      BY <2>3 DEF Claims
    <3> QED
      BY <3>1, <3>2, FitsKept
  <2>7. ASSUME NEW j \in ContainerKeys, Claims(j)', j # k,
               NEW base, NEW size, base = rows'[j].base /\ size = rows'[j].size
        PROVE  Fits(j, base, size)'
    <3>1. Claims(j) /\ base = rows[j].base /\ size = rows[j].size /\ size > 0
      BY <2>3, <2>7 DEF Claims
    <3>2. Fits(j, base, size)
      BY <2>4, <2>7, <3>1 DEF Neat
    <3>3. HostBase + DefaultSize <= base /\ base + size <= HostBase + HostRange
      BY <3>1, <3>2 DEF Fits
    <3>4. ASSUME NEW i \in ContainerKeys, Claims(i)', i # j, rows'[i].base > 0
          PROVE  Beside(i, base, size)'
      <4>1. CASE i # k
        <5>1. Claims(i) /\ rows'[i].base = rows[i].base /\ rows'[i].size = rows[i].size
          BY <2>3, <3>4, <4>1 DEF Claims
        <5>2. Beside(i, base, size)
          BY <3>1, <3>2, <3>4, <5>1 DEF Fits
        <5> QED
          BY <5>1, <5>2 DEF Beside
      <4>2. CASE i = k
        <5>1. rows'[k].base = old.base /\ rows'[k].size = old.size /\ old.size > 0
          BY <2>2, <2>3, <3>4, <4>2 DEF Claims
        <5>2. rows[j].base > 0
          <6>1. rows[j].base \in Nat /\ HostBase \in Nat /\ DefaultSize \in Nat \ {0}
            BY <3>1, HostAssumption DEF HostAssumption, Claims, TypeInv, RowSet
          <6> QED
            BY <3>1, <3>3, <6>1
        <5>3. Beside(j, old.base, old.size)
          BY <2>5, <2>7, <3>1, <3>4, <4>2, <5>1, <5>2 DEF Fits
        <5> QED
          BY <3>1, <4>2, <5>1, <5>3 DEF Beside
      <4> QED
        BY <4>1, <4>2
    <3> QED
      BY <3>3, <3>4 DEF Fits
  <2>8. RangeOfMaking(threads[t])'
    <3> SUFFICES ASSUME k \in ContainerKeys
                 PROVE  RangeOfMaking(threads[t])'
      BY <1>4 DEF RangeOfMaking
    <3>1. ~(Holds(rest, "setbase") /\ rest[1].do = "setbase")
      BY <1>7, <1>13
    <3>2. PICK base, size : base = old.base /\ size = old.size
      OBVIOUS
    <3>3. Fits(k, base, size)'
      BY <2>6, <3>2
    <3>4. Fits(threads[t].k, rows[threads[t].k].base, rows[threads[t].k].size)'
      <4>1. threads'[t].k = k /\ rows'[k].base = base /\ rows'[k].size = size
        BY <1>4, <2>2, <2>3, <3>2
      <4> QED
        BY <3>3, <4>1 DEF Fits, Beside
    <3> QED
      BY <1>4, <3>1, <3>4 DEF RangeOfMaking
  <2>9. ASSUME NEW j \in ContainerKeys, Claims(j)', j = k
        PROVE  \A base, size : base = rows'[j].base /\ size = rows'[j].size => Fits(j, base, size)'
    <3> TAKE base, size
    <3> HAVE base = rows'[j].base /\ size = rows'[j].size
    <3>1. base = old.base /\ size = old.size
      BY <2>2, <2>3, <2>9
    <3> QED
      BY <2>6, <2>9, <3>1
  <2> QED
    BY <1>3, <1>4, <1>5, <1>6, <2>4, <2>7, <2>8, <2>9, RangesSuffice
<1> QED
  BY <1>2, <1>11, <1>12, <1>13

(* Rows go: the ranges of the others stay their own.                         *)
LEMMA RangesDropping ==
  ASSUME TypeInv, HostAssumption, Plans, ApartInv, Ranges, NEW t \in Threads, Run(t),
         \/ threads[t].kind \in Creates /\ threads[t].failed
         \/ threads[t].kind = "delete"
  PROVE  Ranges'
<1> SUFFICES ASSUME seen' = {}
             PROVE  Ranges'
  BY DEF Ranges
<1>0. PICK old, new, s : /\ old = threads[t] /\ new = threads'[t] /\ s = old.todo[1]
  OBVIOUS
<1>1. /\ Busy(t) /\ seen = {} /\ threads[t].phase # "idle"
  BY <1>0, RunCommon, RunMarks DEF Busy
<1>2. Alone /\ NoOrphan /\ Solo(threads[t]) /\ Neat(Rangeless(old))
  BY <1>0, <1>1, RangesNeat
<1>3. /\ new.kind = old.kind /\ new.k = old.k /\ new.failed = old.failed /\ new.inserted = old.inserted
      /\ s.do = "remove" => DOMAIN rows' = DOMAIN rows \ {s.k}
      /\ s.do # "remove" => rows' = rows
  BY <1>0, <1>2, DroppingRuns, Zenon
<1>4. Others(t) /\ new.phase # "idle"
  <2>1. Others(t) /\ RanOn(old, new, s, After(s, Tail(old.todo)))
    BY <1>0, RunPlan DEF Others
  <2> QED
    BY <2>1 DEF RanOn
<1>5. RangeOfMaking(threads[t])'
  BY <1>0, <1>3 DEF RangeOfMaking, Creates
<1>6. Rangeless(new) = Rangeless(old)
  BY <1>3 DEF Rangeless
<1>7. CASE s.do # "remove"
  BY <1>0, <1>1, <1>3, <1>4, <1>5, <1>6, <1>7, RangesStill
<1>8. CASE s.do = "remove"
  <2>1. /\ DOMAIN rows' \subseteq DOMAIN rows /\ \A j \in DOMAIN rows' : rows'[j] = rows[j]
    BY <1>0, <1>8, RunRemove, Zenon
  <2>2. \A i \in ContainerKeys : Claims(i)' =>
           Claims(i) /\ rows'[i].base = rows[i].base /\ rows'[i].size = rows[i].size
    BY <2>1 DEF Claims
  <2>3. ASSUME NEW j \in ContainerKeys, Claims(j)', NEW base, NEW size, Fits(j, base, size)
        PROVE  Fits(j, base, size)'
    BY <2>2, <2>3, FitsKept
  <2>4. ASSUME NEW j \in ContainerKeys, Claims(j)', j # Rangeless(new),
               NEW base, NEW size, base = rows'[j].base /\ size = rows'[j].size
        PROVE  Fits(j, base, size)'
    <3>1. Fits(j, base, size)
      BY <1>2, <1>6, <2>2, <2>4 DEF Neat
    <3> QED
      BY <2>3, <2>4, <3>1
  <2>5. ASSUME NEW j \in ContainerKeys, Claims(j)', j = Rangeless(new)
        PROVE  \/ rows'[j].base = 0
               \/ \A base, size : base = rows'[j].base /\ size = rows'[j].size => Fits(j, base, size)'
    <3>1. rows[j].base = 0 \/ Fits(j, rows[j].base, rows[j].size)
      BY <1>1, <2>2, <2>5 DEF Ranges
    <3>2. ASSUME NEW base, NEW size, base = rows'[j].base /\ size = rows'[j].size,
                 Fits(j, rows[j].base, rows[j].size)
          PROVE  Fits(j, base, size)'
      <4>1. Fits(j, base, size)
        BY <2>2, <2>5, <3>2
      <4> QED
        BY <2>3, <2>5, <4>1
    <3> QED
      BY <2>2, <2>5, <3>1, <3>2
  <2> QED
    BY <1>0, <1>1, <1>2, <1>4, <1>5, <2>4, <2>5, RangesSuffice
<1> QED
  BY <1>7, <1>8

(* A container keeps its range under its new name.                           *)
LEMMA RangesRenaming ==
  ASSUME TypeInv, HostAssumption, Plans, ApartInv, Ranges, NEW t \in Threads, Run(t),
         threads[t].kind = "rename"
  PROVE  Ranges'
<1> SUFFICES ASSUME seen' = {}
             PROVE  Ranges'
  BY DEF Ranges
<1>0. PICK old, new, s : /\ old = threads[t] /\ new = threads'[t] /\ s = old.todo[1]
  OBVIOUS
<1>1. /\ Busy(t) /\ seen = {} /\ threads[t].phase # "idle"
  BY <1>0, RunCommon, RunMarks DEF Busy
<1>2. Alone /\ Neat(Rangeless(old))
  BY <1>0, <1>1, RangesNeat
<1>3. Others(t) /\ new.phase # "idle" /\ new.kind = "rename" /\ old.kind = "rename"
  <2>1. Others(t) /\ RanOn(old, new, s, After(s, Tail(old.todo)))
    BY <1>0, RunPlan DEF Others
  <2> QED
    BY <1>0, <2>1 DEF RanOn
<1>4. RangeOfMaking(threads[t])' /\ Rangeless(new) = <<>> /\ Rangeless(old) = <<>>
  BY <1>0, <1>3 DEF RangeOfMaking, Creates, Rangeless
<1>5. /\ s.do \in {"check", "move", "renamerow", "RenameSnapshots"} /\ s.k \in Keys /\ s.x \in Keys
      /\ s.do = "renamerow" => s.x = Renamed(s.k, Of(s.x))
  BY <1>0, <1>1, <1>3, NextStep
<1>6. CASE s.do # "renamerow"
  <2>1. rows' = rows
    BY <1>0, <1>5, <1>6, RunOther, RunVolumes DEF Calls
  <2> QED
    BY <1>0, <1>1, <1>3, <1>4, <2>1, RangesStill
<1>7. CASE s.do = "renamerow"
  <2>1. /\ s.x \notin DOMAIN rows
        /\ s.k \notin DOMAIN rows => rows' = rows
        /\ s.k \in DOMAIN rows =>
             /\ DOMAIN rows' = (DOMAIN rows \ {s.k}) \cup {s.x} /\ rows'[s.x] = rows[s.k] /\ s.x # s.k
             /\ \A j \in DOMAIN rows : j # s.k => rows'[j] = rows[j]
    BY <1>0, <1>7, RunRenamerow, Zenon
  <2>2. CASE s.k \notin DOMAIN rows
    BY <1>0, <1>1, <1>3, <1>4, <2>1, <2>2, RangesStill
  <2>3. CASE s.k \in DOMAIN rows
    <3>1. s.k \in ContainerKeys <=> s.x \in ContainerKeys
      <4>1. PICK n \in ContainerKeys : n = Of(s.x)
        BY <1>5, KeyFacts
      <4>2. IsSnapshot(s.x) <=> IsSnapshot(s.k)
        BY <1>5, <1>7, <4>1, RenamedFacts
      <4> QED
        BY <1>5, <4>2, KeyFacts
    <3> DEFINE was(j) == IF j = s.x THEN s.k ELSE j
    <3>2. \A j \in ContainerKeys : Claims(j)' =>
            /\ was(j) \in ContainerKeys /\ Claims(was(j)) /\ j # s.k /\ rows'[j] = rows[was(j)]
      BY <2>1, <2>3, <3>1 DEF Claims
    <3>3. \A i, j \in ContainerKeys : Claims(i)' /\ Claims(j)' /\ i # j => was(i) # was(j)
      BY <3>2
    <3> HIDE DEF was
    <3>4. ASSUME NEW j \in ContainerKeys, Claims(j)', NEW base, NEW size,
                 base = rows'[j].base /\ size = rows'[j].size
          PROVE  Fits(j, base, size)'
      <4>1. PICK i \in ContainerKeys : i = was(j) /\ Claims(i) /\ rows'[j] = rows[i]
        BY <3>2, <3>4
      <4>2. Fits(i, base, size)
        <5>1. i # <<>>
          BY KeyFacts
        <5> QED
          BY <1>2, <1>4, <3>4, <4>1, <5>1 DEF Neat
      <4>3. ASSUME NEW a \in ContainerKeys, Claims(a)', a # j, rows'[a].base > 0, size > 0
            PROVE  Beside(a, base, size)'
        <5>1. PICK b \in ContainerKeys : b = was(a) /\ Claims(b) /\ rows'[a] = rows[b]
          BY <3>2, <4>3
        <5>2. b # i
          BY <3>3, <3>4, <4>1, <4>3, <5>1
        <5>3. Beside(b, base, size)
          BY <4>2, <4>3, <5>1, <5>2 DEF Fits
        <5> QED
          BY <5>1, <5>3 DEF Beside
      <4> QED
        BY <4>2, <4>3 DEF Fits
    <3>5. \A j \in ContainerKeys : j # Rangeless(new)
      BY <1>4, KeyFacts
    <3> QED
      BY <1>0, <1>1, <1>2, <1>3, <1>4, <3>4, <3>5, RangesSuffice
  <2> QED
    BY <2>2, <2>3
<1> QED
  BY <1>6, <1>7

(* A restore gives another range, and is marked, or leaves the rows.         *)
LEMMA RangesRestoring ==
  ASSUME TypeInv, HostAssumption, Plans, ApartInv, Ranges, NEW t \in Threads, Run(t),
         threads[t].kind = "restore"
  PROVE  Ranges'
<1> SUFFICES ASSUME seen' = {}
             PROVE  Ranges'
  BY DEF Ranges
<1>0. PICK old, new, s : /\ old = threads[t] /\ new = threads'[t] /\ s = old.todo[1]
  OBVIOUS
<1>1. /\ Busy(t) /\ seen = {} /\ threads[t].phase # "idle"
  BY <1>0, RunCommon, RunMarks DEF Busy
<1>2. Others(t) /\ new.phase # "idle" /\ new.kind = "restore" /\ old.kind = "restore"
  <2>1. Others(t) /\ RanOn(old, new, s, After(s, Tail(old.todo)))
    BY <1>0, RunPlan DEF Others
  <2> QED
    BY <1>0, <2>1 DEF RanOn
<1>3. RangeOfMaking(threads[t])' /\ Rangeless(new) = <<>> /\ Rangeless(old) = <<>>
  BY <1>0, <1>2 DEF RangeOfMaking, Creates, Rangeless
<1>4. s.do \in {"check", "restore", "update"}
  BY <1>0, <1>1, <1>2, NextStep
<1>5. rows' = rows
  BY <1>0, <1>4, RunOther, RunUpdate
<1> QED
  BY <1>0, <1>1, <1>2, <1>3, <1>5, RangesStill

(* Whatever happens.                                                         *)
LEMMA NextRanges ==
  ASSUME TypeInv, HostAssumption, Plans, ApartInv, Ranges, [Next]_vars
  PROVE  Ranges'
<1>1. CASE \E t \in Threads : Request(t)
  BY <1>1, RangesRequest
<1>2. ASSUME NEW t \in Threads, Run(t)
      PROVE  Ranges'
  <2>1. CASE threads[t].kind \in Creates /\ ~threads[t].failed
    BY <1>2, <2>1, RangesMaking
  <2>2. CASE (threads[t].kind \in Creates /\ threads[t].failed) \/ threads[t].kind = "delete"
    BY <1>2, <2>2, RangesDropping
  <2>3. CASE threads[t].kind = "rename"
    BY <1>2, <2>3, RangesRenaming
  <2>4. CASE threads[t].kind = "restore"
    BY <1>2, <2>4, RangesRestoring
  <2>5. threads[t].kind \in Creates \cup {"delete", "rename", "restore"}
    BY PlanFacts
  <2> QED
    BY <2>1, <2>2, <2>3, <2>4, <2>5
<1>3. CASE \E t \in Threads : Refuse(t) \/ Fault(t)
  BY <1>3, RangesFail
<1>4. CASE \E t \in Threads : Return(t)
  BY <1>4, RangesReturn
<1>5. CASE Crash
  <2>1. seen' # {}
    BY <1>5, CrashEffects
  <2> QED
    BY <2>1 DEF Ranges
<1>6. CASE UNCHANGED vars
  <2>1. rows' = rows /\ threads' = threads /\ seen' = seen
    BY <1>6 DEF vars
  <2> QED
    BY <2>1 DEF Ranges, Claims, Fits, Beside
<1> QED
  BY <1>1, <1>2, <1>3, <1>4, <1>5, <1>6 DEF Next

(* Ranges that fit are disjoint.                                             *)
LEMMA RangesDisjoint ==
  ASSUME TypeInv, HostAssumption, Ranges
  PROVE  IsolatedDisjoint
<1> SUFFICES ASSUME seen = {}, NEW j \in Isolated, NEW k \in Isolated
             PROVE  /\ RangeOf(j) \subseteq (HostBase + DefaultSize)..(HostBase + HostRange - 1)
                    /\ j # k => RangeOf(j) \cap RangeOf(k) = {}
  BY DEF IsolatedDisjoint
<1>1. ASSUME NEW i \in Isolated
      PROVE  /\ i \in ContainerKeys /\ Claims(i) /\ rows[i].base > 0
             /\ rows[i].base \in Nat /\ rows[i].size \in Nat /\ rows[i].size > 0
             /\ Fits(i, rows[i].base, rows[i].size)
  <2>1. i \in DOMAIN rows /\ i \in Keys /\ ~IsSnapshot(i) /\ rows[i].size > 0 /\ rows[i].base > 0
    BY DEF Isolated, TypeInv
  <2>2. i \in ContainerKeys /\ Claims(i)
    BY <2>1, KeyFacts DEF Claims
  <2>3. rows[i].base \in Nat /\ rows[i].size \in Nat
    BY <2>1 DEF TypeInv, RowSet
  <2>4. Fits(i, rows[i].base, rows[i].size)
    BY <2>1, <2>2, <2>3 DEF Ranges
  <2> QED
    BY <2>1, <2>2, <2>3, <2>4
<1>2. HostBase \in Nat /\ HostRange \in Nat /\ DefaultSize \in Nat
  BY HostAssumption DEF HostAssumption
<1>3. PICK a \in Nat, b \in Nat, c \in Nat, d \in Nat :
        a = rows[j].base /\ b = rows[j].size /\ c = rows[k].base /\ d = rows[k].size
  BY <1>1
<1>4. RangeOf(j) = a..(a + b - 1) /\ RangeOf(k) = c..(c + d - 1)
  BY <1>3 DEF RangeOf
<1>5. b > 0 /\ HostBase + DefaultSize <= a /\ a + b <= HostBase + HostRange
  BY <1>1, <1>3 DEF Fits
<1>6. j # k => a + b <= c \/ c + d <= a
  <2> HAVE j # k
  <2>1. Beside(k, a, b)
    BY <1>1, <1>3 DEF Fits
  <2> QED
    BY <1>3, <2>1 DEF Beside
<1>7. RangeOf(j) \subseteq (HostBase + DefaultSize)..(HostBase + HostRange - 1)
  BY <1>2, <1>4, <1>5
<1>8. j # k => RangeOf(j) \cap RangeOf(k) = {}
  BY <1>4, <1>6
<1> QED
  BY <1>7, <1>8
-----------------------------------------------------------------------------
(* Snapshots have their container.                                           *)

\* What a snapshot's row has, when only one request is served.
Near(th, x) ==
  /\ Of(x) \in DOMAIN rows \/ LeavingBy(th, x)
  /\ x \in DOMAIN vols \/ LeavingBy(th, x) \/ UnfinishedBy(th, x)

(* An idle thread keeps no snapshot from its container.                      *)
LEMMA SnapIdle ==
  /\ \A x : ~LeavingBy(Idle, x) /\ ~UnfinishedBy(Idle, x) /\ ~LeavingBy(Idle, x)' /\ ~UnfinishedBy(Idle, x)'
  /\ SnapThread(Idle) /\ SnapThread(Idle)'
<1>1. Idle.phase = "idle" /\ Idle.todo = <<>> /\ Idle.kind = "none" /\ Idle.inserted = FALSE
  BY IdleFacts
<1>2. (Idle.phase = "idle" /\ Idle.todo = <<>> /\ Idle.kind = "none" /\ Idle.inserted = FALSE)'
  BY DEF Idle
<1>3. \A x : ~LeavingBy(Idle, x) /\ ~UnfinishedBy(Idle, x)
  BY <1>1 DEF LeavingBy, UnfinishedBy, Past
<1>4. \A x : ~LeavingBy(Idle, x)' /\ ~UnfinishedBy(Idle, x)'
  BY <1>2 DEF LeavingBy, UnfinishedBy, Past
<1>5. SnapThread(Idle)
  BY <1>1 DEF SnapThread, SnapMaking, SnapDeleting, SnapRenaming
<1>6. SnapThread(Idle)'
  BY <1>2 DEF SnapThread, SnapMaking, SnapDeleting, SnapRenaming
<1> QED
  BY <1>3, <1>4, <1>5, <1>6

(* One request is served: what holds of the snapshots has to do with it only. *)
LEMMA SnapAlone ==
  ASSUME TypeInv, Alone, SnapInv, Apart, harm = 0, NEW t \in Threads, threads[t].phase # "idle"
  PROVE  /\ "stuck" \notin seen /\ SnapThread(threads[t])
         /\ \A x \in DOMAIN rows : IsSnapshot(x) => Near(threads[t], x)
<1>1. \A u \in Threads : u # t => threads[u] = Idle
  BY ThreadFacts DEF Alone, ThreadType
<1>2. \A u \in Threads : \A x : u # t => ~LeavingBy(threads[u], x) /\ ~UnfinishedBy(threads[u], x)
  BY <1>1, SnapIdle
<1>3. \A x \in DOMAIN rows : IsSnapshot(x) => Belongs(x)
  BY DEF SnapInv
<1>4. \A x \in DOMAIN rows : IsSnapshot(x) => Near(threads[t], x)
  BY <1>2, <1>3 DEF Belongs, Near
<1> QED
  BY <1>4 DEF SnapInv

(* After a step of t it is enough to look at what t leaves.                  *)
LEMMA SnapSuffices ==
  ASSUME TypeInv, Alone, NEW t \in Threads, threads[t].phase # "idle", Others(t), "stuck" \notin seen',
         SnapThread(threads[t])',
         \A x \in DOMAIN rows' : IsSnapshot(x) => Near(threads[t], x)'
  PROVE  SnapInv'
<1>1. \A x \in DOMAIN rows' : IsSnapshot(x) => Belongs(x)'
  BY DEF Belongs, Near
<1>2. \A u \in Threads : u # t => threads'[u] = Idle
  BY AloneFacts
<1>3. \A u \in Threads : SnapThread(threads[u])'
  <2> SUFFICES ASSUME NEW u \in Threads, u # t PROVE SnapThread(threads[u])'
    OBVIOUS
  <2>1. threads'[u] = Idle
    BY <1>2
  <2> QED
    BY <2>1, SnapIdle DEF SnapThread, SnapMaking, SnapDeleting, SnapRenaming, Idle
<1> QED
  BY <1>1, <1>3 DEF SnapInv

(* When all are idle a snapshot has its container and its volume.            *)
LEMMA SnapQuiet ==
  ASSUME TypeInv, SnapInv, Apart, harm = 0, \A u \in Threads : threads[u].phase = "idle"
  PROVE  \A x \in DOMAIN rows : IsSnapshot(x) => Of(x) \in DOMAIN rows /\ x \in DOMAIN vols
<1>1. \A u \in Threads : threads[u] = Idle
  BY AllIdle
<1>2. \A u \in Threads : \A x : ~LeavingBy(threads[u], x) /\ ~UnfinishedBy(threads[u], x)
  BY <1>1, SnapIdle
<1> QED
  BY <1>2 DEF SnapInv, Belongs

(* A request is taken up.                                                    *)
LEMMA SnapRequest ==
  ASSUME TypeInv, HostAssumption, SnapInv, NEW t \in Threads, Request(t)
  PROVE  SnapInv'
<1> SUFFICES ASSUME Apart', harm' = 0 PROVE SnapInv'
  BY DEF SnapInv
<1>0. PICK new : new = threads'[t]
  OBVIOUS
<1>1. Begun(t, new) /\ Asked(new)
  BY <1>0, RequestFacts
<1>2. /\ Apart /\ harm = 0 /\ \A u \in Threads : threads[u].phase = "idle"
      /\ rows' = rows /\ vols' = vols /\ "stuck" \notin seen'
  <2>1. Apart /\ harm = 0 /\ rows' = rows /\ vols' = vols
    BY <1>1 DEF Begun, Apart
  <2>2. "stuck" \notin seen
    BY <2>1 DEF SnapInv
  <2> QED
    BY <1>1, <2>1, <2>2 DEF Begun, Apart
<1>3. \A x \in DOMAIN rows : IsSnapshot(x) => Of(x) \in DOMAIN rows /\ x \in DOMAIN vols
  BY <1>2, SnapQuiet
<1>4. \A x \in DOMAIN rows' : IsSnapshot(x) => Belongs(x)'
  BY <1>2, <1>3 DEF Belongs
<1>5. \A c : c \notin DOMAIN rows => SnapshotsOf(c)' = {}
  BY <1>2, <1>3 DEF SnapshotsOf
<1>6. new = threads'[t] /\ new.inserted = FALSE /\ new.failed = FALSE
  BY <1>0, <1>1 DEF Begun
<1>7. SnapMaking(threads[t])'
  BY <1>1, <1>2, <1>6 DEF SnapMaking, Asked
<1>8. SnapDeleting(threads[t])'
  BY <1>1, <1>6 DEF SnapDeleting, Asked
<1>9. SnapRenaming(threads[t])'
  <2> SUFFICES ASSUME new.kind = "rename", NEW i \in DOMAIN new.todo
               PROVE  LET step == new.todo[i] IN
                      /\ step.do = "move" => step.k \in DOMAIN rows' /\ SnapshotsOf(step.x)' = {}
                      /\ step.do = "renamerow" =>
                           /\ step.k \in DOMAIN rows' /\ step.x \notin DOMAIN rows'
                           /\ IsSnapshot(step.k) => Of(step.x) \in DOMAIN rows'
                      /\ step.do = "RenameSnapshots" => SnapshotsOf(step.x)' = {} /\ (i = 1 => step.x \in DOMAIN rows')
    BY <1>6 DEF SnapRenaming, SnapshotsOf
  <2>1. PICK n \in ContainerKeys :
          n \notin DOMAIN rows /\ \A j \in DOMAIN new.todo : new.todo[j].do # "check" => new.todo[j].x = n
    BY <1>1 DEF Asked
  <2>2. new.k \in ContainerKeys /\ new.k \in DOMAIN rows /\ new.todo[1].do = "check" /\ Len(new.todo) = 4
        /\ new.todo \in Seq(Steps) /\ RenamingPlan(new)
    BY <1>1 DEF Asked, PlanInv
  <2>3. DOMAIN new.todo = 1..4
    BY <2>2
  <2>4. new.todo[i].do = "move" => new.todo[i].k = new.k
    BY <2>2 DEF RenamingPlan
  <2>5. new.todo[i].do = "renamerow" => new.todo[i].k = new.k
    <3>1. \E j \in DOMAIN new.todo : new.todo[j].do = "move" /\ j = 2
      BY <2>2, <2>3 DEF RenamingPlan
    <3>2. /\ new.todo[2].do = "move" /\ new.todo[3].do = "renamerow" /\ new.todo[3].k = new.k
          /\ new.todo[4].do = "RenameSnapshots"
      <4>1. \A j \in DOMAIN new.todo : new.todo[j].do = "move" =>
              new.todo[j + 1].do = "renamerow" /\ new.todo[j + 1].k = new.k /\ new.todo[j + 2].do = "RenameSnapshots"
        BY <2>2 DEF RenamingPlan
      <4> QED
        BY <2>3, <3>1, <4>1
    <3> QED
      BY <2>2, <2>3, <3>2
  <2>6. ~IsSnapshot(new.k)
    BY <2>2, KeyFacts
  <2>7. new.todo[1].do # "RenameSnapshots"
    BY <2>2
  <2> QED
    BY <1>2, <1>5, <2>1, <2>2, <2>4, <2>5, <2>6, <2>7
<1>10. \A u \in Threads : SnapThread(threads[u])'
  <2>1. SnapThread(threads[t])'
    BY <1>7, <1>8, <1>9 DEF SnapThread
  <2>2. \A u \in Threads : u # t => threads'[u] = Idle
    <3>1. \A u \in Threads : threads[u] = Idle
      BY <1>2, AllIdle
    <3> QED
      BY <1>1, <3>1 DEF Begun
  <2>3. \A u \in Threads : u # t => SnapThread(threads[u])'
    BY <2>2, SnapIdle DEF SnapThread, SnapMaking, SnapDeleting, SnapRenaming, Idle
  <2> QED
    BY <2>1, <2>3
<1> QED
  BY <1>2, <1>4, <1>10 DEF SnapInv

(* A request is answered.                                                    *)
LEMMA SnapReturn ==
  ASSUME TypeInv, Plans, ApartInv, SnapInv, NEW t \in Threads, Return(t)
  PROVE  SnapInv'
<1> SUFFICES ASSUME Apart', harm' = 0 PROVE SnapInv'
  BY DEF SnapInv
<1>0. PICK old : old = threads[t]
  OBVIOUS
<1>1. /\ rows' = rows /\ vols' = vols /\ harm' = harm /\ seen' = seen /\ Others(t)
      /\ old.phase \in {"ok", "error"} /\ old.todo = <<>> /\ threads'[t] = Idle
  BY <1>0, ReturnEffects DEF Others
<1>2. Alone /\ Apart /\ harm = 0 /\ old.phase # "idle"
  BY <1>1 DEF ApartInv, Apart
<1>3. "stuck" \notin seen /\ \A x \in DOMAIN rows : IsSnapshot(x) => Near(old, x)
  BY <1>0, <1>2, SnapAlone
<1>4. \A x : ~LeavingBy(old, x) /\ ~UnfinishedBy(old, x)
  BY <1>1 DEF LeavingBy, UnfinishedBy, Past, Pending
<1>5. \A x \in DOMAIN rows' : IsSnapshot(x) => Near(threads[t], x)'
  BY <1>1, <1>3, <1>4 DEF Near
<1>6. SnapThread(threads[t])'
  BY <1>1, SnapIdle DEF SnapThread, SnapMaking, SnapDeleting, SnapRenaming, Idle
<1> QED
  BY <1>0, <1>1, <1>2, <1>3, <1>5, <1>6, SnapSuffices

(* A creation that fails takes its row back before it ends.                  *)
LEMMA SnapMakingFails ==
  ASSUME TypeInv, Plans, ApartInv, SnapInv, ApartInv', Apart', harm' = 0, "stuck" \notin seen',
         NEW t \in Threads, Refuse(t), Apart, harm = 0, threads[t].kind \in Creates
  PROVE  SnapThread(threads[t])' /\ \A x \in DOMAIN rows' : IsSnapshot(x) => Near(threads[t], x)'
<1>0. PICK old, new, s : old = threads[t] /\ new = threads'[t] /\ s = old.todo[1]
  OBVIOUS
<1>1. Busy(t) /\ Fails(t) /\ rows' = rows /\ vols' = vols /\ s.do \notin Calls /\ s \in Steps
  BY <1>0, FailEffects
<1>2. FailedOn(old, new, s, new.todo) /\ Others(t) /\ (s.must => new.todo = s.undo) /\ s.must \in BOOLEAN
  BY <1>0, <1>1, FailPlan DEF Others
<1>3. /\ new = threads'[t] /\ new.kind = old.kind /\ new.k = old.k /\ new.inserted = old.inserted
      /\ new.phase = (IF new.todo # <<>> THEN "busy" ELSE IF new.failed THEN "error" ELSE "ok")
      /\ new.failed = (old.failed \/ s.must) /\ old.kind \in Creates
  BY <1>0, <1>2 DEF FailedOn
<1>4. old.failed \in BOOLEAN /\ old.inserted \in BOOLEAN /\ old.todo # <<>> /\ old.todo \in Seq(Steps)
      /\ old.phase = "busy"
  BY <1>0, <1>1, ThreadFacts, NextStep DEF Busy
<1>5. new.failed
  <2>1. CASE old.failed
    BY <1>3, <2>1, Zenon
  <2>2. CASE ~old.failed
    <3>1. s.must
      BY <1>0, <1>1, <1>3, <2>2, NextStep
    <3> QED
      BY <1>3, <3>1, Zenon
  <2> QED
    BY <2>1, <2>2
<1>6. Alone /\ SnapThread(old) /\ \A x \in DOMAIN rows : IsSnapshot(x) => Near(old, x)
  <2>1. Alone /\ threads[t].phase # "idle"
    BY <1>1 DEF ApartInv, Busy
  <2> QED
    BY <1>0, <2>1, SnapAlone
<1>7. ~Past(old)
  BY <1>3 DEF Past, Creates
<1>8. ASSUME NEW x \in DOMAIN rows', IsSnapshot(x)
      PROVE  Near(threads[t], x)'
  <2>1. Of(x) \in DOMAIN rows /\ (x \in DOMAIN vols \/ (old.inserted /\ old.k = x))
    <3>1. Near(old, x)
      BY <1>1, <1>6, <1>8
    <3> QED
      BY <1>3, <1>7, <3>1 DEF Near, LeavingBy, UnfinishedBy, Creates
  <2>2. CASE x \in DOMAIN vols
    BY <1>1, <2>1, <2>2 DEF Near
  <2>3. CASE old.inserted /\ old.k = x /\ new.todo # <<>>
    <3>1. new.phase = "busy"
      BY <1>3, <2>3
    <3> QED
      BY <1>1, <1>3, <2>1, <2>3, <3>1 DEF Near, UnfinishedBy
  <2>4. CASE old.inserted /\ old.k = x /\ new.todo = <<>>
    <3>1. Undone(threads[t])'
      BY DEF ApartInv, Solo
    <3>2. \A do, k : ~Pending(new.todo, do, k) /\ ~Holds(new.todo, do)
      BY <2>4 DEF Pending, Holds
    <3>3. new.k \notin DOMAIN rows'
      BY <1>3, <1>5, <2>4, <3>1, <3>2 DEF Undone
    <3> QED
      BY <1>1, <1>3, <1>8, <2>4, <3>3
  <2> QED
    BY <2>1, <2>2, <2>3, <2>4
<1>9. new.todo # <<>> => new.inserted
  <2>1. CASE old.failed
    BY <1>3, <1>4, <1>6, <2>1 DEF SnapThread, SnapMaking
  <2>2. CASE ~old.failed
    <3>1. Making(old) /\ s.undo \in MakingUndo(s) /\ s.must
      BY <1>0, <1>1, <1>3, <2>2, NextStep, PlanFacts
    <3>2. ~old.inserted => Rank(s) \in {0, 1}
      BY <1>0, <1>4, <3>1, MakingNext
    <3>3. ~old.inserted => s.undo = <<>>
      BY <3>1, <3>2 DEF MakingUndo
    <3> QED
      BY <1>2, <1>3, <3>1, <3>3
  <2> QED
    BY <2>1, <2>2
<1>10. SnapThread(threads[t])'
  <2>1. SnapMaking(threads[t])'
    <3>1. SnapMaking(old)
      BY <1>6 DEF SnapThread
    <3>2. \A k : SnapshotsOf(k)' = SnapshotsOf(k)
      BY <1>1 DEF SnapshotsOf
    <3>3. old.phase # "idle"
      BY <1>4
    <3>4. (old.kind = "snapshot" => Of(old.k) \in DOMAIN rows) /\
          (old.kind # "snapshot" /\ old.inserted => SnapshotsOf(old.k) = {})
      BY <1>3, <3>1, <3>3 DEF SnapMaking
    <3> QED
      BY <1>1, <1>3, <1>9, <3>2, <3>4 DEF SnapMaking, SnapshotsOf
  <2>2. SnapDeleting(threads[t])' /\ SnapRenaming(threads[t])'
    BY <1>3 DEF SnapDeleting, SnapRenaming, Creates
  <2> QED
    BY <2>1, <2>2 DEF SnapThread
<1> QED
  BY <1>8, <1>10

(* A snapshot that is not there has not to be deleted.                       *)
LEMMA SnapDeletingFails ==
  ASSUME TypeInv, Plans, ApartInv, SnapInv, NEW t \in Threads, Refuse(t), Apart, harm = 0,
         threads[t].kind = "delete"
  PROVE  SnapThread(threads[t])' /\ \A x \in DOMAIN rows' : IsSnapshot(x) => Near(threads[t], x)'
<1>0. PICK old, new, s : old = threads[t] /\ new = threads'[t] /\ s = old.todo[1]
  OBVIOUS
<1>1. Busy(t) /\ Fails(t) /\ rows' = rows /\ vols' = vols /\ s.do \notin Calls /\ s \in Steps
  BY <1>0, FailEffects
<1>2. FailedOn(old, new, s, new.todo) /\ (s.must => new.todo = s.undo) /\ s.must \in BOOLEAN
      /\ new.todo \in Seq(Steps)
      /\ (~s.must => /\ Suffix(new.todo, old.todo, s.skip + 1)
                     /\ (s.do = "destroy" /\ s.skip = 1) \/ (s.do = "remove" /\ s.skip = 0))
  BY <1>0, <1>1, FailPlan
<1>3. new = threads'[t] /\ new.kind = "delete" /\ new.k = old.k /\ old.kind = "delete"
  BY <1>0, <1>2 DEF FailedOn
<1>4. old.todo # <<>> /\ old.todo \in Seq(Steps) /\ Deleting(old) /\ s.undo = <<>> /\ 1 \in DOMAIN old.todo
      /\ s.do \in {"Delete", "containerDeleteSnapshots", "destroy", "remove"}
  BY <1>0, <1>1, <1>3, NextStep, PlanFacts
<1>5. s.do = "remove" /\ s.k \notin DOMAIN rows
  <2>1. Refused(s, t)
    BY <1>0, <1>1, NextStep DEF Refuse
  <2> QED
    BY <1>1, <1>4, <2>1, RefusedFacts DEF Calls
<1>6. Alone /\ SnapThread(old) /\ \A x \in DOMAIN rows : IsSnapshot(x) => Near(old, x)
  <2>1. Alone /\ threads[t].phase # "idle"
    BY <1>1 DEF ApartInv, Busy
  <2> QED
    BY <1>0, <2>1, SnapAlone
<1>7. \A x \in DOMAIN rows : Pending(old.todo, "remove", x) => Pending(new.todo, "remove", x)
  <2> SUFFICES ASSUME NEW x \in DOMAIN rows, Pending(old.todo, "remove", x)
               PROVE  Pending(new.todo, "remove", x)
    OBVIOUS
  <2>1. CASE s.must
    <3>1. DOMAIN old.todo = 1..Len(old.todo) /\ Len(old.todo) \in Nat
      BY <1>4
    <3>2. Len(old.todo) = 1
      <4>1. \A i \in DOMAIN old.todo : i < Len(old.todo) /\ old.todo[i].do = "remove" => ~old.todo[i].must
        BY <1>4 DEF Deleting
      <4>2. ~(1 < Len(old.todo))
        BY <1>0, <1>4, <1>5, <2>1, <4>1
      <4>3. PICK n \in Nat : n = Len(old.todo)
        BY <3>1
      <4>4. 1 <= n /\ ~(1 < n)
        BY <1>4, <3>1, <4>2, <4>3
      <4>5. n = 1
        BY <4>4
      <4> QED
        BY <4>3, <4>5, Zenon
    <3> QED
      BY <1>0, <1>5, <3>1, <3>2 DEF Pending
  <2>2. CASE ~s.must
    <3>1. Suffix(new.todo, old.todo, 1)
      <4>1. s.skip = 0
        BY <1>2, <1>5, <2>2
      <4> QED
        BY <1>2, <2>2, <4>1
    <3>2. \/ Pending(new.todo, "remove", x)
          \/ \E j \in DOMAIN old.todo : j <= 1 /\ old.todo[j].do = "remove" /\ old.todo[j].k = x
      BY <1>2, <1>4, <3>1, LeftFacts
    <3>3. \A j \in DOMAIN old.todo : j <= 1 => j = 1
      BY <1>4
    <3> QED
      BY <1>0, <1>5, <3>2, <3>3
  <2> QED
    BY <1>2, <2>1, <2>2
<1>8. ~s.must /\ Holds(old.todo, "containerDeleteSnapshots") => Holds(new.todo, "containerDeleteSnapshots")
  <2> SUFFICES ASSUME ~s.must, Holds(old.todo, "containerDeleteSnapshots")
               PROVE  Holds(new.todo, "containerDeleteSnapshots")
    OBVIOUS
  <2>1. Suffix(new.todo, old.todo, 1)
    <3>1. s.skip = 0
      BY <1>2, <1>5
    <3> QED
      BY <1>2, <3>1
  <2>2. \/ Holds(new.todo, "containerDeleteSnapshots")
        \/ \E j \in DOMAIN old.todo : j <= 1 /\ old.todo[j].do = "containerDeleteSnapshots"
    BY <1>2, <1>4, <2>1, LeftFacts
  <2>3. \A j \in DOMAIN old.todo : j <= 1 => j = 1
    BY <1>4
  <2> QED
    BY <1>0, <1>5, <2>2, <2>3
<1>9. ASSUME NEW x \in DOMAIN rows', IsSnapshot(x)
      PROVE  Near(threads[t], x)'
  <2>1. Near(old, x)
    BY <1>1, <1>6, <1>9
  <2>2. Of(x) \in DOMAIN rows /\ (x \in DOMAIN vols \/ Pending(old.todo, "remove", x))
    BY <1>3, <2>1 DEF Near, LeavingBy, UnfinishedBy, Past, Creates
  <2> QED
    BY <1>1, <1>3, <1>7, <1>9, <2>2 DEF Near, UnfinishedBy
<1>10. SnapThread(threads[t])'
  <2>1. SnapMaking(threads[t])' /\ SnapRenaming(threads[t])'
    BY <1>3 DEF SnapMaking, SnapRenaming, Creates
  <2>2. SnapDeleting(old)
    BY <1>6 DEF SnapThread
  <2>3. s.must => new.todo = <<>>
    BY <1>2, <1>4
  <2>4. \A x \in SnapshotsOf(old.k) : x \in DOMAIN rows
    BY DEF SnapshotsOf
  <2>5. ASSUME new.todo # <<>>, old.k \in ContainerKeys, NEW x \in SnapshotsOf(old.k)
        PROVE  Holds(new.todo, "containerDeleteSnapshots") \/ Pending(new.todo, "remove", x)
    BY <1>2, <1>3, <1>4, <1>7, <1>8, <2>2, <2>3, <2>4, <2>5 DEF SnapDeleting
  <2>6. SnapDeleting(threads[t])'
    BY <1>1, <1>3, <2>5 DEF SnapDeleting, SnapshotsOf
  <2> QED
    BY <2>1, <2>6 DEF SnapThread
<1> QED
  BY <1>9, <1>10

(* A rename is only refused before it has begun, a restore changes no names. *)
LEMMA SnapOtherFails ==
  ASSUME TypeInv, Plans, ApartInv, SnapInv, NEW t \in Threads, Refuse(t), Apart, harm = 0,
         threads[t].kind \in {"rename", "restore"}
  PROVE  SnapThread(threads[t])' /\ \A x \in DOMAIN rows' : IsSnapshot(x) => Near(threads[t], x)'
<1>0. PICK old, new, s : old = threads[t] /\ new = threads'[t] /\ s = old.todo[1]
  OBVIOUS
<1>1. Busy(t) /\ Fails(t) /\ rows' = rows /\ vols' = vols /\ s.do \notin Calls /\ s \in Steps
  BY <1>0, FailEffects
<1>2. FailedOn(old, new, s, new.todo) /\ (s.must => new.todo = s.undo)
  BY <1>0, <1>1, FailPlan
<1>3. new = threads'[t] /\ new.kind = old.kind /\ old.kind \in {"rename", "restore"}
  BY <1>0, <1>2 DEF FailedOn
<1>4. s.must /\ s.undo = <<>> /\ 1 \in DOMAIN old.todo
      /\ (old.kind = "rename" => s.do \in {"check", "move", "renamerow", "RenameSnapshots"})
  BY <1>0, <1>1, <1>3, NextStep
<1>5. new.todo = <<>> /\ DOMAIN new.todo = {}
  BY <1>2, <1>4
<1>6. Alone /\ SnapThread(old) /\ \A x \in DOMAIN rows : IsSnapshot(x) => Near(old, x)
  <2>1. Alone /\ threads[t].phase # "idle"
    BY <1>1 DEF ApartInv, Busy
  <2> QED
    BY <1>0, <2>1, SnapAlone
<1>7. ~Past(old)
  <2> SUFFICES ASSUME Past(old) PROVE FALSE
    OBVIOUS
  <2>1. old.kind = "rename" /\ s.do = "renamerow"
    BY <1>0, <1>1 DEF Past, Calls
  <2>2. Refused(s, t)
    BY <1>0, <1>1, NextStep DEF Refuse
  <2>3. s.x \in DOMAIN rows
    BY <2>1, <2>2, RefusedFacts
  <2>4. SnapRenaming(old)
    BY <1>6 DEF SnapThread
  <2> QED
    BY <1>0, <1>4, <2>1, <2>3, <2>4 DEF SnapRenaming
<1>8. \A x \in DOMAIN rows' : IsSnapshot(x) => Near(threads[t], x)'
  <2> SUFFICES ASSUME NEW x \in DOMAIN rows', IsSnapshot(x) PROVE Near(threads[t], x)'
    OBVIOUS
  <2>1. Near(old, x)
    BY <1>1, <1>6
  <2> QED
    BY <1>1, <1>3, <1>7, <2>1 DEF Near, LeavingBy, UnfinishedBy, Creates
<1>9. SnapThread(threads[t])'
  BY <1>3, <1>5 DEF SnapThread, SnapMaking, SnapDeleting, SnapRenaming, Creates
<1> QED
  BY <1>8, <1>9

(* Whatever fails.                                                           *)
LEMMA SnapFails ==
  ASSUME TypeInv, Plans, ApartInv, SnapInv, ApartInv', NEW t \in Threads, Refuse(t) \/ Fault(t)
  PROVE  SnapInv'
<1> SUFFICES ASSUME Apart', harm' = 0 PROVE SnapInv'
  BY DEF SnapInv
<1>1. Busy(t) /\ Fails(t) /\ seen \subseteq seen' /\ harm' >= harm /\ threads[t].todo[1].do \notin Calls
  BY FailEffects
<1>2. harm \in Nat
  BY HostAssumption DEF TypeInv, HostAssumption
<1>3. Refuse(t) /\ harm = 0 /\ seen' = seen
  <2>1. ~Fault(t)
    BY <1>2 DEF Fault
  <2> QED
    BY <1>1, <1>2, <2>1 DEF Refuse
<1>4. Apart /\ Alone
  BY <1>1 DEF ApartInv, Apart
<1>5. threads[t].phase # "idle" /\ Others(t)
  BY <1>1, FailPlan DEF Busy, Others
<1>6. "stuck" \notin seen'
  BY <1>3, <1>4, <1>5, SnapAlone
<1>7. SnapThread(threads[t])' /\ \A x \in DOMAIN rows' : IsSnapshot(x) => Near(threads[t], x)'
  <2>1. CASE threads[t].kind \in Creates
    BY <1>3, <1>4, <1>6, <2>1, SnapMakingFails
  <2>2. CASE threads[t].kind = "delete"
    BY <1>3, <1>4, <2>2, SnapDeletingFails
  <2>3. CASE threads[t].kind \in {"rename", "restore"}
    BY <1>3, <1>4, <2>3, SnapOtherFails
  <2> QED
    BY <2>1, <2>2, <2>3, PlanFacts
<1> QED
  BY <1>4, <1>5, <1>6, <1>7, SnapSuffices

(* A creation goes on: a snapshot has its container, and then its volume.    *)
LEMMA SnapMakingRuns ==
  ASSUME TypeInv, HostAssumption, Plans, ApartInv, SnapInv, ApartInv', Apart', NEW t \in Threads, Run(t),
         Apart, harm = 0, threads[t].kind \in Creates, ~threads[t].failed
  PROVE  SnapThread(threads[t])' /\ \A x \in DOMAIN rows' : IsSnapshot(x) => Near(threads[t], x)'
<1>0. PICK old, new, s, k : old = threads[t] /\ new = threads'[t] /\ s = old.todo[1] /\ k = old.k
  OBVIOUS
<1>1. Busy(t)
  BY RunCommon
<1>2. /\ s.do \in {"check", "insert", "findIdmap", "setbase", "create", "copy"} /\ s.k = k
      /\ old.todo # <<>> /\ k \in Keys
  BY <1>0, <1>1, NextStep
<1>3. RanOn(old, new, s, After(s, Tail(old.todo))) /\ Others(t)
  BY <1>0, RunPlan DEF Others
<1>4. /\ new = threads'[t] /\ new.kind = old.kind /\ old.kind \in Creates /\ new.k = k /\ new.failed = old.failed
      /\ ~old.failed /\ new.inserted = (old.inserted \/ s.do = "insert") /\ old.phase = "busy"
      /\ (new.todo # <<>> => new.phase = "busy")
  BY <1>0, <1>1, <1>3 DEF RanOn, Busy
<1>5. old.inserted \in BOOLEAN /\ ThreadType(old)
  BY <1>0, ThreadFacts
<1>6. Alone /\ SnapMaking(old) /\ \A x \in DOMAIN rows : IsSnapshot(x) => Near(old, x)
  <2>1. Alone /\ threads[t].phase # "idle"
    BY <1>1 DEF ApartInv, Busy
  <2> QED
    BY <1>0, <2>1, SnapAlone DEF SnapThread
<1>7. DOMAIN rows \subseteq DOMAIN rows' /\ DOMAIN vols \subseteq DOMAIN vols'
  <2>1. CASE s.do = "insert"
    BY <1>0, <2>1, RunInsert, RunRows, Zenon
  <2>2. CASE s.do = "setbase"
    BY <1>0, <2>2, RunSetbase, RunRows
  <2>3. CASE s.do \in {"create", "copy"}
    BY <1>0, <2>3, RunMake, RunVolumes, Zenon
  <2>4. CASE s.do \in {"check", "findIdmap"}
    BY <1>0, <2>4, RunOther
  <2> QED
    BY <1>2, <2>1, <2>2, <2>3, <2>4
<1>8. s.do = "insert" => k \notin DOMAIN rows /\ DOMAIN rows' = DOMAIN rows \cup {k}
  BY <1>0, <1>2, RunInsert, Zenon
<1>9. s.do # "insert" => DOMAIN rows' = DOMAIN rows
  <2>2. CASE s.do = "setbase"
    BY <1>0, <2>2, RunSetbase
  <2>3. CASE s.do \in {"create", "copy"}
    BY <1>0, <2>3, RunVolumes
  <2>4. CASE s.do \in {"check", "findIdmap"}
    BY <1>0, <2>4, RunOther
  <2> QED
    BY <1>2, <2>2, <2>3, <2>4
<1>10. \A x \in DOMAIN rows : IsSnapshot(x) =>
         Of(x) \in DOMAIN rows /\ (x \in DOMAIN vols \/ (old.inserted /\ x = k))
  BY <1>0, <1>4, <1>6 DEF Near, LeavingBy, UnfinishedBy, Past, Creates
<1>11. IsSnapshot(k) => Of(k) \in DOMAIN rows
  <2> SUFFICES ASSUME IsSnapshot(k) PROVE Of(k) \in DOMAIN rows
    OBVIOUS
  <2>1. k \notin ContainerKeys
    BY KeyFacts
  <2>2. old.kind = "snapshot"
    BY <1>0, <1>4, <1>5, <2>1 DEF ThreadType, Creates
  <2> QED
    BY <1>0, <1>4, <1>6, <2>2 DEF SnapMaking
<1>12. new.inserted /\ new.todo = <<>> => k \in DOMAIN vols'
  <2>1. Created(threads[t])'
    BY DEF ApartInv, Solo
  <2> QED
    BY <1>4, <2>1 DEF Created
<1>13. ASSUME NEW x \in DOMAIN rows', IsSnapshot(x)
       PROVE  Near(threads[t], x)'
  <2>1. Of(x) \in DOMAIN rows' /\ (x \in DOMAIN vols' \/ (new.inserted /\ x = k))
    <3>1. CASE x \in DOMAIN rows
      BY <1>4, <1>7, <1>10, <1>13, <3>1, Zenon
    <3>2. CASE x \notin DOMAIN rows
      <4>1. s.do = "insert" /\ x = k
        BY <1>8, <1>9, <1>13, <3>2
      <4> QED
        BY <1>4, <1>7, <1>11, <1>13, <4>1, Zenon
    <3> QED
      BY <3>1, <3>2
  <2>2. CASE x \in DOMAIN vols'
    BY <2>1, <2>2 DEF Near
  <2>3. CASE new.inserted /\ x = k
    BY <1>4, <1>12, <2>1, <2>3 DEF Near, UnfinishedBy
  <2> QED
    BY <2>1, <2>2, <2>3
<1>14. SnapMaking(threads[t])'
  <2>1. new.kind = "snapshot" => Of(k) \in DOMAIN rows'
    BY <1>0, <1>4, <1>6, <1>7 DEF SnapMaking
  <2>2. ASSUME new.kind # "snapshot", new.inserted, NEW x \in DOMAIN rows', IsSnapshot(x), Of(x) = k
        PROVE  FALSE
    <3>1. k \in ContainerKeys /\ ~IsSnapshot(k)
      <4>1. k \in ContainerKeys
        BY <1>0, <1>4, <1>5, <2>2 DEF ThreadType, Creates
      <4> QED
        BY <4>1, KeyFacts
    <3>2. x \in DOMAIN rows
      BY <1>8, <1>9, <2>2, <3>1
    <3>3. CASE s.do = "insert"
      BY <1>8, <1>10, <2>2, <3>2, <3>3
    <3>4. CASE old.inserted
      <4>1. SnapshotsOf(k) = {}
        BY <1>0, <1>4, <1>6, <2>2, <3>4 DEF SnapMaking
      <4> QED
        BY <2>2, <3>2, <4>1 DEF SnapshotsOf
    <3> QED
      BY <1>4, <2>2, <3>3, <3>4, Zenon
  <2>3. new.kind # "snapshot" /\ new.inserted => {x \in DOMAIN rows' : IsSnapshot(x) /\ Of(x) = k} = {}
    BY <2>2
  <2> QED
    BY <1>4, <2>1, <2>3 DEF SnapMaking, SnapshotsOf
<1>15. SnapThread(threads[t])'
  BY <1>4, <1>14 DEF SnapThread, SnapDeleting, SnapRenaming, Creates
<1> QED
  BY <1>13, <1>15

(* A failed creation goes on being undone.                                   *)
LEMMA SnapUndoingRuns ==
  ASSUME TypeInv, HostAssumption, Plans, ApartInv, SnapInv, ApartInv', Apart', NEW t \in Threads, Run(t),
         Apart, harm = 0, "stuck" \notin seen', threads[t].kind \in Creates, threads[t].failed
  PROVE  SnapThread(threads[t])' /\ \A x \in DOMAIN rows' : IsSnapshot(x) => Near(threads[t], x)'
<1>0. PICK old, new, s, k : old = threads[t] /\ new = threads'[t] /\ s = old.todo[1] /\ k = old.k
  OBVIOUS
<1>1. Busy(t)
  BY RunCommon
<1>2. /\ s.do \in {"Delete", "containerDeleteSnapshots", "destroy", "remove"} /\ s.k \in Family(k)
      /\ old.todo # <<>> /\ k \in Keys
  BY <1>0, <1>1, NextStep
<1>3. Alone /\ NoOrphan /\ Solo(threads[t]) /\ threads[t].phase # "idle"
  BY <1>1 DEF ApartInv, Busy
<1>4. RanOn(old, new, s, After(s, Tail(old.todo)))
  BY <1>0, RunPlan
<1>5. /\ new = threads'[t] /\ new.kind = old.kind /\ old.kind \in Creates /\ new.k = k /\ new.failed
      /\ new.inserted = old.inserted /\ old.phase = "busy" /\ (new.todo # <<>> => new.phase = "busy")
  <2>1. old.inserted \in BOOLEAN
    BY <1>0, ThreadFacts
  <2> QED
    BY <1>0, <1>1, <1>2, <1>4, <2>1 DEF RanOn, Busy
<1>6. /\ s.do = "remove" => DOMAIN rows' = DOMAIN rows \ {s.k}
      /\ s.do # "remove" => rows' = rows
  BY <1>0, <1>3, DroppingRuns, Zenon
<1>7. DOMAIN vols' = IF s.do = "destroy" THEN DOMAIN vols \ {s.k} ELSE DOMAIN vols
  <2>1. CASE s.do = "destroy"
    BY <1>0, <2>1, RunDestroy, Zenon
  <2>2. CASE s.do = "remove"
    BY <1>0, <2>2, RunRows
  <2>3. CASE s.do \in Calls
    BY <1>0, <2>3, RunOther DEF Calls
  <2> QED
    BY <1>2, <2>1, <2>2, <2>3 DEF Calls
<1>8. SnapMaking(old) /\ old.inserted
      /\ \A x \in DOMAIN rows : IsSnapshot(x) => Of(x) \in DOMAIN rows /\ (x \in DOMAIN vols \/ x = k)
  <2>1. SnapMaking(old) /\ \A x \in DOMAIN rows : IsSnapshot(x) => Near(old, x)
    BY <1>0, <1>3, SnapAlone DEF SnapThread
  <2>2. old.inserted
    BY <1>0, <1>2, <2>1 DEF SnapMaking
  <2> QED
    BY <1>0, <1>5, <2>1, <2>2 DEF Near, LeavingBy, UnfinishedBy, Past, Creates
<1>9. \A x \in DOMAIN rows : IsSnapshot(x) => Of(x) # k
  <2> SUFFICES ASSUME NEW x \in DOMAIN rows, IsSnapshot(x), Of(x) = k PROVE FALSE
    OBVIOUS
  <2>1. k \in ContainerKeys
    <3>1. x \in Keys
      BY DEF TypeInv
    <3> QED
      BY <3>1, KeyFacts
  <2>2. old.kind # "snapshot"
    <3>1. k \notin SnapshotKeys
      BY <1>2, <2>1, KeyFacts
    <3> QED
      BY <1>0, <3>1, ThreadFacts DEF ThreadType
  <2>3. SnapshotsOf(k) = {}
    BY <1>0, <1>5, <1>8, <2>2 DEF SnapMaking
  <2> QED
    BY <2>3 DEF SnapshotsOf
<1>10. \A x \in DOMAIN rows : IsSnapshot(x) /\ x # k => x \in DOMAIN vols' /\ (x \in DOMAIN rows' => Of(x) \in DOMAIN rows')
  <2> SUFFICES ASSUME NEW x \in DOMAIN rows, IsSnapshot(x), x # k
               PROVE  x \in DOMAIN vols' /\ (x \in DOMAIN rows' => Of(x) \in DOMAIN rows')
    OBVIOUS
  <2>1. x \in Keys /\ s.k \in Keys /\ (s.k = k \/ (IsSnapshot(s.k) /\ Of(s.k) = k))
    BY <1>2 DEF TypeInv, Family
  <2>2. Of(x) # s.k
    <3>1. ~IsSnapshot(Of(x))
      BY <2>1, KeyFacts
    <3> QED
      BY <1>9, <2>1, <3>1
  <2>3. x # s.k
    BY <1>9, <2>1
  <2> QED
    BY <1>6, <1>7, <1>8, <2>2, <2>3
<1>11. k \in DOMAIN rows' /\ IsSnapshot(k) => Of(k) \in DOMAIN rows' /\ new.todo # <<>>
  <2> SUFFICES ASSUME k \in DOMAIN rows', IsSnapshot(k)
               PROVE  Of(k) \in DOMAIN rows' /\ new.todo # <<>>
    OBVIOUS
  <2>1. Of(k) \in DOMAIN rows
    BY <1>6, <1>8
  <2>2. s.k # Of(k)
    <3>1. ~IsSnapshot(Of(k)) /\ Of(k) # k
      BY <1>2, KeyFacts
    <3> QED
      BY <1>2, <3>1 DEF Family
  <2>3. new.todo # <<>>
    <3> SUFFICES ASSUME new.todo = <<>> PROVE FALSE
      OBVIOUS
    <3>1. Undone(threads[t])'
      BY DEF ApartInv, Solo
    <3>2. \A do, x : ~Pending(new.todo, do, x) /\ ~Holds(new.todo, do)
      BY DEF Pending, Holds
    <3> QED
      BY <1>5, <1>8, <3>1, <3>2 DEF Undone
  <2> QED
    BY <1>6, <2>1, <2>2, <2>3
<1>12. ASSUME NEW x \in DOMAIN rows', IsSnapshot(x)
       PROVE  Near(threads[t], x)'
  <2>1. CASE x = k
    BY <1>5, <1>8, <1>11, <1>12, <2>1 DEF Near, UnfinishedBy
  <2>2. CASE x # k
    <3>1. x \in DOMAIN rows
      BY <1>6, <1>12
    <3> QED
      BY <1>10, <1>12, <2>2, <3>1 DEF Near
  <2> QED
    BY <2>1, <2>2
<1>13. SnapMaking(threads[t])'
  <2>1. ASSUME new.kind = "snapshot" PROVE Of(k) \in DOMAIN rows'
    <3>1. Of(k) \in DOMAIN rows /\ k \in SnapshotKeys
      BY <1>0, <1>3, <1>5, <1>8, <2>1, ThreadFacts, Zenon DEF SnapMaking, ThreadType
    <3>2. s.k # Of(k)
      <4>1. ~IsSnapshot(Of(k)) /\ Of(k) # k
        BY <1>2, <3>1, KeyFacts
      <4> QED
        BY <1>2, <4>1 DEF Family
    <3> QED
      BY <1>6, <3>1, <3>2
  <2>2. DOMAIN rows' \subseteq DOMAIN rows
    BY <1>6
  <2>3. {x \in DOMAIN rows' : IsSnapshot(x) /\ Of(x) = k} = {}
    BY <1>9, <2>2
  <2> QED
    BY <1>5, <1>8, <2>1, <2>3 DEF SnapMaking, SnapshotsOf
<1>14. SnapThread(threads[t])'
  BY <1>5, <1>13 DEF SnapThread, SnapDeleting, SnapRenaming, Creates
<1> QED
  BY <1>12, <1>14

(* A delete goes on: a container goes after its snapshots.                   *)
LEMMA SnapDeletingRuns ==
  ASSUME TypeInv, HostAssumption, Plans, ApartInv, SnapInv, NEW t \in Threads, Run(t),
         Apart, harm = 0, threads[t].kind = "delete"
  PROVE  SnapThread(threads[t])' /\ \A x \in DOMAIN rows' : IsSnapshot(x) => Near(threads[t], x)'
<1>0. PICK old, new, s, k : old = threads[t] /\ new = threads'[t] /\ s = old.todo[1] /\ k = old.k
  OBVIOUS
<1>1. Busy(t)
  BY RunCommon
<1>2. /\ s.do \in {"containerDeleteSnapshots", "destroy", "remove"} /\ s.k \in Family(k)
      /\ old.todo # <<>> /\ k \in Keys /\ old.todo \in Seq(Steps) /\ 1 \in DOMAIN old.todo
      /\ Deleting(old) /\ Drops(old.todo, k)
  BY <1>0, <1>1, NextStep, PlanFacts
<1>3. Alone /\ NoOrphan /\ Solo(threads[t]) /\ threads[t].phase # "idle"
  BY <1>1 DEF ApartInv, Busy
<1>4. /\ s.do = "remove" => DOMAIN rows' = DOMAIN rows \ {s.k}
      /\ s.do # "remove" => rows' = rows
      /\ s.do \notin Calls => new.todo = Tail(old.todo)
      /\ s.do \in Calls => new.todo = PlanOf(s) \o Tail(old.todo)
      /\ new.kind = old.kind /\ new.k = old.k
  BY <1>0, <1>3, DroppingRuns, Zenon
<1>5. new = threads'[t] /\ new.kind = "delete" /\ new.k = k
  BY <1>0, <1>4
<1>6. DOMAIN vols' = IF s.do = "destroy" THEN DOMAIN vols \ {s.k} ELSE DOMAIN vols
  <2>1. CASE s.do = "destroy"
    BY <1>0, <2>1, RunDestroy, Zenon
  <2>2. CASE s.do = "remove"
    BY <1>0, <2>2, RunRows
  <2>3. CASE s.do = "containerDeleteSnapshots"
    BY <1>0, <2>3, RunOther DEF Calls
  <2> QED
    BY <1>2, <2>1, <2>2, <2>3
<1>7. SnapDeleting(old)
      /\ \A x \in DOMAIN rows : IsSnapshot(x) =>
           Of(x) \in DOMAIN rows /\ (x \in DOMAIN vols \/ Pending(old.todo, "remove", x))
  <2>1. SnapDeleting(old) /\ \A x \in DOMAIN rows : IsSnapshot(x) => Near(old, x)
    BY <1>0, <1>3, SnapAlone DEF SnapThread
  <2> QED
    BY <1>0, <2>1 DEF Near, LeavingBy, UnfinishedBy, Past, Creates
<1>8. /\ \A x : Pending(old.todo, "remove", x) => Pending(new.todo, "remove", x) \/ (s.do = "remove" /\ s.k = x)
      /\ Holds(old.todo, "containerDeleteSnapshots") =>
           Holds(new.todo, "containerDeleteSnapshots") \/ s.do = "containerDeleteSnapshots"
  <2>1. CASE s.do = "containerDeleteSnapshots"
    <3>1. s.do \in Calls
      BY <2>1 DEF Calls
    <3>2. \A do, x : Pending(old.todo, do, x) =>
            Pending(PlanOf(old.todo[1]) \o Tail(old.todo), do, x) \/ (old.todo[1].do = do /\ old.todo[1].k = x)
      BY <1>0, <1>2, <3>1, DropCall
    <3> QED
      BY <1>0, <1>4, <2>1, <3>1, <3>2, Zenon
  <2>2. CASE s.do # "containerDeleteSnapshots"
    <3>1. new.todo = Tail(old.todo)
      BY <1>2, <1>4, <2>2 DEF Calls
    <3> QED
      BY <1>0, <1>2, <3>1, TailFacts
  <2> QED
    BY <2>1, <2>2
<1>9. s.do = "containerDeleteSnapshots" => \A x \in SnapshotsOf(k) : Pending(new.todo, "remove", x)
  <2> SUFFICES ASSUME s.do = "containerDeleteSnapshots", NEW x \in SnapshotsOf(k)
               PROVE  Pending(new.todo, "remove", x)
    OBVIOUS
  <2>1. s.do \in Calls
    BY DEF Calls
  <2>2. \A y \in SnapshotsOf(k) : Pending(PlanOf(old.todo[1]) \o Tail(old.todo), "remove", y)
    BY <1>0, <1>2, <2>1, DropCall
  <2> QED
    BY <1>0, <1>4, <2>1, <2>2, Zenon
<1>10. s.do = "destroy" => Pending(new.todo, "remove", s.k)
  <2> SUFFICES ASSUME s.do = "destroy" PROVE Pending(new.todo, "remove", s.k)
    OBVIOUS
  <2>1. 2 \in DOMAIN old.todo /\ old.todo[2].do = "remove" /\ old.todo[2].k = s.k
    <3>1. \A i \in DOMAIN old.todo : old.todo[i].do = "destroy" =>
            i + 1 \in DOMAIN old.todo /\ old.todo[i + 1].do = "remove" /\ old.todo[i + 1].k = old.todo[i].k
      BY <1>2 DEF Drops
    <3>2. 1 + 1 \in DOMAIN old.todo /\ old.todo[1 + 1].do = "remove" /\ old.todo[1 + 1].k = s.k
      BY <1>0, <1>2, <3>1, Zenon
    <3> QED
      BY <3>2
  <2>2. Pending(old.todo, "remove", s.k)
    BY <2>1 DEF Pending
  <2> QED
    BY <1>8, <2>2
<1>11. ASSUME NEW x \in DOMAIN rows, IsSnapshot(x), Of(x) = s.k, s.do = "remove"
       PROVE  FALSE
  <2>1. x \in Keys
    BY DEF TypeInv
  <2>2. s.k = k /\ k \in ContainerKeys
    <3>1. ~IsSnapshot(s.k) /\ s.k \in ContainerKeys
      BY <1>11, <2>1, KeyFacts
    <3> QED
      BY <1>2, <3>1 DEF Family
  <2>3. \A i \in DOMAIN old.todo : i < Len(old.todo) /\ old.todo[i].do = "remove" => old.todo[i].k # k
    BY <1>0, <1>2 DEF Deleting
  <2>4. ~(1 < Len(old.todo)) /\ DOMAIN old.todo = 1..Len(old.todo) /\ Len(old.todo) \in Nat
    BY <1>0, <1>2, <1>11, <2>2, <2>3
  <2>5. \A i \in DOMAIN old.todo : i = 1
    <3>1. PICK n \in Nat : n = Len(old.todo)
      BY <2>4
    <3>2. \A i \in 1..n : i = 1
      BY <2>4, <3>1
    <3> QED
      BY <2>4, <3>1, <3>2
  <2>6. x \in SnapshotsOf(k)
    BY <1>11, <2>2 DEF SnapshotsOf
  <2>7. ~Holds(old.todo, "containerDeleteSnapshots")
    BY <1>0, <1>11, <2>5 DEF Holds
  <2>8. ~Pending(old.todo, "remove", x)
    <3>1. x # k
      BY <1>11, <2>1, <2>2, KeyFacts
    <3> QED
      BY <1>0, <2>2, <2>5, <3>1 DEF Pending
  <2> QED
    BY <1>0, <1>2, <1>7, <2>2, <2>6, <2>7, <2>8 DEF SnapDeleting
<1>12. ASSUME NEW x \in DOMAIN rows', IsSnapshot(x)
       PROVE  Near(threads[t], x)'
  <2>1. x \in DOMAIN rows /\ (s.do = "remove" => x # s.k)
    BY <1>4, <1>12
  <2>2. Of(x) \in DOMAIN rows'
    BY <1>4, <1>7, <1>11, <1>12, <2>1
  <2>3. x \in DOMAIN vols' \/ Pending(new.todo, "remove", x)
    BY <1>6, <1>7, <1>8, <1>10, <1>12, <2>1
  <2> QED
    BY <1>5, <2>2, <2>3 DEF Near, UnfinishedBy
<1>13. SnapDeleting(threads[t])'
  <2>1. \A x \in DOMAIN rows' : IsSnapshot(x) /\ Of(x) = k =>
          x \in SnapshotsOf(k) /\ (s.do = "remove" => x # s.k)
    BY <1>4 DEF SnapshotsOf
  <2>2. ASSUME k \in ContainerKeys, NEW x \in DOMAIN rows', IsSnapshot(x), Of(x) = k
        PROVE  Holds(new.todo, "containerDeleteSnapshots") \/ Pending(new.todo, "remove", x)
    <3>1. x \in SnapshotsOf(k) /\ (s.do = "remove" => x # s.k)
      BY <2>1, <2>2
    <3>2. Holds(old.todo, "containerDeleteSnapshots") \/ Pending(old.todo, "remove", x)
      BY <1>0, <1>2, <1>3, <1>7, <2>2, <3>1, PlanFacts DEF SnapDeleting
    <3> QED
      BY <1>8, <1>9, <3>1, <3>2
  <2> QED
    BY <1>5, <2>2 DEF SnapDeleting, SnapshotsOf
<1>14. SnapThread(threads[t])'
  BY <1>5, <1>13 DEF SnapThread, SnapMaking, SnapRenaming, Creates
<1> QED
  BY <1>12, <1>14

(* A restore changes no names.                                               *)
LEMMA SnapRestoringRuns ==
  ASSUME TypeInv, HostAssumption, Plans, ApartInv, SnapInv, NEW t \in Threads, Run(t),
         Apart, harm = 0, threads[t].kind = "restore"
  PROVE  SnapThread(threads[t])' /\ \A x \in DOMAIN rows' : IsSnapshot(x) => Near(threads[t], x)'
<1>0. PICK old, new, s : old = threads[t] /\ new = threads'[t] /\ s = old.todo[1]
  OBVIOUS
<1>1. Busy(t)
  BY RunCommon
<1>2. s.do \in {"check", "restore", "update"}
  BY <1>0, <1>1, NextStep
<1>3. new = threads'[t] /\ new.kind = "restore" /\ old.kind = "restore"
  BY <1>0, RunPlan DEF RanOn
<1>4. DOMAIN rows' = DOMAIN rows /\ vols' = vols
  <2>1. CASE s.do = "update"
    BY <1>0, <2>1, RunUpdate, RunRows
  <2>2. CASE s.do \in {"check", "restore"}
    BY <1>0, <2>2, RunOther
  <2> QED
    BY <1>2, <2>1, <2>2
<1>5. \A x \in DOMAIN rows : IsSnapshot(x) => Of(x) \in DOMAIN rows /\ x \in DOMAIN vols
  <2>1. Alone /\ threads[t].phase # "idle"
    BY <1>1 DEF ApartInv, Busy
  <2>2. \A x \in DOMAIN rows : IsSnapshot(x) => Near(old, x)
    BY <1>0, <2>1, SnapAlone
  <2> QED
    BY <1>3, <2>2 DEF Near, LeavingBy, UnfinishedBy, Past, Creates
<1>6. \A x \in DOMAIN rows' : IsSnapshot(x) => Near(threads[t], x)'
  BY <1>4, <1>5 DEF Near
<1>7. SnapThread(threads[t])'
  BY <1>3 DEF SnapThread, SnapMaking, SnapDeleting, SnapRenaming, Creates
<1> QED
  BY <1>6, <1>7

(* A rename that has not begun, or has moved the volumes.                    *)
LEMMA SnapMoving ==
  ASSUME TypeInv, HostAssumption, Plans, ApartInv, SnapInv, NEW t \in Threads, Run(t),
         Apart, harm = 0, threads[t].kind = "rename", threads[t].todo[1].do \in {"check", "move"}
  PROVE  SnapThread(threads[t])' /\ \A x \in DOMAIN rows' : IsSnapshot(x) => Near(threads[t], x)'
<1>0. PICK old, new, s, k, n : /\ old = threads[t] /\ new = threads'[t] /\ s = old.todo[1] /\ k = old.k
                               /\ n = s.x
  OBVIOUS
<1>1. Busy(t)
  BY RunCommon
<1>2. /\ old.todo \in Seq(Steps) /\ old.todo # <<>> /\ k \in ContainerKeys /\ s.do \in {"check", "move"}
      /\ (s.do = "move" => s.k = k /\ n \in ContainerKeys) /\ RenamingPlan(old)
  BY <1>0, <1>1, NextStep, PlanFacts
<1>3. RanOn(old, new, s, After(s, Tail(old.todo)))
  BY <1>0, RunPlan
<1>4. new = threads'[t] /\ new.kind = "rename" /\ new.k = k /\ new.todo = Tail(old.todo) /\ old.kind = "rename"
  BY <1>0, <1>2, <1>3, Zenon DEF RanOn, After, Calls
<1>5. Alone /\ SnapRenaming(old) /\ \A x \in DOMAIN rows : IsSnapshot(x) => Near(old, x)
  <2>1. Alone /\ threads[t].phase # "idle"
    BY <1>1 DEF ApartInv, Busy
  <2> QED
    BY <1>0, <2>1, SnapAlone DEF SnapThread
<1>6. \A x \in DOMAIN rows : IsSnapshot(x) => Of(x) \in DOMAIN rows /\ x \in DOMAIN vols
  BY <1>0, <1>2, <1>4, <1>5 DEF Near, LeavingBy, UnfinishedBy, Past, Creates
<1>7. rows' = rows
  <2>1. CASE s.do = "check"
    BY <1>0, <2>1, RunOther
  <2>2. CASE s.do = "move"
    BY <1>0, <2>2, RunVolumes
  <2> QED
    BY <1>2, <2>1, <2>2
<1>8. SnapRenaming(threads[t])'
  <2> SUFFICES ASSUME NEW i \in DOMAIN new.todo
               PROVE  LET step == new.todo[i] IN
                      /\ step.do = "move" => step.k \in DOMAIN rows /\ SnapshotsOf(step.x) = {}
                      /\ step.do = "renamerow" =>
                           /\ step.k \in DOMAIN rows /\ step.x \notin DOMAIN rows
                           /\ IsSnapshot(step.k) => Of(step.x) \in DOMAIN rows
                      /\ step.do = "RenameSnapshots" => SnapshotsOf(step.x) = {} /\ (i = 1 => step.x \in DOMAIN rows)
    BY <1>4, <1>7 DEF SnapRenaming, SnapshotsOf
  <2>1. i + 1 \in DOMAIN old.todo /\ new.todo[i] = old.todo[i + 1]
    BY <1>2, <1>4, TailSuffix DEF Suffix
  <2>2. i = 1 => new.todo[i].do # "RenameSnapshots"
    <3>1. CASE s.do = "check"
      BY <1>0, <1>2, <1>4, <3>1, RenamingSteps
    <3>2. CASE s.do = "move"
      BY <1>0, <1>2, <1>4, <3>2, RenamingSteps
    <3> QED
      BY <1>2, <3>1, <3>2
  <2>3. PICK st : st = new.todo[i]
    OBVIOUS
  <2>4. /\ st.do = "move" => st.k \in DOMAIN rows /\ SnapshotsOf(st.x) = {}
        /\ st.do = "renamerow" =>
             /\ st.k \in DOMAIN rows /\ st.x \notin DOMAIN rows
             /\ IsSnapshot(st.k) => Of(st.x) \in DOMAIN rows
        /\ st.do = "RenameSnapshots" => SnapshotsOf(st.x) = {}
    BY <1>4, <1>5, <2>1, <2>3, Zenon DEF SnapRenaming
  <2> QED
    BY <2>2, <2>3, <2>4
<1>9. SnapThread(threads[t])'
  BY <1>4, <1>8 DEF SnapThread, SnapMaking, SnapDeleting, Creates
<1>10. \A x \in DOMAIN rows' : IsSnapshot(x) => Near(threads[t], x)'
  <2> SUFFICES ASSUME NEW x \in DOMAIN rows, IsSnapshot(x) PROVE Near(threads[t], x)'
    BY <1>7
  <2>1. CASE s.do = "check"
    <3>1. vols' = vols
      BY <1>0, <2>1, RunOther
    <3> QED
      BY <1>6, <1>7, <3>1 DEF Near
  <2>2. CASE s.do = "move"
    <3>1. x \in Keys /\ Of(x) \in ContainerKeys
      BY KeyFacts DEF TypeInv
    <3>2. \A y \in Keys : y \in DOMAIN vols' <=> \/ y \in DOMAIN vols /\ Of(y) # k
                                                 \/ Of(y) = n /\ Renamed(y, k) \in DOMAIN vols
      BY <1>0, <1>2, <2>2, RunMove
    <3>3. CASE Of(x) # k
      BY <1>6, <1>7, <3>1, <3>2, <3>3 DEF Near
    <3>4. CASE Of(x) = k
      <4>1. PICK y : y = Renamed(x, n)
        OBVIOUS
      <4>2. y \in Keys /\ Of(y) = n /\ Renamed(y, k) = x
        BY <1>2, <2>2, <3>1, <3>4, <4>1, RenamedFacts
      <4>3. y \in DOMAIN vols'
        BY <1>6, <3>2, <4>2
      <4>4. /\ new.todo # <<>> /\ new.todo[1].do = "renamerow" /\ 2 \in DOMAIN new.todo
            /\ new.todo[2].do = "RenameSnapshots" /\ new.todo[2].k = k /\ new.todo[2].x = n
        BY <1>0, <1>2, <1>4, <2>2, RenamingSteps
      <4>5. LeavingBy(threads[t], x)'
        BY <1>4, <3>4, <4>1, <4>3, <4>4, Zenon DEF LeavingBy, Past
      <4> QED
        BY <4>5 DEF Near
    <3> QED
      BY <3>3, <3>4
  <2> QED
    BY <1>2, <2>1, <2>2
<1> QED
  BY <1>9, <1>10

(* A row is renamed: those of the snapshots still follow.                    *)
LEMMA SnapRowRuns ==
  ASSUME TypeInv, HostAssumption, Plans, ApartInv, SnapInv, NEW t \in Threads, Run(t),
         Apart, harm = 0, threads[t].kind = "rename", threads[t].todo[1].do = "renamerow"
  PROVE  SnapThread(threads[t])' /\ \A x \in DOMAIN rows' : IsSnapshot(x) => Near(threads[t], x)'
<1>0. PICK old, new, s, k, n, a : /\ old = threads[t] /\ new = threads'[t] /\ s = old.todo[1] /\ k = old.k
                                  /\ n = s.x /\ a = s.k
  OBVIOUS
<1>1. Busy(t)
  BY RunCommon
<1>2. /\ old.todo \in Seq(Steps) /\ old.todo # <<>> /\ k \in ContainerKeys /\ s.do = "renamerow"
      /\ Of(a) = k /\ n = Renamed(a, Of(n)) /\ Of(n) # k /\ RenamingPlan(old) /\ 1 \in DOMAIN old.todo
      /\ a \in Keys /\ n \in Keys
  BY <1>0, <1>1, NextStep, PlanFacts
<1>3. RanOn(old, new, s, After(s, Tail(old.todo)))
  BY <1>0, RunPlan
<1>4. new = threads'[t] /\ new.kind = "rename" /\ new.k = k /\ new.todo = Tail(old.todo) /\ old.kind = "rename"
  BY <1>0, <1>2, <1>3 DEF RanOn, After, Calls
<1>5. Alone /\ SnapRenaming(old) /\ Moved(old) /\ \A x \in DOMAIN rows : IsSnapshot(x) => Near(old, x)
  <2>1. Alone /\ Solo(threads[t]) /\ threads[t].phase # "idle"
    BY <1>1 DEF ApartInv, Busy
  <2> QED
    BY <1>0, <2>1, SnapAlone DEF SnapThread, Solo
<1>6. a \in DOMAIN rows /\ n \notin DOMAIN rows /\ (IsSnapshot(a) => Of(n) \in DOMAIN rows)
  BY <1>0, <1>2, <1>4, <1>5 DEF SnapRenaming
<1>7. DOMAIN rows' = (DOMAIN rows \ {a}) \cup {n} /\ vols' = vols
  BY <1>0, <1>2, <1>6, RunRenamerow, RunRows, Zenon
<1>8. Past(old) /\ Tree(DOMAIN vols, k) = {}
  BY <1>0, <1>2, <1>4, <1>5 DEF Past, Moved
<1>9. Of(n) \in ContainerKeys /\ (IsSnapshot(n) <=> IsSnapshot(a)) /\ (~IsSnapshot(n) => n = Of(n) /\ a = k)
  BY <1>2, KeyFacts, RenamedFacts
<1>10. /\ \A i \in DOMAIN new.todo : i + 1 \in DOMAIN old.todo /\ new.todo[i] = old.todo[i + 1]
       /\ \A i \in DOMAIN old.todo : i # 1 => i - 1 \in DOMAIN new.todo /\ new.todo[i - 1] = old.todo[i]
  BY <1>2, <1>4, TailSuffix DEF Suffix
<1>11. /\ new.todo # <<>> => new.todo[1].do \in {"renamerow", "RenameSnapshots"}
       /\ \A i \in DOMAIN new.todo : /\ new.todo[i].do = "renamerow" => new.todo[i].k # a
                                     /\ new.todo[i].do = "RenameSnapshots" => a = k
  BY <1>0, <1>2, <1>4, RenamingSteps
<1>12. \A i \in DOMAIN new.todo :
         /\ Of(new.todo[i].x) = Of(n)
         /\ new.todo[i].do = "renamerow" => /\ Of(new.todo[i].k) = k /\ new.todo[i].k \in Keys
                                            /\ new.todo[i].x = Renamed(new.todo[i].k, Of(n))
                                            /\ IsSnapshot(new.todo[i].k)
         /\ new.todo[i].do = "RenameSnapshots" => new.todo[i].x = Of(n) /\ new.todo[i].k = k
         /\ new.todo[i].do # "move"
  <2> SUFFICES ASSUME NEW i \in DOMAIN new.todo
               PROVE  /\ Of(new.todo[i].x) = Of(n)
                      /\ new.todo[i].do = "renamerow" => /\ Of(new.todo[i].k) = k /\ new.todo[i].k \in Keys
                                                         /\ new.todo[i].x = Renamed(new.todo[i].k, Of(n))
                                                         /\ IsSnapshot(new.todo[i].k)
                      /\ new.todo[i].do = "RenameSnapshots" => new.todo[i].x = Of(n) /\ new.todo[i].k = k
                      /\ new.todo[i].do # "move"
    OBVIOUS
  <2>1. PICK j \in DOMAIN old.todo : j = i + 1 /\ new.todo[i] = old.todo[j]
    BY <1>10
  <2>2. i \in Nat /\ i > 0 /\ 1 < j /\ j \in Nat
    <3>1. DOMAIN new.todo = 1..Len(new.todo)
      BY <1>2, <1>4
    <3> QED
      BY <2>1, <3>1
  <2>3. Of(old.todo[1].x) = Of(old.todo[j].x)
    BY <1>0, <1>2, <2>2 DEF RenamingPlan
  <2>4. old.todo[j].do # "move"
    <3>1. \A a1, b1 \in DOMAIN old.todo : a1 < b1 => (old.todo[b1].do = "move" => old.todo[a1].do = "check")
      BY <1>2 DEF RenamingPlan
    <3> QED
      BY <1>0, <1>2, <2>2, <3>1
  <2>5. old.todo[j].do = "RenameSnapshots" => old.todo[j].k = k /\ old.todo[j].x \in ContainerKeys
    BY <1>0, <1>2 DEF RenamingPlan
  <2>6. old.todo[j].do = "renamerow" =>
          Of(old.todo[j].k) = k /\ old.todo[j].x = Renamed(old.todo[j].k, Of(old.todo[j].x))
    BY <1>0, <1>2 DEF RenamingPlan
  <2>7. old.todo[j].do = "renamerow" => old.todo[j].k # k
    BY <1>0, <1>2, <2>2 DEF RenamingPlan
  <2>8. old.todo[j].k \in Keys
    <3>1. old.todo[j] \in Steps
      BY <1>2
    <3> QED
      BY <3>1, Types
  <2>9. old.todo[j].x \in ContainerKeys => Of(old.todo[j].x) = old.todo[j].x
    BY KeyFacts
  <2>10. old.todo[j].do = "renamerow" => IsSnapshot(old.todo[j].k)
    BY <2>6, <2>7, <2>8, KeyFacts
  <2> QED
    BY <1>0, <2>1, <2>3, <2>4, <2>5, <2>6, <2>8, <2>9, <2>10
<1>13. Of(n) \in DOMAIN rows'
  BY <1>6, <1>7, <1>9, <1>2, KeyFacts
<1>14. SnapRenaming(threads[t])'
  <2> SUFFICES ASSUME NEW i \in DOMAIN new.todo, NEW st, st = new.todo[i]
               PROVE  /\ st.do = "move" => st.k \in DOMAIN rows' /\ SnapshotsOf(st.x)' = {}
                      /\ st.do = "renamerow" =>
                           /\ st.k \in DOMAIN rows' /\ st.x \notin DOMAIN rows'
                           /\ IsSnapshot(st.k) => Of(st.x) \in DOMAIN rows'
                      /\ st.do = "RenameSnapshots" => SnapshotsOf(st.x)' = {} /\ (i = 1 => st.x \in DOMAIN rows')
    BY <1>4 DEF SnapRenaming, SnapshotsOf
  <2>1. /\ st.do = "renamerow" => st.k \in DOMAIN rows /\ st.x \notin DOMAIN rows
        /\ st.do = "RenameSnapshots" => SnapshotsOf(st.x) = {}
    <3>1. PICK j \in DOMAIN old.todo : st = old.todo[j]
      BY <1>10
    <3> QED
      BY <1>4, <1>5, <3>1, Zenon DEF SnapRenaming
  <2>2. /\ Of(st.x) = Of(n)
        /\ st.do = "renamerow" => /\ Of(st.k) = k /\ st.k \in Keys /\ st.x = Renamed(st.k, Of(n))
                                  /\ IsSnapshot(st.k) /\ st.k # a
        /\ st.do = "RenameSnapshots" => st.x = Of(n) /\ a = k
        /\ st.do # "move"
    BY <1>11, <1>12
  <2>3. st.do = "renamerow" => st.x # n
    <3> SUFFICES ASSUME st.do = "renamerow", st.x = n PROVE FALSE
      OBVIOUS
    <3>1. Renamed(st.k, Of(n)) = Renamed(a, Of(n))
      BY <1>2, <2>2
    <3> QED
      BY <1>2, <1>9, <2>2, <3>1, RenamedApart
  <2>4. st.do = "RenameSnapshots" => SnapshotsOf(st.x)' = {}
    <3> SUFFICES ASSUME st.do = "RenameSnapshots", NEW z \in DOMAIN rows', IsSnapshot(z), Of(z) = st.x
                 PROVE  FALSE
      BY DEF SnapshotsOf
    <3>1. ~IsSnapshot(a)
      BY <1>2, <2>2, KeyFacts
    <3>2. z \in DOMAIN rows
      BY <1>7, <1>9, <3>1
    <3> QED
      BY <2>1, <3>2 DEF SnapshotsOf
  <2> QED
    BY <1>7, <1>13, <2>1, <2>2, <2>3, <2>4
<1>15. SnapThread(threads[t])'
  BY <1>4, <1>14 DEF SnapThread, SnapMaking, SnapDeleting, Creates
<1>16. ASSUME NEW x \in DOMAIN rows, IsSnapshot(x), Of(x) = k
       PROVE  \E i \in DOMAIN old.todo :
                \/ old.todo[i].do = "renamerow" /\ old.todo[i].k = x /\ old.todo[i].x \in DOMAIN vols
                \/ /\ old.todo[i].do = "RenameSnapshots" /\ Of(x) = old.todo[i].k
                   /\ Renamed(x, old.todo[i].x) \in DOMAIN vols
  <2>1. x \notin DOMAIN vols
    BY <1>8, <1>16 DEF Tree
  <2>2. Near(old, x)
    BY <1>5, <1>16
  <2>3. LeavingBy(old, x)
    BY <1>4, <2>1, <2>2 DEF Near, UnfinishedBy, Creates
  <2> QED
    BY <1>16, <2>3 DEF LeavingBy
<1>17. ASSUME NEW x \in DOMAIN rows', IsSnapshot(x)
       PROVE  Near(threads[t], x)'
  <2>1. CASE x = n
    <3>1. IsSnapshot(a) /\ Of(a) = k /\ a # k
      BY <1>2, <1>9, <1>17, <2>1, KeyFacts
    <3>2. PICK i \in DOMAIN old.todo :
                \/ old.todo[i].do = "renamerow" /\ old.todo[i].k = a /\ old.todo[i].x \in DOMAIN vols
                \/ old.todo[i].do = "RenameSnapshots" /\ Of(a) = old.todo[i].k
      BY <1>6, <1>16, <3>1
    <3>3. i = 1
      <4> SUFFICES ASSUME i # 1 PROVE FALSE
        OBVIOUS
      <4>1. i - 1 \in DOMAIN new.todo /\ new.todo[i - 1] = old.todo[i]
        BY <1>10
      <4> QED
        BY <1>11, <3>1, <3>2, <4>1
    <3>4. n \in DOMAIN vols
      BY <1>0, <1>2, <3>2, <3>3
    <3> QED
      BY <1>7, <1>13, <2>1, <3>4 DEF Near
  <2>2. CASE x # n /\ Of(x) = k
    <3>1. x \in DOMAIN rows /\ x # a
      BY <1>7, <1>17, <2>2
    <3>2. PICK i \in DOMAIN old.todo :
                \/ old.todo[i].do = "renamerow" /\ old.todo[i].k = x /\ old.todo[i].x \in DOMAIN vols
                \/ /\ old.todo[i].do = "RenameSnapshots" /\ Of(x) = old.todo[i].k
                   /\ Renamed(x, old.todo[i].x) \in DOMAIN vols
      BY <1>16, <1>17, <2>2, <3>1
    <3>3. i # 1
      BY <1>0, <1>2, <3>1, <3>2
    <3>4. PICK j \in DOMAIN new.todo : new.todo[j] = old.todo[i]
      BY <1>10, <3>3
    <3>5. new.todo # <<>>
      BY <3>4
    <3>6. LeavingBy(threads[t], x)'
      BY <1>4, <1>7, <1>11, <1>17, <3>2, <3>4, <3>5, Zenon DEF LeavingBy, Past
    <3> QED
      BY <3>6 DEF Near
  <2>3. CASE x # n /\ Of(x) # k
    <3>1. x \in DOMAIN rows /\ x \in Keys
      BY <1>7, <1>17, <2>3 DEF TypeInv
    <3>2. ~LeavingBy(old, x)
      <4> SUFFICES ASSUME NEW i \in DOMAIN old.todo,
                          \/ old.todo[i].do = "renamerow" /\ old.todo[i].k = x
                          \/ old.todo[i].do = "RenameSnapshots" /\ Of(x) = old.todo[i].k
                   PROVE  FALSE
        BY DEF LeavingBy
      <4>1. old.todo[i].do = "renamerow" => Of(old.todo[i].k) = k
        BY <1>0, <1>2 DEF RenamingPlan
      <4>2. old.todo[i].do = "RenameSnapshots" => old.todo[i].k = k
        BY <1>0, <1>2 DEF RenamingPlan
      <4> QED
        BY <2>3, <4>1, <4>2
    <3>3. Near(old, x)
      BY <1>5, <1>17, <3>1
    <3>4. Of(x) \in DOMAIN rows /\ x \in DOMAIN vols
      BY <1>4, <3>2, <3>3 DEF Near, UnfinishedBy, Creates
    <3>5. Of(x) # a
      <4>1. Of(x) \in ContainerKeys
        BY <3>1, KeyFacts
      <4>2. Of(Of(x)) = Of(x)
        BY <4>1, KeyFacts
      <4> QED
        BY <1>2, <2>3, <4>2
    <3> QED
      BY <1>7, <3>4, <3>5 DEF Near
  <2> QED
    BY <2>1, <2>2, <2>3
<1> QED
  BY <1>15, <1>17

(* The rows of the snapshots are next.                                       *)
LEMMA SnapSnapshotsRun ==
  ASSUME TypeInv, HostAssumption, Plans, ApartInv, SnapInv, NEW t \in Threads, Run(t),
         Apart, harm = 0, threads[t].kind = "rename", threads[t].todo[1].do = "RenameSnapshots"
  PROVE  SnapThread(threads[t])' /\ \A x \in DOMAIN rows' : IsSnapshot(x) => Near(threads[t], x)'
<1>0. PICK old, new, s, k, n : /\ old = threads[t] /\ new = threads'[t] /\ s = old.todo[1] /\ k = old.k
                               /\ n = s.x
  OBVIOUS
<1>1. Busy(t)
  BY RunCommon
<1>2. /\ old.todo \in Seq(Steps) /\ old.todo # <<>> /\ k \in ContainerKeys /\ s.do = "RenameSnapshots"
      /\ s.k = k /\ n \in ContainerKeys /\ RenamingPlan(old) /\ s.do \in Calls
  BY <1>0, <1>1, NextStep, PlanFacts DEF Calls
<1>3. RanOn(old, new, s, PlanOf(s) \o Tail(old.todo))
  <2>1. After(s, Tail(old.todo)) = PlanOf(s) \o Tail(old.todo)
    BY <1>2 DEF After
  <2> QED
    BY <1>0, <2>1, RunPlan, Zenon
<1>4. new = threads'[t] /\ new.kind = "rename" /\ new.k = k /\ new.todo = PlanOf(s) \o Tail(old.todo)
      /\ new.failed = old.failed /\ old.kind = "rename"
  BY <1>0, <1>3 DEF RanOn
<1>5. Len(old.todo) = 1 /\ new.todo = RenameSnapshots(k, n)
  <2>1. new.failed => old.failed
    BY <1>4
  <2>2. new.todo = PlanOf(old.todo[1]) \o Tail(old.todo) /\ new.k = old.k /\ old.k \in ContainerKeys
        /\ old.todo[1].do \in Calls
    BY <1>0, <1>2, <1>4
  <2>3. Len(old.todo) = 1 /\ new.todo = RenameSnapshots(old.k, old.todo[1].x)
    BY <1>2, <2>1, <2>2, RenamingCall, Zenon
  <2> QED
    BY <1>0, <2>3
<1>6. /\ new.todo \in Seq(Steps)
      /\ \A i \in DOMAIN new.todo : /\ new.todo[i].do = "renamerow" /\ new.todo[i].x = Renamed(new.todo[i].k, n)
                                    /\ new.todo[i].k \in SnapshotsOf(k)
      /\ \A z \in SnapshotsOf(k) : Pending(new.todo, "renamerow", z)
  <2> DEFINE p == RenameSnapshots(k, n)
  <2>1. k \in Keys
    BY <1>2, KeyFacts
  <2>2. /\ p \in Seq(Steps)
        /\ \A i \in DOMAIN p :
             /\ p[i].do = "renamerow" /\ p[i].k \in SnapshotsOf(k) /\ p[i].x = Renamed(p[i].k, n)
             /\ p[i].must = TRUE /\ p[i].undo = <<>>
        /\ \A z \in SnapshotsOf(k) : Pending(p, "renamerow", z)
    BY <1>2, <2>1, SnapRenames, Zenon
  <2> HIDE DEF p
  <2>3. new.todo = p
    BY <1>5 DEF p
  <2> QED
    BY <2>2, <2>3
<1>7. rows' = rows /\ vols' = vols
  BY <1>0, <1>2, RunOther
<1>8. Alone /\ SnapRenaming(old) /\ Moved(old) /\ \A x \in DOMAIN rows : IsSnapshot(x) => Near(old, x)
  <2>1. Alone /\ Solo(threads[t]) /\ threads[t].phase # "idle"
    BY <1>1 DEF ApartInv, Busy
  <2> QED
    BY <1>0, <2>1, SnapAlone DEF SnapThread, Solo
<1>9. Tree(DOMAIN vols, k) = {} /\ DOMAIN old.todo = {1}
  BY <1>0, <1>2, <1>4, <1>5, <1>8 DEF Past, Moved
<1>10. SnapshotsOf(n) = {} /\ n \in DOMAIN rows
  BY <1>0, <1>2, <1>4, <1>8, <1>9 DEF SnapRenaming
<1>11. \A z \in SnapshotsOf(k) : /\ z \in DOMAIN rows /\ IsSnapshot(z) /\ Of(z) = k /\ z \in Keys
                                 /\ IsSnapshot(Renamed(z, n)) /\ Of(Renamed(z, n)) = n
  <2> SUFFICES ASSUME NEW z \in SnapshotsOf(k)
               PROVE  /\ z \in DOMAIN rows /\ IsSnapshot(z) /\ Of(z) = k /\ z \in Keys
                      /\ IsSnapshot(Renamed(z, n)) /\ Of(Renamed(z, n)) = n
    OBVIOUS
  <2>1. z \in DOMAIN rows /\ IsSnapshot(z) /\ Of(z) = k /\ z \in Keys
    BY DEF SnapshotsOf, TypeInv
  <2> QED
    BY <1>2, <2>1, RenamedFacts
<1>12. SnapRenaming(threads[t])'
  <2> SUFFICES ASSUME NEW i \in DOMAIN new.todo, NEW st, st = new.todo[i]
               PROVE  /\ st.do = "renamerow" /\ st.k \in DOMAIN rows /\ st.x \notin DOMAIN rows
                      /\ Of(st.x) \in DOMAIN rows
    BY <1>4, <1>7, Zenon DEF SnapRenaming, SnapshotsOf
  <2>1. st.do = "renamerow" /\ st.k \in SnapshotsOf(k) /\ st.x = Renamed(st.k, n)
    BY <1>6
  <2>2. st.k \in DOMAIN rows /\ IsSnapshot(st.x) /\ Of(st.x) = n
    BY <1>11, <2>1
  <2> QED
    BY <1>10, <2>1, <2>2 DEF SnapshotsOf
<1>13. SnapThread(threads[t])'
  BY <1>4, <1>12 DEF SnapThread, SnapMaking, SnapDeleting, Creates
<1>14. ASSUME NEW x \in DOMAIN rows, IsSnapshot(x)
       PROVE  Near(threads[t], x)'
  <2>1. Near(old, x)
    BY <1>8, <1>14
  <2>2. LeavingBy(old, x) => Of(x) = k /\ Renamed(x, n) \in DOMAIN vols
    BY <1>0, <1>2, <1>9 DEF LeavingBy
  <2>3. CASE Of(x) = k
    <3>1. x \notin DOMAIN vols
      BY <1>9, <2>3 DEF Tree
    <3>2. Renamed(x, n) \in DOMAIN vols
      BY <1>4, <2>1, <2>2, <3>1 DEF Near, UnfinishedBy, Creates
    <3>3. x \in SnapshotsOf(k)
      BY <1>14, <2>3 DEF SnapshotsOf
    <3>4. PICK i \in DOMAIN new.todo : new.todo[i].do = "renamerow" /\ new.todo[i].k = x
      BY <1>6, <3>3 DEF Pending
    <3>5. new.todo[i].x \in DOMAIN vols'
      BY <1>6, <1>7, <3>2, <3>4
    <3>6. new.todo # <<>> /\ new.todo[1].do = "renamerow"
      <4>1. 1 \in DOMAIN new.todo /\ new.todo # <<>>
        BY <1>6, <3>4
      <4> QED
        BY <1>6, <4>1
    <3>7. LeavingBy(threads[t], x)'
      BY <1>4, <3>4, <3>5, <3>6, Zenon DEF LeavingBy, Past
    <3> QED
      BY <3>7 DEF Near
  <2>4. CASE Of(x) # k
    BY <1>4, <1>7, <2>1, <2>2, <2>4 DEF Near, UnfinishedBy, Creates
  <2> QED
    BY <2>3, <2>4
<1> QED
  BY <1>7, <1>13, <1>14

(* Whatever works.                                                           *)
LEMMA SnapRuns ==
  ASSUME TypeInv, HostAssumption, Plans, ApartInv, SnapInv, ApartInv', NEW t \in Threads, Run(t)
  PROVE  SnapInv'
<1> SUFFICES ASSUME Apart', harm' = 0 PROVE SnapInv'
  BY DEF SnapInv
<1>1. Busy(t) /\ seen \subseteq seen' /\ seen' \subseteq seen \cup {"cut", "restored"} /\ harm = 0
  BY RunCommon, RunMarks
<1>2. Apart /\ Alone
  BY <1>1 DEF ApartInv, Apart
<1>3. Others(t) /\ threads[t].phase # "idle"
  BY <1>1, RunPlan DEF Others, Busy
<1>4. "stuck" \notin seen'
  BY <1>1, <1>2, <1>3, SnapAlone
<1>5. SnapThread(threads[t])' /\ \A x \in DOMAIN rows' : IsSnapshot(x) => Near(threads[t], x)'
  <2>1. CASE threads[t].kind \in Creates /\ ~threads[t].failed
    BY <1>1, <1>2, <2>1, SnapMakingRuns
  <2>2. CASE threads[t].kind \in Creates /\ threads[t].failed
    BY <1>1, <1>2, <1>4, <2>2, SnapUndoingRuns
  <2>3. CASE threads[t].kind = "delete"
    BY <1>1, <1>2, <2>3, SnapDeletingRuns
  <2>4. CASE threads[t].kind = "rename"
    <3>1. threads[t].todo[1].do \in {"check", "move", "renamerow", "RenameSnapshots"}
      BY <1>1, <2>4, NextStep
    <3>2. CASE threads[t].todo[1].do \in {"check", "move"}
      BY <1>1, <1>2, <2>4, <3>2, SnapMoving
    <3>3. CASE threads[t].todo[1].do = "renamerow"
      BY <1>1, <1>2, <2>4, <3>3, SnapRowRuns
    <3>4. CASE threads[t].todo[1].do = "RenameSnapshots"
      BY <1>1, <1>2, <2>4, <3>4, SnapSnapshotsRun
    <3> QED
      BY <3>1, <3>2, <3>3, <3>4
  <2>5. CASE threads[t].kind = "restore"
    BY <1>1, <1>2, <2>5, SnapRestoringRuns
  <2> QED
    BY <2>1, <2>2, <2>3, <2>4, <2>5, PlanFacts
<1> QED
  BY <1>2, <1>3, <1>4, <1>5, SnapSuffices

(* Whatever happens.                                                         *)
LEMMA NextSnap ==
  ASSUME TypeInv, HostAssumption, Plans, ApartInv, SnapInv, [Next]_vars
  PROVE  SnapInv'
<1>0. ApartInv'
  BY NextApart
<1>1. CASE \E t \in Threads : Request(t)
  BY <1>1, SnapRequest
<1>2. CASE \E t \in Threads : Run(t)
  BY <1>0, <1>2, SnapRuns
<1>3. CASE \E t \in Threads : Refuse(t) \/ Fault(t)
  BY <1>0, <1>3, SnapFails
<1>4. CASE \E t \in Threads : Return(t)
  BY <1>4, SnapReturn
<1>5. CASE Crash
  <2>1. harm' > 0 /\ harm' \in Nat
    BY <1>5, CrashEffects, HostAssumption DEF HostAssumption
  <2> QED
    BY <2>1 DEF SnapInv
<1>6. CASE UNCHANGED vars
  <2>1. rows' = rows /\ vols' = vols /\ threads' = threads /\ seen' = seen /\ harm' = harm
    BY <1>6 DEF vars
  <2>2. \A x \in DOMAIN rows : Belongs(x)' <=> Belongs(x)
    BY <2>1 DEF Belongs, LeavingBy, UnfinishedBy, Past
  <2>3. \A u \in Threads : SnapThread(threads[u])' <=> SnapThread(threads[u])
    BY <2>1 DEF SnapThread, SnapMaking, SnapDeleting, SnapRenaming, SnapshotsOf
  <2> QED
    BY <2>1, <2>2, <2>3 DEF SnapInv, Apart
<1> QED
  BY <1>1, <1>2, <1>3, <1>4, <1>5, <1>6 DEF Next
-----------------------------------------------------------------------------
(* The theorems.                                                             *)

Invariant == TypeInv /\ Plans /\ ApartInv /\ SnapInv /\ Ranges

(* At the beginning there is nothing.                                        *)
LEMMA InitInvariant == HostAssumption /\ Init => Invariant
<1> SUFFICES ASSUME HostAssumption, Init PROVE Invariant
  OBVIOUS
<1>0. rows = <<>> /\ vols = <<>> /\ served = 0 /\ harm = 0 /\ seen = {} /\ torn = {}
      /\ threads = [u \in Threads |-> Idle]
  BY DEF Init
<1>1. DOMAIN rows = {} /\ DOMAIN vols = {}
  BY <1>0
<1>2. \A u \in Threads : threads[u] = Idle
  BY <1>0
<1>3. Idle \in Records /\ ThreadType(Idle) /\ Idle.kind = "none" /\ Idle.phase = "idle" /\ ~Idle.inserted
      /\ ~Idle.failed /\ Idle.todo = <<>>
  BY DEF Idle, Records, ThreadType, Kinds7, Creates
<1>4. TypeInv
  <2>1. IsFiniteSet(DOMAIN rows)
    BY <1>1, FS_EmptySet
  <2>2. rows = [k \in DOMAIN rows |-> rows[k]] /\ vols = [k \in DOMAIN vols |-> vols[k]]
    BY <1>0
  <2>3. threads \in [Threads -> Records] /\ \A u \in Threads : ThreadType(threads[u])
    BY <1>0, <1>2, <1>3
  <2>4. 0 \in Nat /\ harm \in 0..MaxHarm
    BY <1>0, HostAssumption DEF HostAssumption
  <2> QED
    BY <1>0, <1>1, <2>1, <2>2, <2>3, <2>4 DEF TypeInv
<1>5. Plans
  <2>1. PlanInv(Idle)
    BY <1>3 DEF PlanInv, Making, Creates, Holds
  <2> QED
    BY <1>2, <2>1 DEF Plans
<1>6. \A u \in Threads : threads[u].phase = "idle"
  BY <1>2, <1>3
<1>7. ApartInv
  BY <1>1, <1>2, <1>6, IdleSolo DEF ApartInv, Alone, NoOrphan
<1>8. Ranges
  BY <1>1, <1>2, <1>3 DEF Ranges, Claims
<1>9. SnapInv
  BY <1>0, <1>1, <1>2, SnapIdle DEF SnapInv
<1> QED
  BY <1>4, <1>5, <1>7, <1>8, <1>9 DEF Invariant

(* Every step keeps what the proofs need.                                    *)
LEMMA NextInvariant == HostAssumption /\ Invariant /\ [Next]_vars => Invariant'
  BY NextTyped, NextApart, NextSnap, NextRanges DEF Invariant

(* The type invariant that the runs check.                                   *)
LEMMA Typed ==
  ASSUME TypeInv
  PROVE  TypeOK
<1>1. \A u \in Threads : threads[u].phase \in {"idle", "busy", "ok", "error"}
  BY ThreadFacts
<1>2. \A k \in DOMAIN rows : rows[k].id \in 1..served /\ rows[k].base \in Nat
  BY DEF TypeInv, RowSet
<1> QED
  BY <1>1, <1>2 DEF TypeInv, TypeOK

(* What the threads promise is what users see.                               *)
LEMMA Seen ==
  ASSUME TypeInv, Plans, ApartInv, SnapInv
  PROVE  NoOrphanVolume /\ AllOrNothing /\ DeleteWorks /\ SnapshotsHaveContainer
<1>1. NoOrphanVolume
  <2> SUFFICES ASSUME Quiet, Apart PROVE DOMAIN vols \subseteq DOMAIN rows \cup torn
    BY DEF NoOrphanVolume
  <2>1. \A y : ~Awaited(y)
    BY AllIdle DEF Quiet
  <2> QED
    BY <2>1 DEF ApartInv, NoOrphan, Kept
<1>2. AllOrNothing
  <2> SUFFICES ASSUME NEW t \in Threads, threads[t].phase = "error", threads[t].kind \in Creates,
                      threads[t].inserted, Apart, "stuck" \notin seen
               PROVE  threads[t].k \notin DOMAIN rows \cup (DOMAIN vols \ torn)
    BY DEF AllOrNothing
  <2>1. threads[t].todo = <<>> /\ threads[t].failed
    BY ThreadFacts DEF ThreadType
  <2>2. Undone(threads[t])
    BY DEF ApartInv, Solo
  <2>3. \A do, k : ~Pending(threads[t].todo, do, k) /\ ~Holds(threads[t].todo, do)
    BY <2>1 DEF Pending, Holds
  <2>4. threads[t].k \notin DOMAIN rows /\ ~Kept(threads[t].k)
    BY <2>1, <2>2, <2>3 DEF Undone
  <2> QED
    BY <2>4 DEF Kept
<1>3. DeleteWorks
  <2> SUFFICES ASSUME NEW t \in Threads, threads[t].kind = "delete", ~threads[t].fault, Apart
               PROVE  /\ ~threads[t].failed
                      /\ threads[t].phase = "ok" => threads[t].k \notin DOMAIN rows \cup DOMAIN vols
    BY DEF DeleteWorks
  <2>1. Deleted(threads[t])
    BY DEF ApartInv, Solo
  <2>2. CASE threads[t].phase = "ok"
    <3>1. threads[t].todo = <<>>
      BY <2>2, ThreadFacts DEF ThreadType
    <3>2. \A do, k : ~Pending(threads[t].todo, do, k)
      BY <3>1 DEF Pending
    <3> QED
      BY <2>1, <3>1, <3>2 DEF Deleted
  <2> QED
    BY <2>1, <2>2 DEF Deleted
<1>4. SnapshotsHaveContainer
  <2> SUFFICES ASSUME Quiet, Apart, harm = 0
               PROVE  \A k \in DOMAIN rows : IsSnapshot(k) => Of(k) \in DOMAIN rows /\ k \in DOMAIN vols
    BY DEF SnapshotsHaveContainer
  <2> QED
    BY SnapQuiet DEF Quiet
<1> QED
  BY <1>1, <1>2, <1>3, <1>4

(* Whatever the plans, the failures and the crashes: the invariant the next  *)
(* theorems follow from.                                                     *)
THEOREM InvariantHolds == Spec => []Invariant
<1>1. HostAssumption
  BY HostAssumption
<1>2. Init => Invariant
  BY <1>1, InitInvariant
<1>3. Invariant /\ [Next]_vars => Invariant'
  BY <1>1, NextInvariant
<1> QED
  BY <1>2, <1>3, PTL DEF Spec

(* Rows and volumes belong together (containers_post.go, container.go): once *)
(* requests are done a volume has its row, or a failed rename left it; a     *)
(* creation that fails leaves neither; a snapshot has its container.         *)
THEOREM RowsAndVolumes == Spec => []ContainersInv
<1>1. Invariant => ContainersInv
  BY Typed, Seen DEF Invariant, ContainersInv
<1> QED
  BY <1>1, InvariantHolds, PTL

(* A delete in which nothing fails works, whatever earlier requests, failures *)
(* and crashes have left (containerLXC.Delete).                              *)
THEOREM DeletesWork == Spec => []DeleteWorks
<1>1. Invariant => DeleteWorks
  BY Seen DEF Invariant
<1> QED
  BY <1>1, InvariantHolds, PTL

(* Isolated containers have ranges of host ids of their own, within those of *)
(* the daemon (findIdmap), for any sizes and any number of containers.       *)
THEOREM RangesApart == Spec => []IsolatedDisjoint
<1>0. HostAssumption
  BY HostAssumption
<1>1. Invariant => IsolatedDisjoint
  BY <1>0, RangesDisjoint DEF Invariant
<1> QED
  BY <1>1, InvariantHolds, PTL
=============================================================================
