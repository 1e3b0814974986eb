------------------------------ MODULE Migration ------------------------------
(* The migration of a container between two servers (lxd/migrate.go,         *)
(* lxd/storage.go, lxd/rsync.go, createFromMigration) and the client that    *)
(* asks for it (client.CopyContainer, tryCreateContainer, lxc move). The     *)
(* target pulls: it connects the control, the file system and, for a running *)
(* container, the CRIU socket of the source's operation. Headers are         *)
(* exchanged, the storage drivers send the snapshots and the container, a    *)
(* running one is frozen by CRIU and its state sent, and the target tells    *)
(* whether it has restored it.                                               *)
EXTENDS Naturals, Sequences, FiniteSets

CONSTANTS Drivers,        \* MigrationTypes: "rsync", "zfs", "btrfs"
          MaxAttempts,    \* addresses of the source the client tries
          MaxFaults       \* failing steps, cut connections and crashes

ASSUME MigrationAssumption ==
  /\ Drivers \subseteq {"rsync", "zfs", "btrfs"}
  /\ MaxAttempts \in Nat /\ MaxFaults \in Nat

VARIABLES live, move,     \* a running container; it is deleted in the end
          srcType, sinkType, \* MigrationType of the storages
          snaps,          \* number of snapshots of the container
          ct,             \* the source's container
          src,            \* migrationSourceWs and where Do is
          sink,           \* migrationSink, its goroutines and their results
          target,         \* the target's container: "absent", "created", "running"
          links,          \* <<socket, attempt>> connections that are open
          toSink, toSource, \* control messages, by attempt
          client, faults,
          crashed,        \* the source's daemon has been restarted
          replaced,       \* an attempt has connected to a migration under way
          changed         \* snapshots were made or deleted after they were listed

vars == <<live, move, srcType, sinkType, snaps, ct, src, sink, target, links,
          toSink, toSource, client, faults, crashed, replaced, changed>>
setup == <<live, move, srcType, sinkType>>

Attempts == 1..MaxAttempts
Sockets == IF live THEN <<"control", "fs", "criu">> ELSE <<"control", "fs">>
NoSink == [n |-> 0, dialled |-> 0, at |-> "none", op |-> "none", fs |-> "rsync", expect |-> 0, got |-> <<>>,
           temp |-> {}, transfer |-> "none", restore |-> "none"]

SourceOpen(sock) == <<sock, src.conn[sock]>> \in links
UsingOpen(sock) == <<sock, src.using>> \in links      \* the one the step at hand has taken
SinkOpen(sock) == <<sock, sink.n>> \in links
Fault == faults < MaxFaults /\ faults' = faults + 1

(* What the source sends: each snapshot, and the container as it is then.    *)
Snapshot == "snapshot"
Rootfs == IF ct = "running" THEN "running" ELSE "stopped"
Item == IF src.i <= src.listed THEN Snapshot ELSE Rootfs

(* The drivers of the source: the temporary snapshots a send of the          *)
(* container starts from, and those it leaves. The first send makes one of   *)
(* the running container, and the last, after the checkpoint, sends what has *)
(* changed since. Rsync compares the files and needs none.                   *)
rsyncSends(last) == [from |-> {}, leaves |-> {}]
zfsSendWhileRunning == [from |-> {}, leaves |-> {"running"}]
zfsSendAfterCheckpoint == [from |-> {"running"}, leaves |-> {"stopped"}]
zfsSends(last) == IF last THEN zfsSendAfterCheckpoint ELSE zfsSendWhileRunning
(* Btrfs deletes the first one when it has been sent.                        *)
btrfsSendWhileRunning == [from |-> {}, leaves |-> {}]
btrfsSendAfterCheckpoint == [from |-> {"running"}, leaves |-> {"stopped"}]
btrfsSends(last) == IF last THEN btrfsSendAfterCheckpoint ELSE btrfsSendWhileRunning

Sends(fs, last) ==
  CASE fs = "zfs" -> zfsSends(last) [] fs = "btrfs" -> btrfsSends(last) [] OTHER -> rsyncSends(last)

(* What a received part leaves at the target until all have come: zfs        *)
(* receives the source's temporary snapshots too, btrfs deletes the one it   *)
(* has made the container from.                                              *)
zfsMigrationSink(part) == IF part = "snapshot" THEN {} ELSE {part}
btrfsMigrationSink(part) == {}
rsyncMigrationSink(part) == {}
Leaves(fs, part) ==
  CASE fs = "zfs" -> zfsMigrationSink(part) [] fs = "btrfs" -> btrfsMigrationSink(part)
    [] OTHER -> rsyncMigrationSink(part)

(* The driver can send the next part.                                        *)
CanSend == Sends(src.fs, src.at = "final").from \subseteq src.temp

(* The connections of one end, closed by disconnect; what was sent before is *)
(* still received.                                                           *)
LinksOf(n) == {l \in links : l[2] = n}
SourceLinks == {<<k, src.conn[k]>> : k \in DOMAIN src.conn}
-----------------------------------------------------------------------------
(* The client asks the source for the migration, which waits for its         *)
(* connections.                                                              *)
NewMigrationSource ==
  [at |-> "waiting", op |-> "running", conn |-> [k \in {"control", "fs", "criu"} |-> 0],
   using |-> 0, fs |-> srcType, listed |-> 0, i |-> 0, temp |-> {}]

CopyContainer ==
  /\ client = "asking"
  /\ client' = "copying"
  /\ src' = NewMigrationSource
  /\ UNCHANGED <<setup, snaps, ct, sink, target, links, toSink, toSource, faults, crashed, replaced, changed>>

(* Then it asks the target to pull it from one address of the source after   *)
(* the other. The target creates the container first.                        *)
createFromMigration(n) ==
  /\ target = "absent"
  /\ sink' = [NoSink EXCEPT !.n = n, !.at = "connect", !.op = "running"]
  /\ target' = "created"

Attempt ==
  /\ client = "copying" /\ sink.op # "running" /\ sink.op # "success"
  /\ sink.n < MaxAttempts
  /\ createFromMigration(sink.n + 1)
  /\ UNCHANGED <<setup, snaps, ct, src, links, toSink, toSource, client, faults, crashed, replaced, changed>>

(* lxc copy ends with the target's operation; lxc move goes on.              *)
Finish ==
  /\ client = "copying"
  /\ \/ sink.op = "success" /\ client' = IF move THEN "deleting" ELSE "done"
     \/ sink.op = "failure" /\ (sink.n = MaxAttempts \/ target # "absent") /\ client' = "failed"
  /\ UNCHANGED <<setup, snaps, ct, src, sink, target, links, toSink, toSource, faults, crashed, replaced, changed>>

DeleteSource ==
  /\ client = "deleting"
  /\ client' = "done"
  /\ ct' = "gone"
  /\ UNCHANGED <<setup, snaps, src, sink, target, links, toSink, toSource, faults, crashed, replaced, changed>>

(* Snapshots of the source come and go.                                      *)
ChangeSnapshots ==
  /\ ct # "gone" /\ snaps' \in {0, 1, 2} \ {snaps} /\ Fault
  /\ changed' = (changed \/ src.at \in {"header", "negotiate"})
  /\ UNCHANGED <<setup, ct, src, sink, target, links, toSink, toSource, client, crashed, replaced>>
-----------------------------------------------------------------------------
(* Mutant: the target leaves without closing its connections.                *)
SinkLeaves(messages) ==
  /\ sink' = [sink EXCEPT !.at = "ended", !.op = "failure"]
  /\ target' = IF target = "created" THEN "absent" ELSE target
  /\ toSource' = toSource
  /\ links' = links

(* The target's side. A failing target deletes its container, tells the      *)
(* source if it can and closes its connections.                              *)
SinkFails(messages) ==
  /\ sink' = [sink EXCEPT !.at = "ended", !.op = "failure"]
  /\ target' = IF target = "created" THEN "absent" ELSE target
  /\ toSource' = IF SinkOpen("control") THEN [toSource EXCEPT ![sink.n] = @ \o messages] ELSE toSource
  /\ links' = links \ LinksOf(sink.n)

(* The source stores the connection it is given, whatever it has.            *)
Connect(sock, n) ==
  /\ src.op = "running"
  /\ links' = links \cup {<<sock, n>>}
  /\ src' = [src EXCEPT !.conn[sock] = n]
  /\ replaced' = (replaced \/ src.at # "waiting")

SinkConnects ==
  LET sock == Sockets[sink.dialled + 1] IN
  /\ sink.at = "connect"
  /\ \/ /\ Connect(sock, sink.n)
        /\ sink' = [sink EXCEPT !.dialled = @ + 1, !.at = IF sock = Sockets[Len(Sockets)] THEN "recv" ELSE "connect"]
        /\ UNCHANGED <<target, toSource, faults>>
     \/ /\ IF src.op = "running" THEN Fault ELSE faults' = faults
        /\ SinkFails(<<"error">>)
        /\ UNCHANGED <<src, replaced>>
  /\ UNCHANGED <<setup, snaps, ct, toSink, client, crashed, changed>>

(* The drivers agree on a transfer, or on rsync.                             *)
SinkReceivesHeader ==
  /\ sink.at = "recv"
  /\ \/ /\ toSink[sink.n] # <<>> /\ Head(toSink[sink.n]).kind = "header"
        /\ toSink' = [toSink EXCEPT ![sink.n] = Tail(@)]
        /\ LET header == Head(toSink[sink.n]) IN
           sink' = [sink EXCEPT !.at = "reply", !.expect = header.snaps + (IF live THEN 2 ELSE 1),
                                !.fs = IF header.fs = sinkType THEN sinkType ELSE "rsync"]
        /\ UNCHANGED <<target, toSource, links>>
     \/ /\ IF toSink[sink.n] = <<>> THEN ~SinkOpen("control") ELSE Head(toSink[sink.n]).kind # "header"
        /\ SinkFails(<<"error">>)
        /\ toSink' = toSink
  /\ UNCHANGED <<setup, snaps, ct, src, client, faults, crashed, replaced, changed>>

SinkReplies ==
  /\ sink.at = "reply"
  /\ IF SinkOpen("control")
     THEN /\ toSource' = [toSource EXCEPT ![sink.n] = Append(@, sink.fs)]
          /\ sink' = [sink EXCEPT !.at = "select", !.transfer = "running",
                                  !.restore = IF live THEN "criu" ELSE "fs"]
          /\ UNCHANGED <<target, links>>
     ELSE SinkFails(<<>>)
  /\ UNCHANGED <<setup, snaps, ct, src, toSink, client, faults, crashed, replaced, changed>>

(* The goroutine that receives the file system fails by itself or with its   *)
(* connection.                                                               *)
TransferFails ==
  /\ sink.transfer = "running"
  /\ IF SinkOpen("fs") THEN Fault ELSE faults' = faults
  /\ sink' = [sink EXCEPT !.transfer = "error", !.temp = {}]
  /\ links' = links \ {<<"fs", sink.n>>}
  /\ UNCHANGED <<setup, snaps, ct, src, target, toSink, toSource, client, crashed, replaced, changed>>

(* The goroutine that restores: CRIU's images first, then the end of the     *)
(* transfer, then the container itself.                                      *)
CriuFails ==
  /\ sink.restore = "criu"
  /\ IF SinkOpen("criu") THEN Fault ELSE faults' = faults
  /\ sink' = [sink EXCEPT !.restore = "error"]
  /\ links' = links \ {<<"criu", sink.n>>}
  /\ UNCHANGED <<setup, snaps, ct, src, target, toSink, toSource, client, crashed, replaced, changed>>

(* A running container is restored from CRIU's images.                       *)
MigrateRestore == target' = IF live THEN "running" ELSE target

Restore ==
  /\ sink.restore = "fs" /\ sink.transfer \in {"ok", "error"}
  /\ \/ /\ sink.transfer = "ok" /\ target # "absent"
        /\ sink' = [sink EXCEPT !.restore = "ok"]
        /\ MigrateRestore
        /\ faults' = faults
     \/ /\ IF sink.transfer = "ok" /\ target # "absent" THEN live /\ Fault ELSE faults' = faults
        /\ sink' = [sink EXCEPT !.restore = "error"]
        /\ target' = target
  /\ UNCHANGED <<setup, snaps, ct, src, links, toSink, toSource, client, crashed, replaced, changed>>

(* The result is told to the source and the connections are closed; that it  *)
(* may not arrive is not noticed.                                            *)
SinkReportsSuccess ==
  /\ sink.at = "select" /\ sink.restore = "ok"
  /\ toSource' = IF SinkOpen("control") THEN [toSource EXCEPT ![sink.n] = Append(@, "ok")] ELSE toSource
  /\ sink' = [sink EXCEPT !.at = "ended", !.op = "success"]
  /\ links' = links \ LinksOf(sink.n)
  /\ UNCHANGED <<setup, snaps, ct, src, target, toSink, client, faults, crashed, replaced, changed>>

SinkReportsFailure ==
  /\ sink.at = "select" /\ sink.restore = "error"
  /\ SinkFails(<<"error">>)
  /\ UNCHANGED <<setup, snaps, ct, src, toSink, client, faults, crashed, replaced, changed>>

(* Or the source says it has failed, or is gone; a container that has been   *)
(* restored in the meantime is deleted, but not stopped.                     *)
SinkHearsSource ==
  /\ sink.at = "select"
  /\ IF toSink[sink.n] = <<>> THEN ~SinkOpen("control") ELSE TRUE
  /\ SinkFails(<<>>)
  /\ UNCHANGED <<setup, snaps, ct, src, toSink, client, faults, crashed, replaced, changed>>
-----------------------------------------------------------------------------
(* The source's side.                                                        *)
SourceEnds(op, messages) ==
  /\ src' = [src EXCEPT !.at = "ended", !.op = op, !.temp = {}]
  /\ toSink' = IF SourceOpen("control") THEN [toSink EXCEPT ![src.conn["control"]] = @ \o messages] ELSE toSink
  /\ links' = links \ SourceLinks
Error == [kind |-> "error"]

(* abort: the driver cleans up, the target is told, the connections closed.  *)
Abort == SourceEnds("failure", <<Error>>)

(* Do waits for all connections, mounts a stopped container and lists what   *)
(* there is to send. When that fails it just returns: its connections stay.  *)
SourceStarts ==
  /\ src.at = "waiting" /\ \A k \in 1..Len(Sockets) : src.conn[Sockets[k]] # 0
  /\ \/ src' = [src EXCEPT !.at = "header", !.listed = snaps] /\ faults' = faults
     \/ ~live /\ Fault /\ src' = [src EXCEPT !.at = "abandoned", !.op = "failure"]
  /\ UNCHANGED <<setup, snaps, ct, sink, target, links, toSink, toSource, client, crashed, replaced, changed>>

(* The collector closes connections nobody holds any more.                   *)
Collect ==
  /\ src.at = "abandoned"
  /\ src' = [src EXCEPT !.at = "ended"]
  /\ links' = links \ SourceLinks
  /\ UNCHANGED <<setup, snaps, ct, sink, target, toSink, toSource, client, faults, crashed, replaced, changed>>

(* The header is sent no matter what, then the driver's error if it has one. *)
SourceSendsHeader ==
  LET header == [kind |-> "header", fs |-> srcType, snaps |-> src.listed] IN
  /\ src.at = "header"
  /\ \/ /\ SourceOpen("control")
        /\ toSink' = [toSink EXCEPT ![src.conn["control"]] = Append(@, header)]
        /\ src' = [src EXCEPT !.at = "negotiate", !.using = src.conn["control"]]
        /\ UNCHANGED <<links, faults>>
     \/ ~SourceOpen("control") /\ SourceEnds("failure", <<>>) /\ faults' = faults
     \/ SourceOpen("control") /\ Fault /\ SourceEnds("failure", <<header, Error>>)
  /\ UNCHANGED <<setup, snaps, ct, sink, target, toSource, client, crashed, replaced, changed>>

FromSink == toSource[src.using]
Received == toSource' = [toSource EXCEPT ![src.using] = Tail(@)]

(* Mutant: the source keeps its own driver.                                  *)
NegotiateNothing ==
  /\ src.at = "negotiate" /\ FromSink # <<>>
  /\ Received
  /\ src' = [src EXCEPT !.at = "send", !.using = src.conn["fs"], !.fs = srcType, !.i = 1]
  /\ UNCHANGED <<setup, snaps, ct, sink, target, links, toSink, client, faults, crashed, replaced, changed>>

(* With rsync instead, the snapshots are listed anew.                        *)
SourceNegotiates ==
  /\ src.at = "negotiate"
  /\ \/ /\ FromSink # <<>> /\ Head(FromSink) # "error"
        /\ Received
        /\ src' = [src EXCEPT !.at = "send", !.using = src.conn["fs"], !.fs = Head(FromSink),
                              !.i = 1,
                              !.listed = IF Head(FromSink) = srcType THEN @ ELSE snaps]
        /\ UNCHANGED <<toSink, links>>
     \/ /\ IF FromSink = <<>> THEN ~UsingOpen("control") ELSE Head(FromSink) = "error"
        /\ SourceEnds("failure", <<Error>>)
        /\ toSource' = toSource
  /\ UNCHANGED <<setup, snaps, ct, sink, target, client, faults, crashed, replaced, changed>>

(* One part of the file system: both ends work on it at the same time. Each  *)
(* removes its temporary snapshots when all is done.                         *)
Transfer ==
  LET part == IF src.at = "send" THEN Item ELSE Rootfs
      done == Len(sink.got) + 1 = sink.expect IN
  /\ src.at \in {"send", "final"} /\ UsingOpen("fs") /\ CanSend
  /\ sink.transfer = "running" /\ src.using = sink.n
  /\ sink' = [sink EXCEPT !.got = Append(@, part), !.transfer = IF done THEN "ok" ELSE "running",
                          !.temp = IF done THEN {} ELSE @ \cup Leaves(sink.fs, part)]
  /\ src' = IF src.at = "send" /\ src.i <= src.listed THEN [src EXCEPT !.i = @ + 1]
            ELSE IF src.at = "send" /\ live
                 THEN [src EXCEPT !.at = "dump", !.temp = Sends(src.fs, FALSE).leaves]
            ELSE [src EXCEPT !.at = "ack", !.using = src.conn["control"], !.temp = {}]
  /\ UNCHANGED <<setup, snaps, ct, target, links, toSink, toSource, client, faults, crashed, replaced, changed>>

(* The driver fails, or nobody receives at the other end any more.           *)
SendFails ==
  /\ src.at \in {"send", "criu", "final"}
  /\ LET sock == IF src.at = "criu" THEN "criu" ELSE "fs" IN
     IF UsingOpen(sock) /\ CanSend THEN Fault ELSE faults' = faults
  /\ Abort
  /\ UNCHANGED <<setup, snaps, ct, sink, target, toSource, client, crashed, replaced, changed>>

(* CRIU dumps the container and its script waits to be told the outcome.     *)
MigrateDump == ct = "running" /\ ct' = "frozen"

Dump ==
  /\ src.at = "dump"
  /\ \/ /\ MigrateDump
        /\ src' = [src EXCEPT !.at = "criu", !.using = src.conn["criu"]]
        /\ UNCHANGED <<toSink, links, faults>>
     \/ /\ IF ct = "running" THEN Fault ELSE faults' = faults
        /\ Abort
        /\ ct' = ct
  /\ UNCHANGED <<setup, snaps, sink, target, toSource, client, crashed, replaced, changed>>

SendCriu ==
  /\ src.at = "criu" /\ UsingOpen("criu")
  /\ sink.restore = "criu" /\ src.using = sink.n
  /\ src' = [src EXCEPT !.at = "final", !.using = src.conn["fs"]]
  /\ sink' = [sink EXCEPT !.restore = "fs"]
  /\ UNCHANGED <<setup, snaps, ct, target, links, toSink, toSource, client, faults, crashed, replaced, changed>>

(* Mutant: without an answer the container runs on.                          *)
AckOrResume ==
  /\ src.at = "ack"
  /\ \/ /\ FromSink # <<>>
        /\ Received
        /\ ct' = CASE ct = "frozen" -> (IF Head(FromSink) = "ok" THEN "stopped" ELSE "running") [] OTHER -> ct
        /\ SourceEnds(IF Head(FromSink) = "ok" THEN "success" ELSE "failure", <<>>)
     \/ /\ FromSink = <<>> /\ ~UsingOpen("control")
        /\ SourceEnds("failure", <<>>)
        /\ ct' = IF ct = "frozen" THEN "running" ELSE ct
        /\ UNCHANGED toSource
  /\ UNCHANGED <<setup, snaps, sink, target, client, faults, crashed, replaced, changed>>

(* The answer reaches CRIU: its script lets it kill the container or run on. *)
(* Without an answer the script is told nothing.                             *)
Acknowledged ==
  /\ src.at = "ack"
  /\ \/ /\ FromSink # <<>>
        /\ Received
        /\ ct' = CASE ct = "frozen" -> (IF Head(FromSink) = "ok" THEN "stopped" ELSE "running") [] OTHER -> ct
        /\ SourceEnds(IF Head(FromSink) = "ok" THEN "success" ELSE "failure", <<>>)
     \/ /\ FromSink = <<>> /\ ~UsingOpen("control")
        /\ SourceEnds("failure", <<>>)
        /\ UNCHANGED <<ct, toSource>>
  /\ UNCHANGED <<setup, snaps, sink, target, client, faults, crashed, replaced, changed>>
-----------------------------------------------------------------------------
(* The network loses a connection and what was under way on it.              *)
Cut ==
  \E l \in links :
     /\ Fault
     /\ links' = links \ {l}
     /\ toSink' = IF l[1] = "control" THEN [toSink EXCEPT ![l[2]] = <<>>] ELSE toSink
     /\ toSource' = IF l[1] = "control" THEN [toSource EXCEPT ![l[2]] = <<>>] ELSE toSource
     /\ UNCHANGED <<setup, snaps, ct, src, sink, target, client, crashed, replaced, changed>>

(* The source's daemon dies: CRIU's script fails and the container runs on.  *)
SourceCrashes ==
  /\ src.op = "running" /\ Fault
  /\ src' = [src EXCEPT !.at = "ended", !.op = "failure"]
  /\ ct' = IF ct = "frozen" THEN "running" ELSE ct
  /\ links' = links \ SourceLinks
  /\ crashed' = TRUE
  /\ UNCHANGED <<setup, snaps, sink, target, toSink, toSource, client, replaced, changed>>

(* The target's daemon dies and leaves what it has received.                 *)
SinkCrashes ==
  /\ sink.op = "running" /\ Fault
  /\ sink' = [sink EXCEPT !.at = "ended", !.op = "failure", !.transfer = "none", !.restore = "none"]
  /\ links' = links \ LinksOf(sink.n)
  /\ UNCHANGED <<setup, snaps, ct, src, target, toSink, toSource, client, crashed, replaced, changed>>

Init ==
  /\ live \in BOOLEAN /\ move \in BOOLEAN
  /\ srcType \in Drivers /\ sinkType \in Drivers
  /\ snaps = 1
  /\ ct = IF live THEN "running" ELSE "stopped"
  /\ src = [NewMigrationSource EXCEPT !.op = "none"]
  /\ sink = NoSink /\ target = "absent"
  /\ links = {}
  /\ toSink = [n \in Attempts |-> <<>>] /\ toSource = [n \in Attempts |-> <<>>]
  /\ client = "asking" /\ faults = 0 /\ crashed = FALSE /\ replaced = FALSE /\ changed = FALSE

SourceStep ==
  \/ SourceStarts \/ Collect \/ SourceSendsHeader \/ SourceNegotiates \/ Dump \/ Acknowledged
SinkStep ==
  \/ SinkConnects \/ SinkReceivesHeader \/ SinkReplies \/ Restore
  \/ SinkReportsSuccess \/ SinkReportsFailure \/ SinkHearsSource
Both == Transfer \/ SendCriu
Broken == SendFails \/ TransferFails \/ CriuFails
ClientStep == CopyContainer \/ Attempt \/ Finish \/ DeleteSource

Next ==
  \/ SourceStep \/ SinkStep \/ Both \/ Broken \/ ClientStep
  \/ ChangeSnapshots \/ Cut \/ SourceCrashes \/ SinkCrashes

(* Every goroutine goes on while it can, and a broken connection is noticed. *)
Spec ==
  /\ Init /\ [][Next]_vars
  /\ WF_vars(SourceStep) /\ WF_vars(SinkStep) /\ WF_vars(Both) /\ WF_vars(ClientStep)
  /\ WF_vars(SendFails /\ faults' = faults)
  /\ WF_vars(TransferFails /\ faults' = faults) /\ WF_vars(CriuFails /\ faults' = faults)
-----------------------------------------------------------------------------
(* Every variable has its type, and what is received was expected.           *)
TypeOK ==
  /\ ct \in {"running", "frozen", "stopped", "gone"}
  /\ target \in {"absent", "created", "running"}
  /\ src.op \in {"none", "running", "success", "failure"} /\ src.i <= src.listed + 1
  /\ Len(sink.got) <= sink.expect
  /\ links \subseteq ({"control", "fs", "criu"} \X Attempts)
  /\ client \in {"asking", "copying", "deleting", "done", "failed"}

Whole == target # "absent" /\ sink.got # <<>> /\ sink.got[Len(sink.got)] = "stopped"

(* The container never runs on both servers: the source's is frozen until    *)
(* the target has answered, and stays so without an answer, unless the       *)
(* source's daemon itself is restarted (migrate.go, Do of source and sink).  *)
NoSplitBrain == crashed \/ ~(ct = "running" /\ target = "running")

(* A container is deleted at the source only when the target has all of it,  *)
(* as it was when it was frozen or stopped, whatever failed on the way and   *)
(* whichever attempt succeeded (lxc/move.go, tryCreateContainer).            *)
NothingLost == (ct = "gone" /\ ~changed) => (sink.op = "success" /\ Whole)

(* The source's operation succeeds only when the target's container is       *)
(* whole, and runs if it ran: an answer is never taken for another.          *)
AckMeansDone == (src.op = "success" /\ ~changed) => (Whole /\ (live => target = "running"))

(* Both ends use the same driver for the transfer.                           *)
DriversAgree ==
  (src.at \in {"send", "final"} /\ src.using = sink.n /\ sink.at = "select")
     => src.fs = sink.fs

(* The snapshots the drivers make to send from, and those zfs receives, are  *)
(* gone when the migration is over, at whatever point it failed, unless a    *)
(* daemon was restarted (Cleanup, abort, the deferred part of MigrationSink). *)
TempRemoved ==
  /\ (src.at = "ended" /\ ~crashed) => src.temp = {}
  /\ sink.transfer \in {"ok", "error"} => sink.temp = {}

(* Neither end waits for ever for the other once all sockets are connected,  *)
(* unless they count the snapshots differently or another attempt has        *)
(* replaced the connections of one under way.                                *)
BothEnd ==
  /\ (src.at # "waiting") ~> (src.at = "ended" \/ changed \/ replaced)
  /\ (sink.op = "running") ~> (sink.op # "running" \/ changed \/ replaced)

(* Both ends are in step: they use one driver, expect what is sent, and      *)
(* leave nothing temporary behind.                                           *)
InStep == TypeOK /\ DriversAgree /\ TempRemoved

(* There is always one container and never two: it runs on one server only,  *)
(* is deleted only when the target has all of it, and success means that the *)
(* target's is whole.                                                        *)
OneContainer == NoSplitBrain /\ NothingLost /\ AckMeansDone
=============================================================================
