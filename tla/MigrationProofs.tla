-------------------------- MODULE MigrationProofs --------------------------
(* Proofs about Migration: the container never runs on both servers, is      *)
(* deleted only when the target has all of it, and both ends stay in step,   *)
(* for any number of addresses, failures and snapshots.                      *)
(*                                                                           *)
(* The argument is that the source sends one header.  Only the attempt that  *)
(* receives it answers, receives files and restores, so whatever connections *)
(* later attempts replace, the source counts the parts with the attempt that *)
(* counts them too, and reads its answers and nobody else's.                 *)
EXTENDS Migration, TLAPS

Fs == Drivers \cup {"rsync"}
Answers == Fs \cup {"ok", "error"}
Headers == [kind : {"header"}, fs : Drivers, snaps : Nat]
Messages == Headers \cup [kind : {"error"}]
Parts == {"snapshot", "running", "stopped"}
Socks == {"control", "fs", "criu"}

SourceRecord ==
  [at : {"waiting", "header", "negotiate", "send", "dump", "criu", "final", "ack", "abandoned", "ended"},
   op : {"none", "running", "success", "failure"}, conn : [Socks -> 0 .. MaxAttempts],
   using : 0 .. MaxAttempts, fs : Answers, listed : Nat, i : Nat, temp : SUBSET Parts]
SinkRecord ==
  [n : 0 .. MaxAttempts, dialled : Nat, at : {"none", "connect", "recv", "reply", "select", "ended"},
   op : {"none", "running", "success", "failure"}, fs : Fs, expect : Nat, got : Seq(Parts),
   temp : SUBSET Parts, transfer : {"none", "running", "ok", "error"},
   restore : {"none", "criu", "fs", "ok", "error"}]

Types ==
  /\ live \in BOOLEAN /\ move \in BOOLEAN /\ crashed \in BOOLEAN /\ replaced \in BOOLEAN /\ changed \in BOOLEAN
  /\ srcType \in Drivers /\ sinkType \in Drivers /\ snaps \in Nat /\ faults \in Nat
  /\ ct \in {"running", "frozen", "stopped", "gone"}
  /\ target \in {"absent", "created", "running"}
  /\ client \in {"asking", "copying", "deleting", "done", "failed"}
  /\ src \in SourceRecord /\ sink \in SinkRecord
  /\ links \subseteq (Socks \X Attempts)
  /\ toSink \in [Attempts -> Seq(Messages)] /\ toSource \in [Attempts -> Seq(Answers)]

\* The attempt at hand has received the header.
Served == sink.expect > 0
\* The header is on its way to it.
Pending == \E j \in 1 .. Len(toSink[sink.n]) : toSink[sink.n][j].kind = "header"

Silent == {"waiting", "header", "abandoned"}            \* no header has been sent
Sending == {"send", "dump", "criu", "final", "ack"}      \* an answer to it has been received

\* Nothing was sent to or by an attempt that is still to come.
BoundsInv ==
  /\ src.using <= sink.n /\ \A k \in Socks : src.conn[k] <= sink.n
  /\ \A n \in Attempts : n > sink.n => toSink[n] = <<>> /\ toSource[n] = <<>>
  /\ client = "asking" => sink = NoSink /\ src.at = "waiting" /\ src.op = "none"
  /\ (client = "deleting" \/ ct = "gone") => sink.op = "success"
  /\ src.op = "success" => sink.op = "success"

\* The target by itself.
SinkInv ==
  /\ sink.op = "running" <=> sink.at \in {"connect", "recv", "reply", "select"}
  /\ sink.op = "running" => target # "absent" /\ sink.n \in Attempts
  /\ sink.op = "success" => /\ sink.at = "ended" /\ sink.restore = "ok" /\ target # "absent" /\ sink.n \in Attempts
                            /\ live => target = "running"
  /\ sink.at = "select" /\ sink.restore = "ok" /\ live => target = "running"
  /\ target = "running" => /\ live /\ Served
                           /\ sink.restore = "ok" \/ (sink.restore = "none" /\ sink.at = "ended")
  /\ sink.at = "connect" => sink.dialled < Len(Sockets)
  /\ sink.at \in {"none", "connect", "recv"} => ~Served
  /\ sink.at \in {"reply", "select"} => Served
  /\ ~Served \/ sink.at = "reply" => sink.transfer = "none" /\ sink.restore = "none" /\ sink.got = <<>>
  /\ Len(sink.got) <= sink.expect /\ (sink.transfer = "running" => Len(sink.got) < sink.expect)
  /\ sink.restore = "ok" => sink.transfer = "ok"
  /\ sink.transfer \in {"ok", "error"} => sink.temp = {}

\* The source by itself, and the container.
SourceInv ==
  /\ src.i <= src.listed + 1 /\ (src.at \in {"waiting", "header", "negotiate"} => src.i = 0)
  /\ src.at \in Sending \cup {"header", "negotiate"} => src.conn["control"] # 0
  /\ src.at \in {"negotiate", "ack"} => src.using # 0
  /\ ~changed /\ src.at \in {"header", "negotiate"} => snaps = src.listed
  /\ src.at \in Silent \cup {"negotiate", "send"} \/ (src.at = "ended" /\ ~crashed) => src.temp = {}
  /\ src.at \in {"dump", "criu", "final"} => live
  /\ src.at = "send" => src.i >= 1
  /\ ~live => ct \in {"stopped", "gone"}
  /\ live /\ src.at \in {"criu", "final", "ack"} => ct # "running"
  /\ live /\ ~crashed /\ (sink.restore \in {"fs", "ok"} \/ target = "running") => ct # "running"

\* The header: it is the first message to one attempt.
HeaderInv ==
  /\ src.at \in Silent => ~Served /\ \A n \in Attempts : toSink[n] = <<>>
  /\ \A n \in Attempts : \A j \in 1 .. Len(toSink[n]) :
        toSink[n][j].kind = "header" => j = 1 /\ (~changed => toSink[n][j].snaps = src.listed)
  /\ sink.n # 0 /\ Pending =>
        /\ ~Served /\ src.at \in {"negotiate", "ended"} /\ src.conn["control"] = sink.n
        /\ src.at = "negotiate" => src.using = sink.n
  /\ Served =>
        /\ sink.n # 0 /\ src.conn["control"] = sink.n
        /\ src.at \in {"negotiate", "ack"} => src.using = sink.n
        /\ ~changed => sink.expect = src.listed + (IF live THEN 2 ELSE 1)
        /\ src.at \in Sending => sink.at \in {"select", "ended"} /\ src.fs = sink.fs

\* What an answer from the attempt at hand says, and that no other says "ok".
Says(e) ==
  /\ e = "error" => /\ sink.at = "ended" /\ sink.op = "failure"
                    /\ sink.restore = (IF Served THEN "error" ELSE "none")
  /\ e = "ok" => sink.op = "success"
  /\ e \notin {"ok", "error"} => /\ e = sink.fs /\ Served /\ sink.at \in {"select", "ended"}
                                 /\ src.at \in {"negotiate", "ended"}

AnswerInv ==
  /\ \A n \in Attempts : \A j \in 1 .. Len(toSource[n]) :
        /\ n # sink.n => toSource[n][j] # "ok"
        /\ n = sink.n => Says(toSource[n][j])
        /\ j > 1 => toSource[n][j] \in {"ok", "error"}
  /\ sink.at \in {"connect", "recv", "reply"} => toSource[sink.n] = <<>>

\* Both ends count the parts alike, and the last is the container at rest.
CountInv ==
  /\ src.at = "negotiate" => sink.got = <<>> /\ sink.transfer # "ok"
  /\ ~changed /\ sink.transfer = "running" =>
        /\ src.at = "send" => Len(sink.got) + 1 = src.i
        /\ src.at \in {"dump", "criu", "final"} => Len(sink.got) = src.listed + 1
        /\ src.at # "ack"
  /\ ~changed /\ sink.transfer = "ok" => sink.got # <<>> /\ sink.got[Len(sink.got)] = "stopped"

MigrationInv ==
  /\ Types /\ BoundsInv /\ SinkInv /\ SourceInv /\ HeaderInv /\ AnswerInv /\ CountInv
-----------------------------------------------------------------------------
(* Queues                                                                    *)

\* What is received, or lost, goes from the front of a queue.
Shrinks(new, old) == \A j \in 1 .. Len(new) : \E k \in j .. Len(old) : new[j] = old[k]
\* No header is added to a queue.
NoHeader(new, old) ==
  \A j \in 1 .. Len(new) : new[j].kind # "header" \/ \E k \in j .. Len(old) : new[j] = old[k]

\* A queue after its first message was received.
LEMMA TailOf ==
    ASSUME NEW S, NEW q \in Seq(S), q # <<>>
    PROVE  /\ Len(q) \in Nat /\ Len(q) >= 1 /\ Head(q) = q[1] /\ q[1] \in S
           /\ Tail(q) \in Seq(S) /\ Len(Tail(q)) = Len(q) - 1
           /\ \A j \in 1 .. Len(Tail(q)) : Tail(q)[j] = q[j + 1]
           /\ Shrinks(Tail(q), q)
<1>1. /\ Len(q) \in Nat /\ Len(q) >= 1 /\ Head(q) = q[1] /\ q[1] \in S
      /\ Tail(q) \in Seq(S) /\ Len(Tail(q)) = Len(q) - 1
      /\ \A j \in 1 .. Len(Tail(q)) : Tail(q)[j] = q[j + 1]
  OBVIOUS
<1>2. ASSUME NEW j \in 1 .. Len(Tail(q)) PROVE \E k \in j .. Len(q) : Tail(q)[j] = q[k]
  <2>1. j + 1 \in j .. Len(q) /\ Tail(q)[j] = q[j + 1]
    BY <1>1
  <2> QED
    BY <2>1
<1> QED
  BY <1>1, <1>2 DEF Shrinks

\* A queue after a message was added.
LEMMA AddOne ==
    ASSUME NEW S, NEW q \in Seq(S), NEW e \in S
    PROVE  /\ q \o <<e>> = Append(q, e)
           /\ Append(q, e) \in Seq(S) /\ Len(q) \in Nat /\ Len(Append(q, e)) = Len(q) + 1
           /\ Append(q, e)[Len(q) + 1] = e
           /\ \A j \in 1 .. Len(q) : Append(q, e)[j] = q[j]
<1>1. /\ Append(q, e) \in Seq(S) /\ Len(q) \in Nat /\ Len(Append(q, e)) = Len(q) + 1
      /\ Append(q, e)[Len(q) + 1] = e
      /\ \A j \in 1 .. Len(q) : Append(q, e)[j] = q[j]
  OBVIOUS
<1>2. <<e>> \in Seq(S) /\ Len(<<e>>) = 1 /\ <<e>>[1] = e
  OBVIOUS
<1>3. /\ q \o <<e>> \in Seq(S) /\ Len(q \o <<e>>) = Len(q) + 1
      /\ \A j \in 1 .. Len(q) + 1 : (q \o <<e>>)[j] = Append(q, e)[j]
  BY <1>1, <1>2
<1>4. q \o <<e>> = Append(q, e)
  BY <1>1, <1>3
<1> QED
  BY <1>1, <1>4

\* An empty queue.
LEMMA EmptySeq ==
    ASSUME NEW S
    PROVE  /\ <<>> \in Seq(S) /\ Len(<<>>) = 0
           /\ \A q \in Seq(S) : q \o <<>> = q /\ (Len(q) = 0 <=> q = <<>>) /\ Shrinks(q, q)
<1>1. <<>> \in Seq(S) /\ Len(<<>>) = 0
  OBVIOUS
<1>2. ASSUME NEW q \in Seq(S) PROVE q \o <<>> = q /\ (Len(q) = 0 <=> q = <<>>) /\ Shrinks(q, q)
  BY DEF Shrinks
<1> QED
  BY <1>1, <1>2

\* Nothing is left of an empty queue.
LEMMA EmptyShrinks ==
    ASSUME NEW S, NEW q \in Seq(S), Shrinks(q, <<>>)
    PROVE  q = <<>>
<1>1. Len(q) \in Nat /\ Len(<<>>) = 0 /\ (Len(q) = 0 => q = <<>>)
  OBVIOUS
<1>2. ASSUME Len(q) # 0 PROVE FALSE
  <2>1. 1 \in 1 .. Len(q)
    BY <1>1, <1>2
  <2>2. PICK k \in 1 .. Len(<<>>) : q[1] = <<>>[k]
    BY <2>1 DEF Shrinks
  <2> QED
    BY <1>1, <2>2
<1> QED
  BY <1>1, <1>2

\* What the lemmas use of the types.
LEMMA Typed ==
    ASSUME MigrationInv
    PROVE  /\ MaxAttempts \in Nat /\ src \in SourceRecord /\ sink \in SinkRecord
           /\ sink.n \in Nat /\ src.using \in Nat /\ sink.expect \in Nat /\ src.listed \in Nat /\ src.i \in Nat
           /\ sink.got \in Seq(Parts) /\ Len(sink.got) \in Nat
           /\ "control" \in Socks /\ "fs" \in Socks /\ "criu" \in Socks
           /\ \A k \in Socks : src.conn[k] \in Nat
           /\ \A n \in Attempts : /\ n \in Nat /\ n # 0
                                  /\ toSink[n] \in Seq(Messages) /\ Len(toSink[n]) \in Nat
                                  /\ toSource[n] \in Seq(Answers) /\ Len(toSource[n]) \in Nat
           /\ sink.n # 0 => sink.n \in Attempts
           /\ sink.fs \notin {"ok", "error"}
<1> USE MigrationAssumption DEF MigrationAssumption
<1>1. src \in SourceRecord /\ sink \in SinkRecord /\ MaxAttempts \in Nat
  BY DEF MigrationInv, Types
<1>2. /\ sink.n \in Nat /\ sink.expect \in Nat /\ sink.got \in Seq(Parts) /\ Len(sink.got) \in Nat
      /\ sink.n # 0 => sink.n \in Attempts
      /\ sink.fs \notin {"ok", "error"}
  BY <1>1 DEF SinkRecord, Attempts, Fs
<1>3. /\ src.using \in Nat /\ src.listed \in Nat /\ src.i \in Nat
      /\ "control" \in Socks /\ "fs" \in Socks /\ "criu" \in Socks
      /\ \A k \in Socks : src.conn[k] \in Nat
  BY <1>1 DEF SourceRecord, Socks
<1>4. \A n \in Attempts : /\ n \in Nat /\ n # 0
                          /\ toSink[n] \in Seq(Messages) /\ Len(toSink[n]) \in Nat
                          /\ toSource[n] \in Seq(Answers) /\ Len(toSource[n]) \in Nat
  BY DEF MigrationInv, Types, Attempts
<1> QED
  BY <1>1, <1>2, <1>3, <1>4

-----------------------------------------------------------------------------
(* The source ends                                                           *)

\* However the source ends, the target is as it was, no header is under way that
\* was not, and the container runs on only if it does not and will not run at the
\* target, or the source's daemon was restarted.
LEMMA SourceOver ==
    ASSUME MigrationInv,
           client # "asking",
           src' \in SourceRecord, src'.at = "ended", src'.conn = src.conn, src'.using = src.using,
           src'.listed = src.listed, src'.i = src.i, src'.temp = {} \/ crashed',
           src'.op = "success" => sink.op = "success",
           UNCHANGED <<live, move, srcType, sinkType, snaps, sink, target, client, replaced, changed>>,
           crashed' \in BOOLEAN, crashed => crashed', faults' \in Nat, links' \subseteq links,
           ct' \in {"running", "frozen", "stopped", "gone"}, ct' = "gone" <=> ct = "gone", ~live => ct' = ct,
           ct' = "running" => \/ ct = "running" \/ crashed'
                              \/ sink.restore \notin {"fs", "ok"} /\ target # "running",
           toSink' \in [Attempts -> Seq(Messages)], toSource' \in [Attempts -> Seq(Answers)],
           \A n \in Attempts : /\ NoHeader(toSink'[n], toSink[n]) /\ Shrinks(toSource'[n], toSource[n])
                               /\ toSink[n] = <<>> /\ n > sink.n => toSink'[n] = <<>>
    PROVE  MigrationInv'
<1> USE Typed
<1>0. /\ Types /\ BoundsInv /\ SinkInv /\ SourceInv /\ HeaderInv /\ AnswerInv /\ CountInv
      /\ Sockets' = Sockets /\ (Served' <=> Served)
  BY DEF MigrationInv, Sockets, Served
<1>1. Types'
  BY <1>0 DEF Types
<1>2. \A n \in Attempts : Len(toSink'[n]) \in Nat /\ Len(toSource'[n]) \in Nat
  OBVIOUS
<1>3. BoundsInv'
  <2>1. ASSUME NEW n \in Attempts, n > sink.n PROVE toSource'[n] = <<>>
    <3>1. toSource[n] = <<>> /\ toSource'[n] \in Seq(Answers) /\ Shrinks(toSource'[n], toSource[n])
      BY <1>0, <2>1 DEF BoundsInv
    <3> QED
      BY <3>1, EmptyShrinks
  <2> QED
    BY <1>0, <2>1 DEF BoundsInv
<1>4. SinkInv'
  BY <1>0 DEF SinkInv
<1>5. SourceInv'
  BY <1>0 DEF SourceInv, Silent, Sending
<1>6. HeaderInv'
  <2>1. ASSUME NEW n \in Attempts, NEW j \in 1 .. Len(toSink'[n]), toSink'[n][j].kind = "header"
        PROVE  /\ j = 1 /\ (~changed => toSink'[n][j].snaps = src.listed)
               /\ 1 \in 1 .. Len(toSink[n]) /\ toSink[n][1].kind = "header"
    <3>1. PICK k \in j .. Len(toSink[n]) : toSink'[n][j] = toSink[n][k]
      BY <2>1 DEF NoHeader
    <3>2. k \in 1 .. Len(toSink[n]) /\ j \in Nat /\ j >= 1
      BY <1>2
    <3> QED
      BY <1>0, <2>1, <3>1, <3>2 DEF HeaderInv
  <2>2. sink.n # 0 /\ Pending' => Pending
    BY <2>1 DEF Pending
  <2> QED
    BY <1>0, <2>1, <2>2 DEF HeaderInv, Silent, Sending
<1>7. AnswerInv'
  <2>1. ASSUME NEW n \in Attempts, NEW j \in 1 .. Len(toSource'[n])
        PROVE  /\ n # sink.n => toSource'[n][j] # "ok"
               /\ n = sink.n => Says(toSource[n][j])'
               /\ j > 1 => toSource'[n][j] \in {"ok", "error"}
    <3>1. PICK k \in j .. Len(toSource[n]) : toSource'[n][j] = toSource[n][k]
      BY DEF Shrinks
    <3>2. k \in 1 .. Len(toSource[n]) /\ (j > 1 => k > 1)
      BY <1>2
    <3>3. /\ n # sink.n => toSource[n][k] # "ok"
          /\ n = sink.n => Says(toSource[n][k])
          /\ k > 1 => toSource[n][k] \in {"ok", "error"}
      BY <1>0, <3>2 DEF AnswerInv
    <3> QED
      BY <1>0, <3>1, <3>2, <3>3 DEF Says
  <2>2. sink.at \in {"connect", "recv", "reply"} => toSource'[sink.n] = <<>>
    <3> SUFFICES ASSUME sink.at \in {"connect", "recv", "reply"} PROVE toSource'[sink.n] = <<>>
      OBVIOUS
    <3>1. sink.n \in Attempts /\ toSource[sink.n] = <<>>
      BY <1>0 DEF AnswerInv, SinkInv
    <3>2. toSource'[sink.n] \in Seq(Answers) /\ Shrinks(toSource'[sink.n], toSource[sink.n])
      BY <3>1
    <3> QED
      BY <3>1, <3>2, EmptyShrinks
  <2>3. sink' = sink
    OBVIOUS
  <2> QED
    BY <2>1, <2>2, <2>3 DEF AnswerInv
<1>8. CountInv'
  BY <1>0 DEF CountInv
<1> QED
  BY <1>1, <1>3, <1>4, <1>5, <1>6, <1>7, <1>8 DEF MigrationInv

\* A message that is not a header goes to the target, or cannot.
LEMMA TellsSink ==
    ASSUME MigrationInv, NEW m \in {<<>>, <<Error>>},
           toSink' = IF SourceOpen("control")
                     THEN [toSink EXCEPT ![src.conn["control"]] = @ \o m] ELSE toSink
    PROVE  /\ toSink' \in [Attempts -> Seq(Messages)]
           /\ \A n \in Attempts : /\ NoHeader(toSink'[n], toSink[n])
                                  /\ toSink[n] = <<>> /\ n > sink.n => toSink'[n] = <<>>
<1> USE Typed
<1>0. Types /\ BoundsInv
  BY DEF MigrationInv
<1>1. Error \in Messages /\ Error.kind = "error"
  BY DEF Error, Messages
<1>2. ASSUME NEW q \in Seq(Messages) PROVE NoHeader(q, q)
  BY DEF NoHeader
<1>3. ASSUME NEW q \in Seq(Messages) PROVE q \o m \in Seq(Messages) /\ NoHeader(q \o m, q)
  <2>1. CASE m = <<>>
    BY <1>2, <2>1, EmptySeq
  <2>2. CASE m = <<Error>>
    <3>1. /\ q \o m \in Seq(Messages) /\ Len(q) \in Nat /\ Len(q \o m) = Len(q) + 1
          /\ (q \o m)[Len(q) + 1] = Error
          /\ \A j \in 1 .. Len(q) : (q \o m)[j] = q[j]
      BY <1>1, <2>2, AddOne
    <3>2. ASSUME NEW j \in 1 .. Len(q \o m)
          PROVE  (q \o m)[j].kind # "header" \/ \E k \in j .. Len(q) : (q \o m)[j] = q[k]
      <4>1. CASE j = Len(q) + 1
        BY <1>1, <3>1, <4>1
      <4>2. CASE j # Len(q) + 1
        <5>1. j \in 1 .. Len(q) /\ j \in j .. Len(q)
          BY <3>1, <4>2
        <5> QED
          BY <3>1, <5>1
      <4> QED
        BY <4>1, <4>2
    <3> QED
      BY <3>1, <3>2 DEF NoHeader
  <2> QED
    BY <2>1, <2>2
<1>4. CASE SourceOpen("control")
  <2> DEFINE c == src.conn["control"]
  <2>1. c \in Attempts /\ c <= sink.n
    BY <1>0, <1>4 DEF Types, SourceOpen, BoundsInv
  <2>2. toSink' = [toSink EXCEPT ![c] = toSink[c] \o m] /\ toSink \in [Attempts -> Seq(Messages)]
    BY <1>0, <1>4 DEF Types
  <2> HIDE DEF c
  <2>3. toSink[c] \o m \in Seq(Messages) /\ NoHeader(toSink[c] \o m, toSink[c])
    BY <1>3, <2>1
  <2>4. toSink' \in [Attempts -> Seq(Messages)]
    BY <2>1, <2>2, <2>3
  <2>5. \A n \in Attempts : NoHeader(toSink'[n], toSink[n])
    BY <1>2, <2>1, <2>2, <2>3
  <2> QED
    BY <2>1, <2>2, <2>4, <2>5
<1>5. CASE ~SourceOpen("control")
  BY <1>0, <1>2, <1>5 DEF Types
<1> QED
  BY <1>4, <1>5

\* The source fails, or gives up after an error.
LEMMA SourceFails ==
    ASSUME MigrationInv, NEW m \in {<<>>, <<Error>>}, SourceEnds("failure", m),
           src.at \notin {"waiting", "ended"}, toSource' = toSource, ct' = ct,
           UNCHANGED <<setup, snaps, sink, target, client, crashed, replaced, changed>>, faults' \in Nat
    PROVE  MigrationInv'
<1> USE Typed
<1>0. Types /\ BoundsInv
  BY DEF MigrationInv
<1>1. /\ src' \in SourceRecord /\ src'.at = "ended" /\ src'.conn = src.conn /\ src'.using = src.using
      /\ src'.listed = src.listed /\ src'.i = src.i /\ src'.temp = {} /\ src'.op = "failure"
      /\ links' \subseteq links
  BY DEF SourceEnds, SourceRecord
<1>2. /\ toSink' \in [Attempts -> Seq(Messages)]
      /\ \A n \in Attempts : /\ NoHeader(toSink'[n], toSink[n])
                             /\ toSink[n] = <<>> /\ n > sink.n => toSink'[n] = <<>>
  BY TellsSink DEF SourceEnds
<1>3. toSource' \in [Attempts -> Seq(Answers)] /\ \A n \in Attempts : Shrinks(toSource'[n], toSource[n])
  BY <1>0, EmptySeq DEF Types
<1>4. client # "asking" /\ ct' \in {"running", "frozen", "stopped", "gone"} /\ crashed' \in BOOLEAN
  BY <1>0 DEF BoundsInv, Types
<1> QED
  BY <1>1, <1>2, <1>3, <1>4, SourceOver DEF setup

\* The source reads an answer, or learns that there will be none.
LEMMA AcknowledgedInv ==
    ASSUME MigrationInv, Acknowledged
    PROVE  MigrationInv'
<1> USE Typed
<1>0. Types /\ BoundsInv /\ SinkInv /\ SourceInv /\ HeaderInv /\ AnswerInv
  BY DEF MigrationInv
<1>1. /\ src.at = "ack" /\ src.using \in Attempts /\ client # "asking"
      /\ UNCHANGED <<live, move, srcType, sinkType, snaps, sink, target, client, faults, crashed, replaced, changed>>
  BY <1>0 DEF Acknowledged, SourceInv, BoundsInv, Attempts, setup
<1> DEFINE u == src.using
           q == toSource[src.using]
<1>2. CASE q # <<>> /\ toSource' = [toSource EXCEPT ![u] = Tail(q)]
           /\ ct' = (CASE ct = "frozen" -> (IF Head(q) = "ok" THEN "stopped" ELSE "running") [] OTHER -> ct)
           /\ SourceEnds(IF Head(q) = "ok" THEN "success" ELSE "failure", <<>>)
  <2>1. /\ q \in Seq(Answers) /\ Tail(q) \in Seq(Answers) /\ Shrinks(Tail(q), q) /\ Head(q) = q[1]
        /\ 1 \in 1 .. Len(q)
    BY <1>1, <1>2, TailOf
  <2>2. /\ toSource' \in [Attempts -> Seq(Answers)]
        /\ \A n \in Attempts : Shrinks(toSource'[n], toSource[n])
    <3>1. \A n \in Attempts : toSource'[n] = IF n = u THEN Tail(q) ELSE toSource[n]
      BY <1>0, <1>1, <1>2 DEF Types
    <3>2. toSource' \in [Attempts -> Seq(Answers)]
      BY <1>0, <1>1, <1>2, <2>1 DEF Types
    <3> QED
      BY <1>1, <2>1, <3>1, <3>2, EmptySeq
  <2>3. /\ src' \in SourceRecord /\ src'.at = "ended" /\ src'.conn = src.conn /\ src'.using = src.using
        /\ src'.listed = src.listed /\ src'.i = src.i /\ src'.temp = {} /\ links' \subseteq links
        /\ src'.op = (IF Head(q) = "ok" THEN "success" ELSE "failure")
    BY <1>2 DEF SourceEnds, SourceRecord
  <2>4. /\ toSink' \in [Attempts -> Seq(Messages)]
        /\ \A n \in Attempts : /\ NoHeader(toSink'[n], toSink[n])
                               /\ toSink[n] = <<>> /\ n > sink.n => toSink'[n] = <<>>
    BY <1>2, TellsSink DEF SourceEnds
  <2>5. /\ u # sink.n => Head(q) # "ok"
        /\ u = sink.n => Says(Head(q))
    BY <1>0, <1>1, <2>1 DEF AnswerInv
  <2>6. Head(q) = "ok" => sink.op = "success"
    BY <2>5 DEF Says
  <2>7. ct = "frozen" /\ Head(q) # "ok" => sink.restore \notin {"fs", "ok"} /\ target # "running"
    <3> SUFFICES ASSUME ct = "frozen", Head(q) # "ok" PROVE sink.restore \notin {"fs", "ok"} /\ target # "running"
      OBVIOUS
    <3>1. CASE ~Served
      BY <1>0, <3>1 DEF SinkInv
    <3>2. CASE Served
      <4>1. sink.restore = "error"
        BY <1>0, <1>1, <2>5, <3>2 DEF HeaderInv, Says
      <4> QED
        BY <1>0, <4>1 DEF SinkInv
    <3> QED
      BY <3>1, <3>2
  <2>8. /\ ct' \in {"running", "frozen", "stopped", "gone"} /\ (ct' = "gone" <=> ct = "gone") /\ (~live => ct' = ct)
        /\ ct' = "running" => \/ ct = "running"
                              \/ sink.restore \notin {"fs", "ok"} /\ target # "running"
    BY <1>0, <1>2, <2>7 DEF Types, SourceInv
  <2>9. crashed' \in BOOLEAN /\ faults' \in Nat
    BY <1>0, <1>1 DEF Types
  <2> HIDE DEF u, q
  <2> QED
    BY <1>1, <2>2, <2>3, <2>4, <2>6, <2>8, <2>9, SourceOver
<1>3. CASE SourceEnds("failure", <<>>) /\ UNCHANGED <<ct, toSource>>
  <2>1. faults' \in Nat
    BY <1>0, <1>1 DEF Types
  <2> QED
    BY <1>1, <1>3, <2>1, SourceFails DEF setup
<1> QED
  BY <1>2, <1>3 DEF Acknowledged, FromSink, Received

\* The source's daemon dies.
LEMMA SourceCrashesInv ==
    ASSUME MigrationInv, SourceCrashes
    PROVE  MigrationInv'
<1> USE Typed
<1>0. Types /\ BoundsInv /\ SourceInv
  BY DEF MigrationInv
<1>1. /\ src' \in SourceRecord /\ src'.at = "ended" /\ src'.conn = src.conn /\ src'.using = src.using
      /\ src'.listed = src.listed /\ src'.i = src.i /\ src'.op = "failure" /\ src.op = "running"
      /\ links' \subseteq links /\ crashed' = TRUE /\ faults' \in Nat
      /\ ct' = (IF ct = "frozen" THEN "running" ELSE ct)
      /\ UNCHANGED <<live, move, srcType, sinkType, snaps, sink, target, client, replaced, changed, toSink, toSource>>
  <2>1. /\ src.op = "running" /\ src' = [src EXCEPT !.at = "ended", !.op = "failure"]
        /\ links' = links \ SourceLinks /\ crashed' = TRUE /\ faults' = faults + 1
        /\ ct' = (IF ct = "frozen" THEN "running" ELSE ct)
        /\ UNCHANGED <<live, move, srcType, sinkType, snaps, sink, target, client, replaced, changed, toSink, toSource>>
    BY DEF SourceCrashes, Fault, setup
  <2>2. /\ src' \in SourceRecord /\ src'.at = "ended" /\ src'.conn = src.conn /\ src'.using = src.using
        /\ src'.listed = src.listed /\ src'.i = src.i /\ src'.op = "failure"
    BY <2>1 DEF SourceRecord
  <2>3. faults' \in Nat
    BY <1>0, <2>1 DEF Types
  <2> QED
    BY <2>1, <2>2, <2>3
<1>2. /\ toSink' \in [Attempts -> Seq(Messages)] /\ toSource' \in [Attempts -> Seq(Answers)]
      /\ \A n \in Attempts : /\ NoHeader(toSink'[n], toSink[n]) /\ Shrinks(toSource'[n], toSource[n])
                             /\ toSink[n] = <<>> /\ n > sink.n => toSink'[n] = <<>>
  <2>1. \A n \in Attempts : NoHeader(toSink[n], toSink[n]) /\ Shrinks(toSource[n], toSource[n])
    BY EmptySeq DEF NoHeader
  <2> QED
    BY <1>0, <1>1, <2>1 DEF Types
<1>3. client # "asking" /\ (ct' = "gone" <=> ct = "gone") /\ (~live => ct' = ct)
      /\ ct' \in {"running", "frozen", "stopped", "gone"}
  BY <1>0, <1>1 DEF BoundsInv, SourceInv, Types
<1> QED
  BY <1>1, <1>2, <1>3, SourceOver

\* Connections that nobody holds are closed.
LEMMA CollectInv ==
    ASSUME MigrationInv, Collect
    PROVE  MigrationInv'
<1> USE Typed
<1>0. Types /\ BoundsInv /\ SourceInv
  BY DEF MigrationInv
<1>1. /\ src.at = "abandoned" /\ src.temp = {}
      /\ src' \in SourceRecord /\ src'.at = "ended" /\ src'.conn = src.conn /\ src'.using = src.using
      /\ src'.listed = src.listed /\ src'.i = src.i /\ src'.op = src.op /\ src'.temp = src.temp
      /\ links' \subseteq links /\ crashed' \in BOOLEAN /\ faults' \in Nat
      /\ UNCHANGED <<live, move, srcType, sinkType, snaps, ct, sink, target, client, crashed, replaced, changed,
                     toSink, toSource>>
  BY <1>0 DEF Collect, SourceRecord, SourceInv, Silent, Types, setup
<1>2. /\ toSink' \in [Attempts -> Seq(Messages)] /\ toSource' \in [Attempts -> Seq(Answers)]
      /\ \A n \in Attempts : /\ NoHeader(toSink'[n], toSink[n]) /\ Shrinks(toSource'[n], toSource[n])
                             /\ toSink[n] = <<>> /\ n > sink.n => toSink'[n] = <<>>
  <2>1. \A n \in Attempts : NoHeader(toSink[n], toSink[n]) /\ Shrinks(toSource[n], toSource[n])
    BY EmptySeq DEF NoHeader
  <2> QED
    BY <1>0, <1>1, <2>1 DEF Types
<1>3. client # "asking" /\ ct' \in {"running", "frozen", "stopped", "gone"}
  BY <1>0, <1>1 DEF BoundsInv, Types
<1>4. src'.op = "success" => sink.op = "success"
  BY <1>0, <1>1 DEF BoundsInv
<1> QED
  BY <1>1, <1>2, <1>3, <1>4, SourceOver

-----------------------------------------------------------------------------
(* The source goes on                                                        *)

\* Do has all its connections, or fails to mount the container.
LEMMA SourceStartsInv ==
    ASSUME MigrationInv, SourceStarts
    PROVE  MigrationInv'
<1> USE Typed
<1>0. /\ Types /\ BoundsInv /\ SinkInv /\ SourceInv /\ HeaderInv /\ AnswerInv /\ CountInv
      /\ \A n \in Attempts : toSink'[n] = toSink[n] /\ toSource'[n] = toSource[n]
  BY DEF MigrationInv, SourceStarts
<1>1. /\ src.at = "waiting" /\ (\A k \in 1 .. Len(Sockets) : src.conn[Sockets[k]] # 0)
      /\ UNCHANGED <<live, move, srcType, sinkType, snaps, ct, sink, target, links, client, crashed, replaced, changed,
                     toSink, toSource>>
  BY DEF SourceStarts, setup
<1>2. /\ src' \in SourceRecord /\ src'.conn = src.conn /\ src'.using = src.using /\ src'.i = src.i
      /\ src'.temp = src.temp /\ src'.op \in {src.op, "failure"}
      /\ \/ src'.at = "header" /\ src'.listed = snaps
         \/ src'.at = "abandoned" /\ src'.listed = src.listed
  BY <1>0 DEF SourceStarts, SourceRecord, Types
<1>3. faults' \in Nat
  BY <1>0 DEF SourceStarts, Fault, Types
<1>4. src.conn["control"] # 0
  BY <1>1 DEF Sockets
<1>5. Served' <=> Served
  BY <1>1 DEF Served
<1>6. Types'
  BY <1>0, <1>1, <1>2, <1>3 DEF Types
<1>7. BoundsInv'
  <2>1. client # "asking"
    BY <1>0, <1>4 DEF BoundsInv, NoSink
  <2> QED
    BY <1>0, <1>1, <1>2, <2>1 DEF BoundsInv
<1>8. SinkInv'
  BY <1>0, <1>1, <1>5 DEF SinkInv, Sockets
<1>9. SourceInv'
  BY <1>0, <1>1, <1>2, <1>4 DEF SourceInv, Silent, Sending, Types
<1>11. HeaderInv'
  <2>1. ~Served /\ \A n \in Attempts : toSink'[n] = <<>>
    BY <1>0, <1>1 DEF HeaderInv, Silent
  <2>2. sink'.n # 0 => ~Pending'
    BY <1>1, <2>1 DEF Pending
  <2>3. \A n \in Attempts : Len(toSink'[n]) = 0
    BY <2>1
  <2> QED
    BY <1>5, <2>1, <2>2, <2>3 DEF HeaderInv
<1>12. AnswerInv'
  <2>1. ASSUME NEW n \in Attempts, NEW j \in 1 .. Len(toSource[n]), n = sink.n
        PROVE  Says(toSource[n][j])'
    <3>1. Says(toSource[n][j]) /\ ~Served
      BY <1>0, <1>1, <2>1 DEF AnswerInv, HeaderInv, Silent
    <3> QED
      BY <1>1, <1>5, <3>1 DEF Says
  <2> QED
    BY <1>0, <1>1, <2>1 DEF AnswerInv
<1>13. CountInv'
  <2>1. ~Served
    BY <1>0, <1>1 DEF HeaderInv, Silent
  <2> QED
    BY <1>0, <1>1, <1>2, <2>1 DEF CountInv, SinkInv
<1> QED
  BY <1>6, <1>7, <1>8, <1>9, <1>11, <1>12, <1>13 DEF MigrationInv

\* The header goes to the attempt whose control connection is the last, and with
\* it the driver's error if it has one.
LEMMA HeaderSent ==
    ASSUME MigrationInv, src.at = "header", SourceOpen("control"),
           NEW h \in Headers, h.snaps = src.listed,
           NEW m \in {<<h>>, <<h, Error>>},
           toSink' = [toSink EXCEPT ![src.conn["control"]] = m],
           src' \in SourceRecord, src'.conn = src.conn, src'.listed = src.listed, src'.i = src.i, src'.temp = {},
           src'.op # "success",
           \/ src'.at = "negotiate" /\ src'.using = src.conn["control"]
           \/ src'.at = "ended" /\ src'.using = src.using,
           UNCHANGED <<live, move, srcType, sinkType, snaps, ct, sink, target, client, crashed, replaced, changed,
                       toSource>>, faults' \in Nat, links' \subseteq links
    PROVE  MigrationInv'
<1> USE Typed
<1>0. Types /\ BoundsInv /\ SinkInv /\ SourceInv /\ HeaderInv /\ AnswerInv /\ CountInv
  BY DEF MigrationInv
<1>1. Served' <=> Served
  BY DEF Served
<1> DEFINE c == src.conn["control"]
<1>2. c \in Attempts /\ c <= sink.n /\ c \in Nat
  BY <1>0 DEF SourceOpen, Types, BoundsInv
<1>3. ~Served /\ \A n \in Attempts : toSink[n] = <<>>
  BY <1>0 DEF HeaderInv, Silent
<1>4. /\ m \in Seq(Messages) /\ Len(m) \in Nat /\ m # <<>> /\ m[1] = h
      /\ \A j \in 1 .. Len(m) : m[j].kind = "header" => j = 1
  <2>1. h \in Messages /\ Error \in Messages /\ Error.kind = "error"
    BY DEF Messages, Error
  <2>2. CASE m = <<h>>
    BY <2>1, <2>2
  <2>3. CASE m = <<h, Error>>
    BY <2>1, <2>3
  <2> QED
    BY <2>2, <2>3
<1> HIDE DEF c
<1>5. /\ toSink' \in [Attempts -> Seq(Messages)]
      /\ \A n \in Attempts : toSink'[n] = IF n = c THEN m ELSE <<>>
  BY <1>0, <1>2, <1>3, <1>4 DEF Types, c
<1>6. Types'
  BY <1>0, <1>5 DEF Types
<1>7. BoundsInv'
  BY <1>0, <1>2, <1>5 DEF BoundsInv, c
<1>8. SinkInv'
  BY <1>0, <1>1 DEF SinkInv, Sockets
<1>9. SourceInv'
  BY <1>0, <1>2 DEF SourceInv, Silent, Sending, c
<1>10. HeaderInv'
  <2>1. ASSUME NEW n \in Attempts, NEW j \in 1 .. Len(toSink'[n]), toSink'[n][j].kind = "header"
        PROVE  j = 1 /\ toSink'[n][j].snaps = src.listed /\ n = c
    <3>1. CASE n = c
      BY <1>4, <1>5, <2>1, <3>1
    <3>2. CASE n # c
      <4>1. Len(toSink'[n]) = 0
        BY <1>5, <3>2
      <4> QED
        BY <4>1
    <3> QED
      BY <3>1, <3>2
  <2>2. sink.n # 0 /\ Pending' => sink.n = c
    BY <2>1 DEF Pending
  <2> QED
    BY <1>0, <1>1, <1>3, <2>1, <2>2 DEF HeaderInv, Silent, Sending, c
<1>11. AnswerInv'
  <2>1. ASSUME NEW n \in Attempts, NEW j \in 1 .. Len(toSource[n]), n = sink.n
        PROVE  Says(toSource[n][j])'
    <3>1. Says(toSource[n][j])
      BY <1>0, <2>1 DEF AnswerInv
    <3> QED
      BY <1>1, <1>3, <3>1 DEF Says
  <2> QED
    BY <1>0, <2>1 DEF AnswerInv
<1>12. CountInv'
  BY <1>0, <1>3 DEF CountInv, SinkInv
<1> QED
  BY <1>6, <1>7, <1>8, <1>9, <1>10, <1>11, <1>12 DEF MigrationInv

\* The header is sent no matter what.
LEMMA SourceSendsHeaderInv ==
    ASSUME MigrationInv, SourceSendsHeader
    PROVE  MigrationInv'
<1> USE Typed
<1>0. Types /\ BoundsInv /\ SourceInv /\ HeaderInv
  BY DEF MigrationInv
<1> DEFINE h == [kind |-> "header", fs |-> srcType, snaps |-> src.listed]
<1>1. /\ src.at = "header"
      /\ UNCHANGED <<live, move, srcType, sinkType, snaps, ct, sink, target, client, crashed, replaced, changed,
                     toSource>>
  BY DEF SourceSendsHeader, setup
<1>2. h \in Headers /\ h.snaps = src.listed /\ h \in Messages
  BY <1>0 DEF Types, Headers, Messages
<1>3. faults' \in Nat
  BY <1>0 DEF SourceSendsHeader, Fault, Types
<1>4. src.temp = {}
  BY <1>0, <1>1 DEF SourceInv, Silent
<1>5. CASE /\ SourceOpen("control")
           /\ toSink' = [toSink EXCEPT ![src.conn["control"]] = Append(@, h)]
           /\ src' = [src EXCEPT !.at = "negotiate", !.using = src.conn["control"]]
           /\ UNCHANGED <<links, faults>>
  <2>1. src.conn["control"] \in Attempts
    BY <1>0, <1>5 DEF Types, SourceOpen
  <2>2. toSink[src.conn["control"]] = <<>>
    BY <1>0, <1>1, <2>1 DEF HeaderInv, Silent
  <2>3. Append(<<>>, h) = <<h>>
    OBVIOUS
  <2>4. toSink' = [toSink EXCEPT ![src.conn["control"]] = <<h>>]
    BY <1>5, <2>2, <2>3
  <2>5. /\ src' \in SourceRecord /\ src'.conn = src.conn /\ src'.listed = src.listed /\ src'.i = src.i
        /\ src'.temp = {} /\ src'.op = src.op /\ src'.at = "negotiate" /\ src'.using = src.conn["control"]
    BY <1>4, <1>5, <2>1 DEF SourceRecord
  <2>6. src.op # "success"
    BY <1>0, <1>1 DEF BoundsInv, MigrationInv, SinkInv, HeaderInv, Silent
  <2> HIDE DEF h
  <2> QED
    BY <1>1, <1>2, <1>3, <1>5, <2>4, <2>5, <2>6, HeaderSent
<1>6. CASE ~SourceOpen("control") /\ SourceEnds("failure", <<>>)
  BY <1>1, <1>3, <1>6, SourceFails DEF setup
<1>7. CASE SourceOpen("control") /\ SourceEnds("failure", <<h, Error>>)
  <2>1. src.conn["control"] \in Attempts
    BY <1>0, <1>7 DEF Types, SourceOpen
  <2>2. toSink[src.conn["control"]] = <<>>
    BY <1>0, <1>1, <2>1 DEF HeaderInv, Silent
  <2>3. <<>> \o <<h, Error>> = <<h, Error>>
    OBVIOUS
  <2>4. toSink' = [toSink EXCEPT ![src.conn["control"]] = <<h, Error>>]
    BY <1>7, <2>2, <2>3 DEF SourceEnds
  <2>5. /\ src' \in SourceRecord /\ src'.conn = src.conn /\ src'.listed = src.listed /\ src'.i = src.i
        /\ src'.temp = {} /\ src'.op = "failure" /\ src'.at = "ended" /\ src'.using = src.using
        /\ links' \subseteq links
    BY <1>7 DEF SourceRecord, SourceEnds
  <2> HIDE DEF h
  <2> QED
    BY <1>1, <1>2, <1>3, <1>7, <2>4, <2>5, HeaderSent
<1> QED
  BY <1>5, <1>6, <1>7 DEF SourceSendsHeader

\* The answer to the header is the driver the target has chosen, or an error.
LEMMA SourceNegotiatesInv ==
    ASSUME MigrationInv, SourceNegotiates
    PROVE  MigrationInv'
<1> USE Typed
<1>0. Types /\ BoundsInv /\ SinkInv /\ SourceInv /\ HeaderInv /\ AnswerInv /\ CountInv
  BY DEF MigrationInv
<1>1. /\ src.at = "negotiate" /\ src.using \in Attempts /\ faults' \in Nat
      /\ UNCHANGED <<live, move, srcType, sinkType, snaps, ct, sink, target, client, faults, crashed, replaced, changed>>
  <2>1. /\ src.at = "negotiate"
        /\ UNCHANGED <<live, move, srcType, sinkType, snaps, ct, sink, target, client, faults, crashed, replaced, changed>>
    BY DEF SourceNegotiates, setup
  <2>2. src.using \in Attempts
    BY <1>0, <2>1 DEF SourceInv, SourceRecord, Attempts
  <2> QED
    BY <1>0, <2>1, <2>2 DEF Types
<1> DEFINE u == src.using
           q == toSource[src.using]
<1>2. CASE /\ q # <<>> /\ Head(q) # "error"
           /\ toSource' = [toSource EXCEPT ![u] = Tail(q)]
           /\ src' = [src EXCEPT !.at = "send", !.using = src.conn["fs"], !.fs = Head(q), !.i = 1,
                                 !.listed = IF Head(q) = srcType THEN @ ELSE snaps]
           /\ UNCHANGED <<toSink, links>>
  <2>1. /\ q \in Seq(Answers) /\ Tail(q) \in Seq(Answers) /\ Head(q) = q[1] /\ Head(q) \in Answers
        /\ Len(q) \in Nat /\ 1 \in 1 .. Len(q) /\ Len(Tail(q)) = Len(q) - 1
        /\ \A j \in 1 .. Len(Tail(q)) : Tail(q)[j] = q[j + 1]
    BY <1>1, <1>2, TailOf
  <2>2. /\ toSource' \in [Attempts -> Seq(Answers)]
        /\ \A n \in Attempts : toSource'[n] = IF n = u THEN Tail(q) ELSE toSource[n]
    BY <1>0, <1>1, <1>2, <2>1 DEF Types
  <2>3. /\ src' \in SourceRecord /\ src'.at = "send" /\ src'.conn = src.conn /\ src'.using = src.conn["fs"]
        /\ src'.fs = Head(q) /\ src'.i = 1 /\ src'.temp = src.temp /\ src'.op = src.op
        /\ src'.listed = (IF Head(q) = srcType THEN src.listed ELSE snaps)
    BY <1>0, <1>2, <2>1 DEF SourceRecord, Types
  <2>4. ~changed => src'.listed = src.listed
    BY <1>0, <1>1, <2>3 DEF SourceInv
  <2>5. u = sink.n => Says(Head(q))
    BY <1>0, <1>1, <2>1 DEF AnswerInv
  <2>6. u = sink.n => Head(q) = sink.fs /\ Served /\ sink.at \in {"select", "ended"}
    BY <1>0, <1>1, <1>2, <2>5 DEF Says, SinkInv, CountInv
  <2>7. Served => u = sink.n
    BY <1>0, <1>1 DEF HeaderInv
  <2>8. ~(sink.n # 0 /\ Pending)
    BY <1>0, <1>1, <2>6 DEF HeaderInv
  <2>9. Served' <=> Served
    BY <1>1 DEF Served
  <2> HIDE DEF u, q
  <2>10. Types'
    BY <1>0, <1>1, <1>2, <2>2, <2>3 DEF Types
  <2>11. BoundsInv'
    <3>1. ASSUME NEW n \in Attempts, n > sink.n PROVE toSource'[n] = <<>>
      <4>1. n # u
        BY <1>0, <3>1 DEF BoundsInv, u
      <4> QED
        BY <1>0, <2>2, <3>1, <4>1 DEF BoundsInv
    <3> QED
      BY <1>0, <1>1, <1>2, <2>3, <3>1 DEF BoundsInv
  <2>12. SinkInv'
    BY <1>0, <1>1, <2>9 DEF SinkInv, Sockets
  <2>13. SourceInv'
    BY <1>0, <1>1, <2>3 DEF SourceInv, Silent, Sending, Types
  <2>14. HeaderInv'
    <3>1. ~(sink.n # 0 /\ Pending')
      BY <1>1, <1>2, <2>8 DEF Pending
    <3> QED
      BY <1>0, <1>1, <1>2, <2>3, <2>4, <2>6, <2>7, <2>9, <3>1 DEF HeaderInv, Silent, Sending
  <2>15. AnswerInv'
    <3>1. ASSUME NEW n \in Attempts, NEW j \in 1 .. Len(toSource'[n])
          PROVE  /\ n # sink.n => toSource'[n][j] # "ok"
                 /\ n = sink.n => Says(toSource[n][j])'
                 /\ j > 1 => toSource'[n][j] \in {"ok", "error"}
      <4>1. CASE n = u
        <5>1. j + 1 \in 1 .. Len(q) /\ j + 1 > 1 /\ toSource'[n][j] = toSource[n][j + 1] /\ q = toSource[n]
          <6>1. q = toSource[n]
            BY <4>1 DEF q, u
          <6>2. toSource'[n] = Tail(q) /\ j \in 1 .. Len(Tail(q))
            BY <2>2, <4>1
          <6> QED
            BY <2>1, <6>1, <6>2
        <5>2. /\ n # sink.n => toSource[n][j + 1] # "ok"
              /\ n = sink.n => Says(toSource[n][j + 1])
              /\ toSource[n][j + 1] \in {"ok", "error"}
          BY <1>0, <5>1 DEF AnswerInv
        <5> QED
          BY <1>1, <2>9, <5>1, <5>2 DEF Says
      <4>2. CASE n # u
        <5>1. toSource'[n] = toSource[n]
          BY <2>2, <4>2
        <5>2. /\ n # sink.n => toSource[n][j] # "ok"
              /\ n = sink.n => Says(toSource[n][j]) /\ ~Served
              /\ j > 1 => toSource[n][j] \in {"ok", "error"}
          BY <1>0, <2>7, <4>2, <5>1 DEF AnswerInv
        <5> QED
          BY <1>1, <2>9, <5>1, <5>2 DEF Says
      <4> QED
        BY <4>1, <4>2
    <3>2. sink.at \in {"connect", "recv", "reply"} => toSource'[sink.n] = <<>>
      <4> SUFFICES ASSUME sink.at \in {"connect", "recv", "reply"} PROVE toSource'[sink.n] = <<>>
        OBVIOUS
      <4>1. u # sink.n /\ toSource[sink.n] = <<>> /\ sink.n \in Attempts
        BY <1>0, <2>6 DEF AnswerInv, SinkInv
      <4> QED
        BY <2>2, <4>1
    <3> QED
      BY <1>1, <3>1, <3>2 DEF AnswerInv
  <2>16. CountInv'
    <3>1. sink.got = <<>> /\ Len(<<>>) = 0
      BY <1>0, <1>1 DEF CountInv
    <3> QED
      BY <1>0, <1>1, <2>3, <3>1 DEF CountInv
  <2> QED
    BY <2>10, <2>11, <2>12, <2>13, <2>14, <2>15, <2>16 DEF MigrationInv
<1>3. CASE SourceEnds("failure", <<Error>>) /\ toSource' = toSource
  BY <1>1, <1>3, SourceFails DEF setup
<1> QED
  BY <1>2, <1>3 DEF SourceNegotiates, FromSink, Received

\* The driver fails.
LEMMA SendFailsInv ==
    ASSUME MigrationInv, SendFails
    PROVE  MigrationInv'
<1>1. /\ src.at \notin {"waiting", "ended"} /\ SourceEnds("failure", <<Error>>)
      /\ UNCHANGED <<setup, snaps, ct, sink, target, toSource, client, crashed, replaced, changed>>
  BY DEF SendFails, Abort
<1>2. faults' \in Nat
  BY DEF SendFails, Fault, MigrationInv, Types
<1> QED
  BY <1>1, <1>2, SourceFails

\* The container is frozen, or CRIU fails.
LEMMA DumpInv ==
    ASSUME MigrationInv, Dump
    PROVE  MigrationInv'
<1> USE Typed
<1>0. Types /\ BoundsInv /\ SinkInv /\ SourceInv /\ HeaderInv /\ AnswerInv /\ CountInv
  BY DEF MigrationInv
<1>1. /\ src.at = "dump" /\ faults' \in Nat
      /\ UNCHANGED <<live, move, srcType, sinkType, snaps, sink, target, toSource, client, crashed, replaced, changed>>
  BY <1>0 DEF Dump, Fault, Types, setup
<1>2. CASE /\ ct = "running" /\ ct' = "frozen"
           /\ src' = [src EXCEPT !.at = "criu", !.using = src.conn["criu"]]
           /\ UNCHANGED <<toSink, links, faults>>
  <2>1. /\ src' \in SourceRecord /\ src'.at = "criu" /\ src'.conn = src.conn /\ src'.using = src.conn["criu"]
        /\ src'.fs = src.fs /\ src'.i = src.i /\ src'.temp = src.temp /\ src'.op = src.op
        /\ src'.listed = src.listed
    BY <1>2 DEF SourceRecord
  <2>2. (Served' <=> Served) /\ (sink.n # 0 => (Pending' <=> Pending))
    BY <1>1, <1>2 DEF Served, Pending
  <2>3. Types'
    BY <1>0, <1>1, <1>2, <2>1 DEF Types
  <2>4. BoundsInv'
    BY <1>0, <1>1, <1>2, <2>1 DEF BoundsInv
  <2>5. SinkInv'
    BY <1>0, <1>1, <2>2 DEF SinkInv, Sockets
  <2>6. SourceInv'
    BY <1>0, <1>1, <1>2, <2>1 DEF SourceInv, Silent, Sending
  <2>7. HeaderInv'
    BY <1>0, <1>1, <1>2, <2>1, <2>2 DEF HeaderInv, Silent, Sending
  <2>8. AnswerInv'
    <3>1. ASSUME NEW n \in Attempts, NEW j \in 1 .. Len(toSource[n]), n = sink.n
          PROVE  Says(toSource[n][j])'
      <4>1. Says(toSource[n][j])
        BY <1>0, <3>1 DEF AnswerInv
      <4> QED
        BY <1>1, <2>2, <4>1 DEF Says
    <3> QED
      BY <1>0, <1>1, <3>1 DEF AnswerInv
  <2>9. CountInv'
    BY <1>0, <1>1, <2>1 DEF CountInv
  <2> QED
    BY <2>3, <2>4, <2>5, <2>6, <2>7, <2>8, <2>9 DEF MigrationInv
<1>3. CASE SourceEnds("failure", <<Error>>) /\ ct' = ct
  BY <1>1, <1>3, SourceFails DEF setup
<1> QED
  BY <1>2, <1>3 DEF Dump, MigrateDump, Abort

\* CRIU's images arrive.
LEMMA SendCriuInv ==
    ASSUME MigrationInv, SendCriu
    PROVE  MigrationInv'
<1> USE Typed
<1>0. Types /\ BoundsInv /\ SinkInv /\ SourceInv /\ HeaderInv /\ AnswerInv /\ CountInv
  BY DEF MigrationInv
<1>1. /\ src.at = "criu" /\ sink.restore = "criu"
      /\ UNCHANGED <<live, move, srcType, sinkType, snaps, ct, target, links, toSink, toSource, client, faults, crashed,
                     replaced, changed>>
  BY DEF SendCriu, setup
<1>2. /\ src' \in SourceRecord /\ src'.at = "final" /\ src'.conn = src.conn /\ src'.using = src.conn["fs"]
      /\ src'.fs = src.fs /\ src'.i = src.i /\ src'.temp = src.temp /\ src'.op = src.op
      /\ src'.listed = src.listed
  BY DEF SendCriu, SourceRecord
<1>3. /\ sink' \in SinkRecord /\ sink'.restore = "fs" /\ sink'.n = sink.n /\ sink'.dialled = sink.dialled
      /\ sink'.at = sink.at /\ sink'.op = sink.op /\ sink'.fs = sink.fs /\ sink'.expect = sink.expect
      /\ sink'.got = sink.got /\ sink'.temp = sink.temp /\ sink'.transfer = sink.transfer
  BY DEF SendCriu, SinkRecord
<1>4. (Served' <=> Served) /\ Served /\ (sink.n # 0 => (Pending' <=> Pending))
  BY <1>0, <1>1, <1>3 DEF Served, Pending, SinkInv
<1>5. Types'
  BY <1>0, <1>1, <1>2, <1>3 DEF Types
<1>6. BoundsInv'
  BY <1>0, <1>1, <1>2, <1>3 DEF BoundsInv, NoSink
<1>7. SinkInv'
  BY <1>0, <1>1, <1>3, <1>4 DEF SinkInv, Sockets
<1>8. SourceInv'
  BY <1>0, <1>1, <1>2, <1>3 DEF SourceInv, Silent, Sending
<1>9. HeaderInv'
  BY <1>0, <1>1, <1>2, <1>3, <1>4 DEF HeaderInv, Silent, Sending
<1>10. AnswerInv'
  <2>1. ASSUME NEW n \in Attempts, NEW j \in 1 .. Len(toSource[n]), n = sink.n
        PROVE  Says(toSource[n][j])'
    <3>1. Says(toSource[n][j])
      BY <1>0, <2>1 DEF AnswerInv
    <3> QED
      BY <1>1, <1>3, <1>4, <3>1 DEF Says
  <2> QED
    BY <1>0, <1>1, <1>3, <2>1 DEF AnswerInv
<1>11. CountInv'
  BY <1>0, <1>1, <1>2, <1>3 DEF CountInv
<1> QED
  BY <1>5, <1>6, <1>7, <1>8, <1>9, <1>10, <1>11 DEF MigrationInv

\* What the drivers leave are snapshots of the container.
LEMMA TempTyped ==
    \A fs, part, last : part \in Parts => Leaves(fs, part) \subseteq Parts /\ Sends(fs, last).leaves \subseteq Parts
BY DEF Leaves, zfsMigrationSink, btrfsMigrationSink, rsyncMigrationSink, Sends, rsyncSends, zfsSends,
   zfsSendWhileRunning, zfsSendAfterCheckpoint, btrfsSends, btrfsSendWhileRunning, btrfsSendAfterCheckpoint, Parts

\* A part is sent and received.
LEMMA TransferInv ==
    ASSUME MigrationInv, Transfer
    PROVE  MigrationInv'
<1> USE Typed
<1>0. Types /\ BoundsInv /\ SinkInv /\ SourceInv /\ HeaderInv /\ AnswerInv /\ CountInv
  BY DEF MigrationInv
<1> DEFINE part == IF src.at = "send" THEN Item ELSE Rootfs
           len == Len(sink.got)
           done == len + 1 = sink.expect
           got == Append(sink.got, part)
<1>1. /\ src.at \in {"send", "final"} /\ sink.transfer = "running"
      /\ UNCHANGED <<live, move, srcType, sinkType, snaps, ct, target, links, toSink, toSource, client, faults, crashed,
                     replaced, changed>>
      /\ sink' = [sink EXCEPT !.got = got, !.transfer = IF done THEN "ok" ELSE "running",
                              !.temp = IF done THEN {} ELSE @ \cup Leaves(sink.fs, part)]
      /\ src' = IF src.at = "send" /\ src.i <= src.listed THEN [src EXCEPT !.i = @ + 1]
                ELSE IF src.at = "send" /\ live
                     THEN [src EXCEPT !.at = "dump", !.temp = Sends(src.fs, FALSE).leaves]
                ELSE [src EXCEPT !.at = "ack", !.using = src.conn["control"], !.temp = {}]
  BY DEF Transfer, setup
<1>2. part \in Parts /\ (part # "stopped" => part = "snapshot" \/ ct = "running")
  BY DEF Item, Rootfs, Snapshot, Parts
<1>3. src.at = "final" \/ (src.at = "send" /\ src.i > src.listed) => part = Rootfs
  BY DEF Item
<1>4. Rootfs = (IF ct = "running" THEN "running" ELSE "stopped")
  BY DEF Rootfs
<1>5. /\ got \in Seq(Parts) /\ Len(got) = len + 1 /\ len \in Nat /\ got[len + 1] = part
  BY <1>2, AddOne
<1>6. Leaves(sink.fs, part) \subseteq Parts /\ Sends(src.fs, FALSE).leaves \subseteq Parts
  BY <1>2, TempTyped
<1> HIDE DEF part, got
<1>7. /\ sink' \in SinkRecord /\ sink'.n = sink.n /\ sink'.dialled = sink.dialled /\ sink'.at = sink.at
      /\ sink'.op = sink.op /\ sink'.fs = sink.fs /\ sink'.expect = sink.expect /\ sink'.restore = sink.restore
      /\ sink'.got = got /\ sink'.transfer = (IF done THEN "ok" ELSE "running")
      /\ done => sink'.temp = {}
  <2> DEFINE temp == IF done THEN {} ELSE sink.temp \cup Leaves(sink.fs, part)
             way == IF done THEN "ok" ELSE "running"
  <2>1. sink' = [sink EXCEPT !.got = got, !.transfer = way, !.temp = temp]
    BY <1>1
  <2>2. temp \in SUBSET Parts /\ way \in {"ok", "running"} /\ (done => temp = {})
    BY <1>6 DEF SinkRecord
  <2> HIDE DEF temp, way
  <2>3. /\ sink' \in SinkRecord /\ sink'.n = sink.n /\ sink'.dialled = sink.dialled /\ sink'.at = sink.at
        /\ sink'.op = sink.op /\ sink'.fs = sink.fs /\ sink'.expect = sink.expect /\ sink'.restore = sink.restore
        /\ sink'.got = got /\ sink'.transfer = way /\ sink'.temp = temp
    BY <1>5, <2>1, <2>2 DEF SinkRecord
  <2> QED
    BY <2>2, <2>3 DEF way
<1>8. /\ src' \in SourceRecord /\ src'.conn = src.conn /\ src'.fs = src.fs /\ src'.op = src.op
      /\ src'.listed = src.listed
      /\ \/ /\ src.at = "send" /\ src.i <= src.listed
            /\ src'.at = "send" /\ src'.i = src.i + 1 /\ src'.temp = src.temp /\ src'.using = src.using
         \/ /\ src.at = "send" /\ src.i > src.listed /\ live
            /\ src'.at = "dump" /\ src'.i = src.i /\ src'.using = src.using
         \/ /\ src.at = "final" \/ (src.at = "send" /\ src.i > src.listed /\ ~live)
            /\ src'.at = "ack" /\ src'.i = src.i /\ src'.using = src.conn["control"] /\ src'.temp = {}
  <2> DEFINE next == src.i + 1
             temp == Sends(src.fs, FALSE).leaves
             c == src.conn["control"]
  <2>0. next \in Nat /\ temp \in SUBSET Parts /\ c \in 0 .. MaxAttempts
    <3>0. next \in Nat
      OBVIOUS
    <3>1. temp \in SUBSET Parts
      BY <1>6, Zenon
    <3>2. c \in 0 .. MaxAttempts
      BY DEF SourceRecord
    <3> QED
      BY <3>0, <3>1, <3>2
  <2>1. CASE src.at = "send" /\ src.i <= src.listed
    <3>1. src' = [src EXCEPT !.i = next]
      BY <1>1, <2>1
    <3> HIDE DEF next, temp, c
    <3>2. /\ src' \in SourceRecord /\ src'.conn = src.conn /\ src'.fs = src.fs /\ src'.op = src.op
          /\ src'.listed = src.listed /\ src'.at = src.at /\ src'.i = next /\ src'.temp = src.temp
          /\ src'.using = src.using
      BY <2>0, <3>1 DEF SourceRecord
    <3> QED
      BY <2>1, <3>2 DEF next
  <2>2. CASE src.at = "send" /\ src.i > src.listed /\ live
    <3>1. src' = [src EXCEPT !.at = "dump", !.temp = temp]
      BY <1>1, <2>2
    <3> HIDE DEF next, temp, c
    <3> QED
      BY <2>0, <2>2, <3>1 DEF SourceRecord
  <2>3. CASE src.at = "final" \/ (src.at = "send" /\ src.i > src.listed /\ ~live)
    <3>1. src' = [src EXCEPT !.at = "ack", !.using = c, !.temp = {}]
      BY <1>1, <2>3
    <3> HIDE DEF next, temp
    <3> QED
      BY <2>0, <2>3, <3>1 DEF SourceRecord
  <2>4. src.i <= src.listed \/ src.i > src.listed
    OBVIOUS
  <2> QED
    BY <1>1, <2>1, <2>2, <2>3, <2>4
<1>9. (Served' <=> Served) /\ Served /\ (sink.n # 0 => (Pending' <=> Pending))
  BY <1>0, <1>1, <1>7 DEF Served, Pending, SinkInv
<1>10. sink.n # 0 /\ src.conn["control"] = sink.n
  BY <1>0, <1>9 DEF HeaderInv
<1>11. Types'
  BY <1>0, <1>1, <1>7, <1>8 DEF Types
<1>12. BoundsInv'
  BY <1>0, <1>1, <1>7, <1>8, <1>10 DEF BoundsInv
<1>13. SinkInv'
  <2>1. len < sink.expect /\ Len(sink'.got) = len + 1
    BY <1>0, <1>1, <1>5, <1>7 DEF SinkInv
  <2>2. Len(sink'.got) <= sink.expect /\ (sink'.transfer = "running" => Len(sink'.got) < sink.expect)
    BY <1>5, <1>7, <2>1
  <2>3. sink.restore # "ok" /\ sink.at # "reply"
    BY <1>0, <1>1 DEF SinkInv
  <2> HIDE DEF len
  <2> QED
    BY <1>0, <1>1, <1>7, <1>9, <2>2, <2>3 DEF SinkInv, Sockets
<1>14. SourceInv'
  <2>1. src'.i <= src'.listed + 1 /\ (src'.at = "send" => src'.i >= 1)
    BY <1>0, <1>8 DEF SourceInv
  <2>2. /\ src'.at \in {"send", "dump", "ack"} /\ src'.conn["control"] # 0 /\ (src'.at = "ack" => src'.using # 0)
        /\ src'.at = "send" => src'.temp = {}
        /\ src'.at = "dump" => live
        /\ live /\ src'.at = "ack" => ct # "running"
    BY <1>0, <1>8, <1>10 DEF SourceInv
  <2>3. UNCHANGED <<live, ct, target, crashed, changed, snaps>> /\ sink'.restore = sink.restore
    BY <1>1, <1>7
  <2> QED
    BY <1>0, <2>1, <2>2, <2>3 DEF SourceInv, Silent, Sending
<1>15. HeaderInv'
  BY <1>0, <1>1, <1>7, <1>8, <1>9, <1>10 DEF HeaderInv, Silent, Sending
<1>16. AnswerInv'
  <2>1. ASSUME NEW n \in Attempts, NEW j \in 1 .. Len(toSource[n]), n = sink.n
        PROVE  Says(toSource[n][j])'
    <3>1. Says(toSource[n][j])
      BY <1>0, <2>1 DEF AnswerInv
    <3> QED
      BY <1>1, <1>7, <1>9, <3>1 DEF Says
  <2> QED
    BY <1>0, <1>1, <1>7, <2>1 DEF AnswerInv
<1>17. CountInv'
  <2> SUFFICES ASSUME ~changed
               PROVE  /\ sink'.transfer = "running" =>
                            /\ src'.at = "send" => Len(sink'.got) + 1 = src'.i
                            /\ src'.at \in {"dump", "criu", "final"} => Len(sink'.got) = src'.listed + 1
                            /\ src'.at # "ack"
                      /\ sink'.transfer = "ok" => sink'.got # <<>> /\ sink'.got[Len(sink'.got)] = "stopped"
    BY <1>1, <1>8 DEF CountInv
  <2>1. /\ sink.expect = src.listed + (IF live THEN 2 ELSE 1)
        /\ src.at = "send" => len + 1 = src.i
        /\ src.at = "final" => len = src.listed + 1 /\ live /\ ct # "running"
        /\ ~live => ct # "running"
        /\ src.i <= src.listed + 1
    BY <1>0, <1>1, <1>9 DEF CountInv, HeaderInv, SourceInv
  <2>2. Len(sink'.got) = len + 1 /\ sink'.got[Len(sink'.got)] = part /\ sink'.got # <<>>
    BY <1>5, <1>7
  <2> HIDE DEF len
  <2>3. CASE src.at = "send" /\ src.i <= src.listed
    <3>1. ~done
      BY <1>5, <2>1, <2>3 DEF done
    <3> QED
      BY <1>5, <1>7, <1>8, <2>1, <2>2, <2>3, <3>1
  <2>4. CASE src.at = "send" /\ src.i > src.listed /\ live
    <3>1. ~done /\ len = src.listed
      BY <1>5, <2>1, <2>4 DEF done
    <3> QED
      BY <1>7, <1>8, <2>2, <2>4, <3>1
  <2>5. CASE src.at = "final" \/ (src.at = "send" /\ src.i > src.listed /\ ~live)
    <3>1. done /\ part = "stopped"
      BY <1>3, <1>4, <1>5, <2>1, <2>5 DEF done
    <3> QED
      BY <1>7, <2>2, <3>1
  <2> QED
    BY <1>1, <2>3, <2>4, <2>5
<1> QED
  BY <1>11, <1>12, <1>13, <1>14, <1>15, <1>16, <1>17 DEF MigrationInv

-----------------------------------------------------------------------------
(* The target                                                                *)

\* An answer of the attempt at hand is added to its queue, or cannot be sent.
LEMMA TellsSource ==
    ASSUME MigrationInv, sink.n \in Attempts, NEW e \in Answers,
           toSource' = toSource \/ toSource' = [toSource EXCEPT ![sink.n] = Append(toSource[sink.n], e)]
    PROVE  /\ toSource' \in [Attempts -> Seq(Answers)]
           /\ \A n \in Attempts \ {sink.n} : toSource'[n] = toSource[n]
           /\ \A j \in 1 .. Len(toSource'[sink.n]) :
                 \/ j \in 1 .. Len(toSource[sink.n]) /\ toSource'[sink.n][j] = toSource[sink.n][j]
                 \/ toSource'[sink.n][j] = e /\ (j > 1 => toSource[sink.n] # <<>>)
<1> USE Typed
<1>0. Types
  BY DEF MigrationInv
<1>1. CASE toSource' = toSource
  BY <1>0, <1>1 DEF Types
<1>2. CASE toSource' = [toSource EXCEPT ![sink.n] = Append(toSource[sink.n], e)]
  <2> DEFINE q == toSource[sink.n]
  <2>1. /\ q \in Seq(Answers) /\ Append(q, e) \in Seq(Answers) /\ Len(q) \in Nat /\ Len(Append(q, e)) = Len(q) + 1
        /\ Append(q, e)[Len(q) + 1] = e /\ \A j \in 1 .. Len(q) : Append(q, e)[j] = q[j]
    BY AddOne
  <2>2. /\ toSource' \in [Attempts -> Seq(Answers)] /\ toSource'[sink.n] = Append(q, e)
        /\ \A n \in Attempts \ {sink.n} : toSource'[n] = toSource[n]
    BY <1>0, <1>2, <2>1 DEF Types
  <2>3. ASSUME NEW j \in 1 .. Len(Append(q, e))
        PROVE  \/ j \in 1 .. Len(q) /\ Append(q, e)[j] = q[j]
               \/ Append(q, e)[j] = e /\ (j > 1 => q # <<>>)
    <3>1. CASE j \in 1 .. Len(q)
      BY <2>1, <3>1
    <3>2. CASE j \notin 1 .. Len(q)
      <4>1. j = Len(q) + 1 /\ (j > 1 => Len(q) # 0)
        BY <2>1, <3>2
      <4>2. Len(<<>>) = 0
        OBVIOUS
      <4> QED
        BY <2>1, <4>1, <4>2
    <3> QED
      BY <3>1, <3>2
  <2> QED
    BY <2>2, <2>3
<1> QED
  BY <1>1, <1>2

\* However an attempt ends without success, it says "error" only if it will not
\* restore the container any more.
LEMMA SinkOver ==
    ASSUME MigrationInv, sink.op = "running",
           sink' \in SinkRecord, sink'.at = "ended", sink'.op = "failure", sink'.n = sink.n, sink'.fs = sink.fs,
           sink'.expect = sink.expect, sink'.got = sink.got, sink'.temp = sink.temp,
           \/ sink'.restore = sink.restore /\ sink'.transfer = sink.transfer
           \/ sink'.restore = "none" /\ sink'.transfer = "none",
           target' = target \/ (target = "created" /\ target' = "absent"),
           toSource' \in [Attempts -> Seq(Answers)],
           \A n \in Attempts \ {sink.n} : toSource'[n] = toSource[n],
           \A j \in 1 .. Len(toSource'[sink.n]) :
              \/ j \in 1 .. Len(toSource[sink.n]) /\ toSource'[sink.n][j] = toSource[sink.n][j]
              \/ toSource'[sink.n][j] = "error" /\ sink'.restore = (IF Served THEN "error" ELSE "none"),
           links' \subseteq links, faults' \in Nat,
           UNCHANGED <<live, move, srcType, sinkType, snaps, ct, src, toSink, client, crashed, replaced, changed>>
    PROVE  MigrationInv'
<1> USE Typed
<1>0. Types /\ BoundsInv /\ SinkInv /\ SourceInv /\ HeaderInv /\ AnswerInv /\ CountInv
  BY DEF MigrationInv
<1>1. sink.n \in Attempts
  BY <1>0 DEF SinkInv
<1>2. (Served' <=> Served) /\ (Pending' <=> Pending)
  BY DEF Served, Pending
<1>3. Types'
  BY <1>0 DEF Types
<1>4. BoundsInv'
  <2>1. client # "asking"
    BY <1>0 DEF BoundsInv, NoSink
  <2>2. \A n \in Attempts : n > sink.n => toSource'[n] = toSource[n]
    BY <1>1
  <2> QED
    BY <1>0, <1>1, <2>1, <2>2 DEF BoundsInv
<1>5. SinkInv'
  BY <1>0, <1>2 DEF SinkInv, Sockets
<1>6. SourceInv'
  BY <1>0 DEF SourceInv, Silent, Sending
<1>7. HeaderInv'
  BY <1>0, <1>2 DEF HeaderInv, Silent, Sending
<1>8. AnswerInv'
  <2>1. ASSUME NEW n \in Attempts, NEW j \in 1 .. Len(toSource'[n])
        PROVE  /\ n # sink.n => toSource'[n][j] # "ok"
               /\ n = sink.n => Says(toSource[n][j])'
               /\ j > 1 => toSource'[n][j] \in {"ok", "error"}
    <3>1. CASE n # sink.n
      BY <1>0, <3>1 DEF AnswerInv
    <3>2. CASE n = sink.n /\ j \in 1 .. Len(toSource[n]) /\ toSource'[n][j] = toSource[n][j]
      <4>1. Says(toSource[n][j]) /\ (j > 1 => toSource[n][j] \in {"ok", "error"})
        BY <1>0, <3>2 DEF AnswerInv
      <4>2. sink.at # "ended"
        BY <1>0 DEF SinkInv
      <4> QED
        BY <1>2, <3>2, <4>1, <4>2 DEF Says
    <3>3. CASE n = sink.n /\ toSource'[n][j] = "error" /\ sink'.restore = (IF Served THEN "error" ELSE "none")
      BY <1>2, <3>3 DEF Says
    <3> QED
      BY <3>1, <3>2, <3>3
  <2> QED
    BY <2>1 DEF AnswerInv
<1>9. CountInv'
  BY <1>0 DEF CountInv
<1> QED
  BY <1>3, <1>4, <1>5, <1>6, <1>7, <1>8, <1>9 DEF MigrationInv

\* A failing target.
LEMMA SinkFailing ==
    ASSUME MigrationInv, sink.op = "running", NEW m \in {<<>>, <<"error">>}, SinkFails(m),
           m = <<"error">> => sink.restore = (IF Served THEN "error" ELSE "none"),
           UNCHANGED <<setup, snaps, ct, src, toSink, client, crashed, replaced, changed>>, faults' \in Nat
    PROVE  MigrationInv'
<1> USE Typed
<1>0. Types /\ SinkInv
  BY DEF MigrationInv
<1>1. sink.n \in Attempts /\ "error" \in Answers
  BY <1>0 DEF SinkInv, Answers
<1>2. /\ sink' \in SinkRecord /\ sink'.at = "ended" /\ sink'.op = "failure" /\ sink'.n = sink.n /\ sink'.fs = sink.fs
      /\ sink'.expect = sink.expect /\ sink'.got = sink.got /\ sink'.temp = sink.temp
      /\ sink'.restore = sink.restore /\ sink'.transfer = sink.transfer
      /\ target' = target \/ (target = "created" /\ target' = "absent")
      /\ links' \subseteq links
  BY DEF SinkFails, SinkRecord
<1>3. toSource[sink.n] \o <<>> = toSource[sink.n] /\ toSource[sink.n] \o <<"error">> = Append(toSource[sink.n], "error")
  BY <1>1, AddOne, EmptySeq
<1>4. \/ toSource' = toSource
      \/ m = <<"error">> /\ toSource' = [toSource EXCEPT ![sink.n] = Append(toSource[sink.n], "error")]
  <2>1. \/ toSource' = toSource
        \/ toSource' = [toSource EXCEPT ![sink.n] = toSource[sink.n] \o m]
    BY DEF SinkFails
  <2>2. [toSource EXCEPT ![sink.n] = toSource[sink.n]] = toSource
    BY <1>0 DEF Types
  <2> QED
    BY <1>3, <2>1, <2>2
<1>5. CASE toSource' = toSource
  BY <1>0, <1>1, <1>2, <1>5, SinkOver DEF Types, setup
<1>6. CASE m = <<"error">> /\ toSource' = [toSource EXCEPT ![sink.n] = Append(toSource[sink.n], "error")]
  <2>1. /\ toSource' \in [Attempts -> Seq(Answers)]
        /\ \A n \in Attempts \ {sink.n} : toSource'[n] = toSource[n]
        /\ \A j \in 1 .. Len(toSource'[sink.n]) :
              \/ j \in 1 .. Len(toSource[sink.n]) /\ toSource'[sink.n][j] = toSource[sink.n][j]
              \/ toSource'[sink.n][j] = "error"
    BY <1>1, <1>6, TellsSource
  <2>2. sink'.restore = (IF Served THEN "error" ELSE "none")
    BY <1>2, <1>6
  <2> QED
    BY <1>2, <2>1, <2>2, SinkOver DEF setup
<1> QED
  BY <1>4, <1>5, <1>6

\* The target's daemon dies.
LEMMA SinkCrashesInv ==
    ASSUME MigrationInv, SinkCrashes
    PROVE  MigrationInv'
<1> USE Typed
<1>0. Types
  BY DEF MigrationInv
<1>1. /\ sink.op = "running" /\ links' \subseteq links
      /\ sink' \in SinkRecord /\ sink'.at = "ended" /\ sink'.op = "failure" /\ sink'.n = sink.n /\ sink'.fs = sink.fs
      /\ sink'.expect = sink.expect /\ sink'.got = sink.got /\ sink'.temp = sink.temp
      /\ sink'.restore = "none" /\ sink'.transfer = "none"
  BY DEF SinkCrashes, SinkRecord
<1>2. /\ UNCHANGED <<live, move, srcType, sinkType, snaps, ct, src, target, toSink, toSource, client, crashed, replaced,
                     changed>>
      /\ faults' \in Nat
  BY <1>0 DEF SinkCrashes, Fault, Types, setup
<1> QED
  BY <1>0, <1>1, <1>2, SinkOver DEF Types

\* The target connects one socket after the other.
LEMMA SinkConnectsInv ==
    ASSUME MigrationInv, SinkConnects
    PROVE  MigrationInv'
<1> USE Typed
<1>0. Types /\ BoundsInv /\ SinkInv /\ SourceInv /\ HeaderInv /\ AnswerInv /\ CountInv
  BY DEF MigrationInv
<1> DEFINE sock == Sockets[sink.dialled + 1]
           last == Sockets[Len(Sockets)]
<1>1. /\ sink.at = "connect" /\ sink.op = "running" /\ sink.n \in Attempts /\ ~Served
      /\ faults' \in Nat
      /\ UNCHANGED <<live, move, srcType, sinkType, snaps, ct, toSink, client, crashed, changed>>
  BY <1>0 DEF SinkConnects, SinkInv, Fault, Types, setup
<1>2. CASE /\ Connect(sock, sink.n)
           /\ sink' = [sink EXCEPT !.dialled = @ + 1, !.at = IF sock = last THEN "recv" ELSE "connect"]
           /\ UNCHANGED <<target, toSource, faults>>
  <2>1. sock \in Socks /\ (sock # last => sink.dialled + 1 < Len(Sockets))
    <3>1. sink.dialled \in Nat /\ sink.dialled < Len(Sockets)
      BY <1>0, <1>1 DEF SinkInv, SinkRecord
    <3>2. CASE live
      <4>1. Sockets = <<"control", "fs", "criu">> /\ Len(Sockets) = 3 /\ sink.dialled \in {0, 1, 2}
        BY <3>1, <3>2 DEF Sockets
      <4> QED
        BY <4>1 DEF Socks
    <3>3. CASE ~live
      <4>1. Sockets = <<"control", "fs">> /\ Len(Sockets) = 2 /\ sink.dialled \in {0, 1}
        BY <3>1, <3>3 DEF Sockets
      <4> QED
        BY <4>1 DEF Socks
    <3> QED
      BY <3>2, <3>3
  <2> DEFINE d == sink.dialled + 1
             a == IF sock = last THEN "recv" ELSE "connect"
  <2>2. /\ d \in Nat /\ a \in {"recv", "connect"} /\ (a = "connect" => d < Len(Sockets))
        /\ sink' = [sink EXCEPT !.dialled = d, !.at = a]
    BY <1>2, <2>1 DEF SinkRecord
  <2> HIDE DEF d, a
  <2>3. /\ sink' \in SinkRecord /\ sink'.at = a /\ sink'.dialled = d /\ sink'.op = sink.op /\ sink'.n = sink.n
        /\ sink'.fs = sink.fs /\ sink'.expect = sink.expect /\ sink'.got = sink.got /\ sink'.temp = sink.temp
        /\ sink'.restore = sink.restore /\ sink'.transfer = sink.transfer
    BY <2>2 DEF SinkRecord
  <2> HIDE DEF sock, last
  <2>4. /\ src.op = "running" /\ links' = links \cup {<<sock, sink.n>>} /\ replaced' \in BOOLEAN
        /\ src' \in SourceRecord /\ src'.at = src.at /\ src'.op = src.op /\ src'.using = src.using
        /\ src'.fs = src.fs /\ src'.listed = src.listed /\ src'.i = src.i /\ src'.temp = src.temp
        /\ src'.conn[sock] = sink.n /\ \A x \in Socks \ {sock} : src'.conn[x] = src.conn[x]
    <3>1. /\ src.op = "running" /\ links' = links \cup {<<sock, sink.n>>} /\ replaced' \in BOOLEAN
          /\ src' = [src EXCEPT !.conn[sock] = sink.n]
      BY <1>2 DEF Connect
    <3>2. sink.n \in 0 .. MaxAttempts
      BY <1>1 DEF Attempts
    <3> QED
      BY <2>1, <3>1, <3>2 DEF SourceRecord
  <2>5. (Served' <=> Served) /\ (Pending' <=> Pending)
    BY <1>1, <2>3 DEF Served, Pending
  <2>6. Types'
    BY <1>0, <1>1, <1>2, <2>1, <2>3, <2>4 DEF Types
  <2>7. \A x \in Socks : src'.conn[x] \in {src.conn[x], sink.n}
    BY <2>4
  <2>8. BoundsInv'
    <3>1. client # "asking"
      BY <1>0, <2>4 DEF BoundsInv
    <3>2. \A x \in Socks : src'.conn[x] <= sink.n
      BY <1>0, <2>7 DEF BoundsInv
    <3> QED
      BY <1>0, <1>1, <1>2, <2>3, <2>4, <3>1, <3>2 DEF BoundsInv
  <2>9. SinkInv'
    BY <1>0, <1>1, <1>2, <2>2, <2>3, <2>5 DEF SinkInv, Sockets
  <2>10. SourceInv'
    BY <1>0, <1>1, <1>2, <2>3, <2>4, <2>7 DEF SourceInv, Silent, Sending
  <2>11. HeaderInv'
    BY <1>0, <1>1, <2>3, <2>4, <2>5, <2>7 DEF HeaderInv, Silent, Sending
  <2>12. AnswerInv'
    <3>1. toSource[sink.n] = <<>> /\ Len(<<>>) = 0
      BY <1>0, <1>1 DEF AnswerInv
    <3> QED
      BY <1>0, <1>2, <2>3, <3>1 DEF AnswerInv
  <2>13. CountInv'
    BY <1>0, <1>1, <2>3, <2>4 DEF CountInv
  <2> QED
    BY <2>6, <2>8, <2>9, <2>10, <2>11, <2>12, <2>13 DEF MigrationInv
<1>3. CASE SinkFails(<<"error">>) /\ UNCHANGED <<src, replaced>>
  <2>1. sink.restore = "none"
    BY <1>0, <1>1 DEF SinkInv
  <2> QED
    BY <1>1, <1>3, <2>1, SinkFailing DEF setup
<1> QED
  BY <1>2, <1>3 DEF SinkConnects

\* The header arrives: it is the only one.
LEMMA SinkReceivesHeaderInv ==
    ASSUME MigrationInv, SinkReceivesHeader
    PROVE  MigrationInv'
<1> USE Typed
<1>0. Types /\ BoundsInv /\ SinkInv /\ SourceInv /\ HeaderInv /\ AnswerInv /\ CountInv
  BY DEF MigrationInv
<1> DEFINE q == toSink[sink.n]
           h == Head(toSink[sink.n])
<1>1. /\ sink.at = "recv" /\ sink.op = "running" /\ sink.n \in Attempts /\ ~Served /\ faults' \in Nat
      /\ UNCHANGED <<live, move, srcType, sinkType, snaps, ct, src, client, faults, crashed, replaced, changed>>
  BY <1>0 DEF SinkReceivesHeader, SinkInv, Types, setup
<1>2. CASE /\ q # <<>> /\ h.kind = "header"
           /\ toSink' = [toSink EXCEPT ![sink.n] = Tail(q)]
           /\ sink' = [sink EXCEPT !.at = "reply", !.expect = h.snaps + (IF live THEN 2 ELSE 1),
                                   !.fs = IF h.fs = sinkType THEN sinkType ELSE "rsync"]
           /\ UNCHANGED <<target, toSource, links>>
  <2>1. /\ q \in Seq(Messages) /\ Tail(q) \in Seq(Messages) /\ h = q[1] /\ h \in Messages
        /\ Len(q) \in Nat /\ 1 \in 1 .. Len(q) /\ Len(Tail(q)) = Len(q) - 1
        /\ \A j \in 1 .. Len(Tail(q)) : Tail(q)[j] = q[j + 1]
    BY <1>1, <1>2, TailOf
  <2>2. h.snaps \in Nat
    BY <1>2, <2>1 DEF Messages, Headers
  <2>3. Pending
    BY <1>2, <2>1 DEF Pending
  <2>4. /\ src.at \in {"negotiate", "ended"} /\ src.conn["control"] = sink.n
        /\ src.at = "negotiate" => src.using = sink.n
        /\ ~changed => h.snaps = src.listed
    BY <1>0, <1>1, <1>2, <2>1, <2>3 DEF HeaderInv
  <2> DEFINE x == h.snaps + (IF live THEN 2 ELSE 1)
             y == IF h.fs = sinkType THEN sinkType ELSE "rsync"
  <2>5. /\ x \in Nat /\ x > 0 /\ y \in Fs /\ sink' = [sink EXCEPT !.at = "reply", !.expect = x, !.fs = y]
        /\ ~changed => x = src.listed + (IF live THEN 2 ELSE 1)
    <3>1. x \in Nat /\ x > 0 /\ (~changed => x = src.listed + (IF live THEN 2 ELSE 1))
      <4> HIDE DEF h
      <4> QED
        BY <2>2, <2>4
    <3>2. y \in Fs
      BY <1>0 DEF Types, Fs
    <3>3. sink' = [sink EXCEPT !.at = "reply", !.expect = x, !.fs = y]
      BY <1>2
    <3> QED
      BY <3>1, <3>2, <3>3
  <2> HIDE DEF x, y
  <2>6. /\ sink' \in SinkRecord /\ sink'.at = "reply" /\ sink'.dialled = sink.dialled /\ sink'.op = sink.op
        /\ sink'.n = sink.n /\ sink'.fs = y /\ sink'.expect = x /\ sink'.got = sink.got /\ sink'.temp = sink.temp
        /\ sink'.restore = sink.restore /\ sink'.transfer = sink.transfer
    BY <2>5 DEF SinkRecord
  <2>7. /\ toSink' \in [Attempts -> Seq(Messages)] /\ toSink'[sink.n] = Tail(q)
        /\ \A n \in Attempts \ {sink.n} : toSink'[n] = toSink[n]
    BY <1>0, <1>1, <1>2, <2>1 DEF Types
  <2>8. Served'
    BY <2>5, <2>6 DEF Served
  <2>9. \A j \in 1 .. Len(toSink'[sink.n]) : toSink'[sink.n][j].kind # "header"
    <3> SUFFICES ASSUME NEW j \in 1 .. Len(Tail(q)) PROVE Tail(q)[j].kind # "header"
      BY <2>7
    <3>1. j + 1 \in 1 .. Len(q) /\ j + 1 # 1 /\ Tail(q)[j] = q[j + 1]
      BY <2>1
    <3> QED
      BY <1>0, <1>1, <3>1 DEF HeaderInv
  <2>10. Types'
    BY <1>0, <1>1, <1>2, <2>6, <2>7 DEF Types
  <2>11. BoundsInv'
    <3>1. client # "asking"
      BY <1>0, <1>1 DEF BoundsInv, NoSink
    <3>2. \A n \in Attempts : n > sink.n => toSink'[n] = toSink[n]
      BY <1>1, <2>7
    <3> QED
      BY <1>0, <1>1, <1>2, <2>6, <3>1, <3>2 DEF BoundsInv
  <2>12. SinkInv'
    <3>1. sink.got = <<>> /\ Len(<<>>) = 0 /\ sink.restore = "none" /\ sink.transfer = "none" /\ target # "running"
      BY <1>0, <1>1 DEF SinkInv
    <3> QED
      BY <1>0, <1>1, <1>2, <2>5, <2>6, <2>8, <3>1 DEF SinkInv
  <2>13. SourceInv'
    BY <1>0, <1>1, <1>2, <2>6 DEF SourceInv, Silent, Sending
  <2>14. HeaderInv'
    <3>1. ~Pending'
      BY <2>6, <2>9 DEF Pending
    <3>2. \A n \in Attempts : \A j \in 1 .. Len(toSink'[n]) :
             toSink'[n][j].kind = "header" => j = 1 /\ (~changed => toSink'[n][j].snaps = src.listed)
      BY <1>0, <2>7, <2>9 DEF HeaderInv
    <3> QED
      BY <1>1, <2>4, <2>5, <2>6, <2>8, <3>1, <3>2 DEF HeaderInv, Silent, Sending
  <2>15. AnswerInv'
    <3>1. toSource[sink.n] = <<>> /\ Len(<<>>) = 0
      BY <1>0, <1>1 DEF AnswerInv
    <3> QED
      BY <1>0, <1>2, <2>6, <3>1 DEF AnswerInv
  <2>16. CountInv'
    BY <1>0, <1>1, <2>6 DEF CountInv
  <2> QED
    BY <2>10, <2>11, <2>12, <2>13, <2>14, <2>15, <2>16 DEF MigrationInv
<1>3. CASE SinkFails(<<"error">>) /\ toSink' = toSink
  <2>1. sink.restore = "none"
    BY <1>0, <1>1 DEF SinkInv
  <2> QED
    BY <1>1, <1>3, <2>1, SinkFailing DEF setup
<1> QED
  BY <1>2, <1>3 DEF SinkReceivesHeader

\* The target answers the header.
LEMMA SinkRepliesInv ==
    ASSUME MigrationInv, SinkReplies
    PROVE  MigrationInv'
<1> USE Typed
<1>0. Types /\ BoundsInv /\ SinkInv /\ SourceInv /\ HeaderInv /\ AnswerInv /\ CountInv
  BY DEF MigrationInv
<1>1. /\ sink.at = "reply" /\ sink.op = "running" /\ sink.n \in Attempts /\ Served /\ faults' \in Nat
      /\ UNCHANGED <<live, move, srcType, sinkType, snaps, ct, src, toSink, client, faults, crashed, replaced, changed>>
  BY <1>0 DEF SinkReplies, SinkInv, Types, setup
<1>2. CASE /\ toSource' = [toSource EXCEPT ![sink.n] = Append(@, sink.fs)]
           /\ sink' = [sink EXCEPT !.at = "select", !.transfer = "running",
                                   !.restore = IF live THEN "criu" ELSE "fs"]
           /\ UNCHANGED <<target, links>>
  <2> DEFINE r == IF live THEN "criu" ELSE "fs"
  <2>1. r \in {"criu", "fs"} /\ sink' = [sink EXCEPT !.at = "select", !.transfer = "running", !.restore = r]
    BY <1>2
  <2>2. live => r = "criu"
    OBVIOUS
  <2> HIDE DEF r
  <2>3. /\ sink' \in SinkRecord /\ sink'.at = "select" /\ sink'.dialled = sink.dialled /\ sink'.op = sink.op
        /\ sink'.n = sink.n /\ sink'.fs = sink.fs /\ sink'.expect = sink.expect /\ sink'.got = sink.got
        /\ sink'.temp = sink.temp /\ sink'.restore = r /\ sink'.transfer = "running"
    BY <2>1 DEF SinkRecord
  <2>4. /\ toSource[sink.n] = <<>> /\ Len(<<>>) = 0 /\ sink.got = <<>> /\ sink.restore = "none"
        /\ target # "running"
        /\ src.at \in {"negotiate", "ended"}
    <3>1. /\ toSource[sink.n] = <<>> /\ Len(<<>>) = 0 /\ sink.got = <<>> /\ sink.restore = "none"
          /\ target # "running"
      BY <1>0, <1>1 DEF AnswerInv, SinkInv
    <3>2. src.at \notin Silent /\ src.at \notin Sending
      BY <1>0, <1>1 DEF HeaderInv
    <3> QED
      BY <3>1, <3>2 DEF Silent, Sending, SourceRecord
  <2>5. sink.fs \in Answers
    BY DEF SinkRecord, Answers
  <2>6. /\ toSource' \in [Attempts -> Seq(Answers)]
        /\ \A n \in Attempts \ {sink.n} : toSource'[n] = toSource[n]
        /\ \A j \in 1 .. Len(toSource'[sink.n]) : j = 1 /\ toSource'[sink.n][j] = sink.fs
    <3>1. toSource' = [toSource EXCEPT ![sink.n] = Append(toSource[sink.n], sink.fs)]
      BY <1>2
    <3>2. /\ toSource' \in [Attempts -> Seq(Answers)]
          /\ \A n \in Attempts \ {sink.n} : toSource'[n] = toSource[n]
          /\ \A j \in 1 .. Len(toSource'[sink.n]) :
                \/ j \in 1 .. Len(toSource[sink.n]) /\ toSource'[sink.n][j] = toSource[sink.n][j]
                \/ toSource'[sink.n][j] = sink.fs /\ (j > 1 => toSource[sink.n] # <<>>)
      BY <1>1, <2>5, <3>1, TellsSource
    <3> QED
      BY <2>4, <3>2
  <2>7. (Served' <=> Served) /\ (Pending' <=> Pending)
    BY <1>1, <2>3 DEF Served, Pending
  <2>8. Types'
    BY <1>0, <1>1, <1>2, <2>3, <2>6 DEF Types
  <2>9. BoundsInv'
    <3>1. client # "asking"
      BY <1>0, <1>1 DEF BoundsInv, NoSink
    <3>2. \A n \in Attempts : n > sink.n => toSource'[n] = toSource[n]
      BY <1>1, <2>6
    <3> QED
      BY <1>0, <1>1, <1>2, <2>3, <3>1, <3>2 DEF BoundsInv
  <2>10. SinkInv'
    BY <1>0, <1>1, <1>2, <2>1, <2>3, <2>4, <2>7 DEF SinkInv, Served
  <2>11. SourceInv'
    BY <1>0, <1>1, <1>2, <2>1, <2>2, <2>3, <2>4 DEF SourceInv, Silent, Sending
  <2>12. HeaderInv'
    BY <1>0, <1>1, <2>3, <2>4, <2>7 DEF HeaderInv, Silent, Sending
  <2>13. AnswerInv'
    <3>1. ASSUME NEW n \in Attempts, NEW j \in 1 .. Len(toSource'[n])
          PROVE  /\ n # sink.n => toSource'[n][j] # "ok"
                 /\ n = sink.n => Says(toSource[n][j])'
                 /\ j > 1 => toSource'[n][j] \in {"ok", "error"}
      <4>1. CASE n # sink.n
        BY <1>0, <2>6, <4>1 DEF AnswerInv
      <4>2. CASE n = sink.n
        <5>1. j = 1 /\ toSource'[n][j] = sink.fs
          BY <2>6, <4>2
        <5> QED
          BY <1>1, <2>3, <2>4, <2>7, <4>2, <5>1 DEF Says
      <4> QED
        BY <4>1, <4>2
    <3> QED
      BY <2>3, <3>1 DEF AnswerInv
  <2>14. CountInv'
    BY <1>0, <1>1, <2>3, <2>4 DEF CountInv
  <2> QED
    BY <2>8, <2>9, <2>10, <2>11, <2>12, <2>13, <2>14 DEF MigrationInv
<1>3. CASE SinkFails(<<>>)
  BY <1>1, <1>3, SinkFailing DEF setup
<1> QED
  BY <1>2, <1>3 DEF SinkReplies

\* The target tells the source that it has restored the container.
LEMMA SinkReportsSuccessInv ==
    ASSUME MigrationInv, SinkReportsSuccess
    PROVE  MigrationInv'
<1> USE Typed
<1>0. Types /\ BoundsInv /\ SinkInv /\ SourceInv /\ HeaderInv /\ AnswerInv /\ CountInv
  BY DEF MigrationInv
<1>1. /\ sink.at = "select" /\ sink.restore = "ok" /\ sink.op = "running" /\ sink.n \in Attempts /\ Served
      /\ links' \subseteq links
      /\ UNCHANGED <<live, move, srcType, sinkType, snaps, ct, src, target, toSink, client, faults, crashed, replaced,
                     changed>>
  BY <1>0 DEF SinkReportsSuccess, SinkInv, setup
<1>2. /\ sink' \in SinkRecord /\ sink'.at = "ended" /\ sink'.dialled = sink.dialled /\ sink'.op = "success"
      /\ sink'.n = sink.n /\ sink'.fs = sink.fs /\ sink'.expect = sink.expect /\ sink'.got = sink.got
      /\ sink'.temp = sink.temp /\ sink'.restore = sink.restore /\ sink'.transfer = sink.transfer
  BY DEF SinkReportsSuccess, SinkRecord
<1>3. /\ toSource' \in [Attempts -> Seq(Answers)]
      /\ \A n \in Attempts \ {sink.n} : toSource'[n] = toSource[n]
      /\ \A j \in 1 .. Len(toSource'[sink.n]) :
            \/ j \in 1 .. Len(toSource[sink.n]) /\ toSource'[sink.n][j] = toSource[sink.n][j]
            \/ toSource'[sink.n][j] = "ok"
  <2>1. toSource' = toSource \/ toSource' = [toSource EXCEPT ![sink.n] = Append(toSource[sink.n], "ok")]
    BY DEF SinkReportsSuccess
  <2>2. "ok" \in Answers
    BY DEF Answers
  <2> QED
    BY <1>1, <2>1, <2>2, TellsSource
<1>4. (Served' <=> Served) /\ (Pending' <=> Pending)
  BY <1>1, <1>2 DEF Served, Pending
<1>5. Types'
  BY <1>0, <1>1, <1>2, <1>3 DEF Types
<1>6. BoundsInv'
  <2>1. client # "asking"
    BY <1>0, <1>1 DEF BoundsInv, NoSink
  <2>2. \A n \in Attempts : n > sink.n => toSource'[n] = toSource[n]
    BY <1>1, <1>3
  <2> QED
    BY <1>0, <1>1, <1>2, <2>1, <2>2 DEF BoundsInv
<1>7. SinkInv'
  BY <1>0, <1>1, <1>2, <1>4 DEF SinkInv, Sockets
<1>8. SourceInv'
  BY <1>0, <1>1, <1>2 DEF SourceInv, Silent, Sending
<1>9. HeaderInv'
  BY <1>0, <1>1, <1>2, <1>4 DEF HeaderInv, Silent, Sending
<1>10. AnswerInv'
  <2>1. ASSUME NEW n \in Attempts, NEW j \in 1 .. Len(toSource'[n])
        PROVE  /\ n # sink.n => toSource'[n][j] # "ok"
               /\ n = sink.n => Says(toSource[n][j])'
               /\ j > 1 => toSource'[n][j] \in {"ok", "error"}
    <3>1. CASE n # sink.n
      BY <1>0, <1>3, <3>1 DEF AnswerInv
    <3>2. CASE n = sink.n /\ j \in 1 .. Len(toSource[n]) /\ toSource'[n][j] = toSource[n][j]
      <4>1. Says(toSource[n][j]) /\ (j > 1 => toSource[n][j] \in {"ok", "error"})
        BY <1>0, <3>2 DEF AnswerInv
      <4> QED
        BY <1>1, <1>2, <1>4, <3>2, <4>1 DEF Says
    <3>3. CASE n = sink.n /\ toSource'[n][j] = "ok"
      BY <1>2, <3>3 DEF Says
    <3> QED
      BY <1>3, <3>1, <3>2, <3>3
  <2> QED
    BY <1>2, <2>1 DEF AnswerInv
<1>11. CountInv'
  BY <1>0, <1>1, <1>2 DEF CountInv
<1> QED
  BY <1>5, <1>6, <1>7, <1>8, <1>9, <1>10, <1>11 DEF MigrationInv

\* The target tells the source that it could not restore it, or learns that the
\* source has failed.
LEMMA SinkReportsFailureInv ==
    ASSUME MigrationInv, SinkReportsFailure \/ SinkHearsSource
    PROVE  MigrationInv'
<1>0. Types /\ SinkInv
  BY DEF MigrationInv
<1>1. /\ sink.at = "select" /\ sink.op = "running" /\ Served /\ faults' \in Nat
      /\ UNCHANGED <<setup, snaps, ct, src, toSink, client, faults, crashed, replaced, changed>>
  BY <1>0 DEF SinkReportsFailure, SinkHearsSource, SinkInv, Types
<1>2. CASE SinkReportsFailure
  <2>1. SinkFails(<<"error">>) /\ sink.restore = "error"
    BY <1>2 DEF SinkReportsFailure
  <2> QED
    BY <1>1, <2>1, SinkFailing
<1>3. CASE SinkHearsSource
  <2>1. SinkFails(<<>>)
    BY <1>3 DEF SinkHearsSource
  <2> QED
    BY <1>1, <2>1, SinkFailing
<1> QED
  BY <1>2, <1>3

\* The goroutines of the target, each with a result that is not taken back.
LEMMA SinkWorks ==
    ASSUME MigrationInv, Served, sink.at # "reply",
           sink' \in SinkRecord, sink'.at = sink.at, sink'.op = sink.op, sink'.n = sink.n, sink'.fs = sink.fs,
           sink'.dialled = sink.dialled, sink'.expect = sink.expect, sink'.got = sink.got,
           \/ sink'.transfer = sink.transfer /\ sink'.temp = sink.temp
           \/ sink.transfer = "running" /\ sink'.transfer = "error" /\ sink'.temp = {},
           \/ sink'.restore = sink.restore /\ target' = target
           \/ sink.restore \in {"criu", "fs"} /\ sink'.restore = "error" /\ target' = target
           \/ /\ sink.restore = "fs" /\ sink'.restore = "ok" /\ sink'.transfer = "ok" /\ target # "absent"
              /\ target' = IF live THEN "running" ELSE target,
           links' \subseteq links, faults' \in Nat,
           UNCHANGED <<live, move, srcType, sinkType, snaps, ct, src, toSink, toSource, client, crashed, replaced,
                       changed>>
    PROVE  MigrationInv'
<1> USE Typed
<1>0. Types /\ BoundsInv /\ SinkInv /\ SourceInv /\ HeaderInv /\ AnswerInv /\ CountInv
  BY DEF MigrationInv
<1>1. (Served' <=> Served) /\ (Pending' <=> Pending) /\ sink.n # 0
  BY <1>0 DEF Served, Pending, HeaderInv
<1>2. Types'
  BY <1>0 DEF Types
<1>3. BoundsInv'
  <2>1. client # "asking"
    BY <1>0, <1>1 DEF BoundsInv, NoSink
  <2> QED
    BY <1>0, <2>1 DEF BoundsInv
<1>4. SinkInv'
  <2>1. /\ sink'.op = "success" => sink.restore = "ok" /\ sink'.restore = "ok" /\ target' = target
        /\ target = "running" => sink'.restore = sink.restore
    BY <1>0 DEF SinkInv
  <2> QED
    BY <1>0, <1>1, <2>1 DEF SinkInv, Sockets
<1>5. SourceInv'
  BY <1>0 DEF SourceInv, Silent, Sending
<1>6. HeaderInv'
  BY <1>0, <1>1 DEF HeaderInv, Silent, Sending
<1>7. AnswerInv'
  <2>1. ASSUME NEW n \in Attempts, NEW j \in 1 .. Len(toSource[n]), n = sink.n
        PROVE  Says(toSource[n][j])'
    <3>1. Says(toSource[n][j])
      BY <1>0, <2>1 DEF AnswerInv
    <3> QED
      BY <1>1, <3>1 DEF Says
  <2> QED
    BY <1>0, <2>1 DEF AnswerInv
<1>8. CountInv'
  BY <1>0 DEF CountInv
<1> QED
  BY <1>2, <1>3, <1>4, <1>5, <1>6, <1>7, <1>8 DEF MigrationInv

\* The transfer fails at the target.
LEMMA TransferFailsInv ==
    ASSUME MigrationInv, TransferFails
    PROVE  MigrationInv'
<1> USE Typed
<1>0. Types /\ SinkInv
  BY DEF MigrationInv
<1>1. /\ sink.transfer = "running" /\ Served /\ sink.at # "reply" /\ links' \subseteq links /\ faults' \in Nat
      /\ UNCHANGED <<live, move, srcType, sinkType, snaps, ct, src, target, toSink, toSource, client, crashed, replaced,
                     changed>>
  BY <1>0 DEF TransferFails, SinkInv, Fault, Types, setup
<1>2. /\ sink' \in SinkRecord /\ sink'.at = sink.at /\ sink'.op = sink.op /\ sink'.n = sink.n /\ sink'.fs = sink.fs
      /\ sink'.dialled = sink.dialled /\ sink'.expect = sink.expect /\ sink'.got = sink.got
      /\ sink'.transfer = "error" /\ sink'.temp = {} /\ sink'.restore = sink.restore
  BY DEF TransferFails, SinkRecord
<1> QED
  BY <1>1, <1>2, SinkWorks

\* CRIU's images do not arrive.
LEMMA CriuFailsInv ==
    ASSUME MigrationInv, CriuFails
    PROVE  MigrationInv'
<1> USE Typed
<1>0. Types /\ SinkInv
  BY DEF MigrationInv
<1>1. /\ sink.restore = "criu" /\ Served /\ sink.at # "reply" /\ links' \subseteq links /\ faults' \in Nat
      /\ UNCHANGED <<live, move, srcType, sinkType, snaps, ct, src, target, toSink, toSource, client, crashed, replaced,
                     changed>>
  BY <1>0 DEF CriuFails, SinkInv, Fault, Types, setup
<1>2. /\ sink' \in SinkRecord /\ sink'.at = sink.at /\ sink'.op = sink.op /\ sink'.n = sink.n /\ sink'.fs = sink.fs
      /\ sink'.dialled = sink.dialled /\ sink'.expect = sink.expect /\ sink'.got = sink.got
      /\ sink'.transfer = sink.transfer /\ sink'.temp = sink.temp /\ sink'.restore = "error"
  BY DEF CriuFails, SinkRecord
<1> QED
  BY <1>1, <1>2, SinkWorks

\* The container is restored, or not.
LEMMA RestoreInv ==
    ASSUME MigrationInv, Restore
    PROVE  MigrationInv'
<1> USE Typed
<1>0. Types /\ SinkInv
  BY DEF MigrationInv
<1>1. /\ sink.restore = "fs" /\ Served /\ sink.at # "reply" /\ links' \subseteq links /\ faults' \in Nat
      /\ UNCHANGED <<live, move, srcType, sinkType, snaps, ct, src, toSink, toSource, client, crashed, replaced, changed>>
  BY <1>0 DEF Restore, SinkInv, Fault, Types, setup
<1>2. \/ /\ sink.transfer = "ok" /\ target # "absent" /\ target' = IF live THEN "running" ELSE target
         /\ sink' = [sink EXCEPT !.restore = "ok"]
      \/ target' = target /\ sink' = [sink EXCEPT !.restore = "error"]
  BY DEF Restore, MigrateRestore
<1>3. /\ sink' \in SinkRecord /\ sink'.at = sink.at /\ sink'.op = sink.op /\ sink'.n = sink.n /\ sink'.fs = sink.fs
      /\ sink'.dialled = sink.dialled /\ sink'.expect = sink.expect /\ sink'.got = sink.got
      /\ sink'.transfer = sink.transfer /\ sink'.temp = sink.temp
      /\ \/ /\ sink.transfer = "ok" /\ target # "absent" /\ target' = (IF live THEN "running" ELSE target)
            /\ sink'.restore = "ok"
         \/ target' = target /\ sink'.restore = "error"
  BY <1>2 DEF SinkRecord
<1> QED
  BY <1>1, <1>3, SinkWorks

-----------------------------------------------------------------------------
(* The client and the network                                                *)

\* The client asks the source for the migration.
LEMMA CopyContainerInv ==
    ASSUME MigrationInv, CopyContainer
    PROVE  MigrationInv'
<1> USE Typed
<1>0. Types /\ BoundsInv /\ SinkInv /\ SourceInv /\ HeaderInv /\ AnswerInv /\ CountInv
  BY DEF MigrationInv
<1>1. /\ client = "asking" /\ client' = "copying" /\ sink = NoSink
      /\ UNCHANGED <<live, move, srcType, sinkType, snaps, ct, sink, target, links, toSink, toSource, faults, crashed,
                     replaced, changed>>
  BY <1>0 DEF CopyContainer, BoundsInv, setup
<1>2. /\ sink.n = 0 /\ sink.op = "none" /\ sink.at = "none" /\ sink.expect = 0 /\ sink.got = <<>>
      /\ sink.transfer = "none" /\ sink.restore = "none" /\ ~Served /\ ~Served'
  BY <1>1 DEF NoSink, Served
<1>3. \A n \in Attempts : toSink[n] = <<>> /\ toSource[n] = <<>> /\ Len(<<>>) = 0
  BY <1>0, <1>2 DEF BoundsInv, Attempts
<1>4. /\ src' \in SourceRecord /\ src'.at = "waiting" /\ src'.op = "running" /\ src'.using = 0
      /\ src'.listed = 0 /\ src'.i = 0 /\ src'.temp = {} /\ \A k \in Socks : src'.conn[k] = 0
  <2> DEFINE c == [k \in {"control", "fs", "criu"} |-> 0]
  <2>1. c \in [Socks -> 0 .. MaxAttempts] /\ \A k \in Socks : c[k] = 0
    BY MigrationAssumption DEF MigrationAssumption, Socks
  <2>2. srcType \in Answers
    BY <1>0 DEF Types, Answers, Fs
  <2>3. src' = [at |-> "waiting", op |-> "running", conn |-> c, using |-> 0, fs |-> srcType, listed |-> 0, i |-> 0,
                temp |-> {}]
    BY DEF CopyContainer, NewMigrationSource
  <2> HIDE DEF c
  <2> QED
    BY <2>1, <2>2, <2>3, MigrationAssumption DEF SourceRecord, MigrationAssumption
<1>5. Types'
  BY <1>0, <1>1, <1>4 DEF Types
<1>6. BoundsInv'
  BY <1>0, <1>1, <1>2, <1>4 DEF BoundsInv
<1>7. SinkInv'
  BY <1>0, <1>1, <1>2 DEF SinkInv, Sockets
<1>8. SourceInv'
  BY <1>0, <1>1, <1>2, <1>4 DEF SourceInv, Silent, Sending
<1>9. HeaderInv'
  BY <1>0, <1>1, <1>2, <1>3, <1>4 DEF HeaderInv
<1>10. AnswerInv'
  BY <1>0, <1>1, <1>2, <1>3 DEF AnswerInv
<1>11. CountInv'
  BY <1>0, <1>1, <1>2, <1>4 DEF CountInv
<1> QED
  BY <1>5, <1>6, <1>7, <1>8, <1>9, <1>10, <1>11 DEF MigrationInv

\* The client tries the next address: the attempt before it has said all it will.
LEMMA AttemptInv ==
    ASSUME MigrationInv, Attempt
    PROVE  MigrationInv'
<1> USE Typed
<1>0. Types /\ BoundsInv /\ SinkInv /\ SourceInv /\ HeaderInv /\ AnswerInv /\ CountInv
  BY DEF MigrationInv
<1> DEFINE next == sink.n + 1
<1>1. /\ client = "copying" /\ sink.op # "running" /\ sink.op # "success" /\ sink.n < MaxAttempts
      /\ target = "absent" /\ target' = "created"
      /\ sink' = [n |-> next, dialled |-> 0, at |-> "connect", op |-> "running", fs |-> "rsync", expect |-> 0,
                  got |-> <<>>, temp |-> {}, transfer |-> "none", restore |-> "none"]
      /\ UNCHANGED <<live, move, srcType, sinkType, snaps, ct, src, links, toSink, toSource, client, faults, crashed,
                     replaced, changed>>
  BY DEF Attempt, createFromMigration, NoSink, setup
<1>2. next \in Attempts /\ next \in 0 .. MaxAttempts /\ next \in Nat /\ next > sink.n /\ next # 0
  BY <1>1 DEF Attempts
<1>3. toSink[next] = <<>> /\ toSource[next] = <<>> /\ Len(<<>>) = 0
  BY <1>0, <1>2 DEF BoundsInv
<1>4. \A m \in Nat : (m > next => m > sink.n) /\ (m <= sink.n => m <= next)
  OBVIOUS
<1> HIDE DEF next
<1>5. /\ sink' \in SinkRecord /\ sink'.n = next /\ sink'.dialled = 0 /\ sink'.at = "connect" /\ sink'.op = "running"
      /\ sink'.expect = 0 /\ sink'.got = <<>> /\ sink'.temp = {} /\ sink'.transfer = "none" /\ sink'.restore = "none"
  BY <1>1, <1>2 DEF SinkRecord, Fs
<1>6. ~Served' /\ ~Pending' /\ Len(Sockets') > 0
  BY <1>1, <1>3, <1>5 DEF Served, Pending, Sockets
<1>7. Types'
  BY <1>0, <1>1, <1>5 DEF Types
<1>8. BoundsInv'
  <2>1. ct # "gone" /\ src.op # "success"
    BY <1>0, <1>1 DEF BoundsInv
  <2> QED
    BY <1>0, <1>1, <1>4, <1>5, <2>1 DEF BoundsInv
<1>9. SinkInv'
  BY <1>1, <1>2, <1>3, <1>5, <1>6 DEF SinkInv
<1>10. SourceInv'
  BY <1>0, <1>1, <1>5 DEF SourceInv
<1>11. HeaderInv'
  BY <1>0, <1>1, <1>5, <1>6 DEF HeaderInv
<1>12. AnswerInv'
  <2>1. ASSUME NEW n \in Attempts, NEW j \in 1 .. Len(toSource[n])
        PROVE  n # next /\ toSource[n][j] # "ok" /\ (j > 1 => toSource[n][j] \in {"ok", "error"})
    <3>1. n # next
      BY <1>3
    <3>2. /\ n # sink.n => toSource[n][j] # "ok"
          /\ n = sink.n => Says(toSource[n][j])
          /\ j > 1 => toSource[n][j] \in {"ok", "error"}
      BY <1>0 DEF AnswerInv
    <3> QED
      BY <1>1, <3>1, <3>2 DEF Says
  <2> QED
    BY <1>1, <1>3, <1>5, <2>1 DEF AnswerInv
<1>13. CountInv'
  BY <1>0, <1>1, <1>5 DEF CountInv
<1> QED
  BY <1>7, <1>8, <1>9, <1>10, <1>11, <1>12, <1>13 DEF MigrationInv

\* The client ends or deletes the source's container, or its snapshots change.
LEMMA ClientStepInv ==
    ASSUME MigrationInv, Finish \/ DeleteSource \/ ChangeSnapshots
    PROVE  MigrationInv'
<1> USE Typed
<1>0. Types /\ BoundsInv /\ SinkInv /\ SourceInv /\ HeaderInv /\ AnswerInv /\ CountInv
  BY DEF MigrationInv
<1>1. /\ UNCHANGED <<live, move, srcType, sinkType, src, sink, target, links, toSink, toSource, crashed, replaced>>
      /\ client' \in {"asking", "copying", "deleting", "done", "failed"} /\ (client' = "asking" => client = "asking")
      /\ ct' \in {ct, "gone"}
      /\ client' = "deleting" \/ ct' = "gone" => sink.op = "success"
      /\ snaps' \in Nat /\ faults' \in Nat /\ changed' \in BOOLEAN /\ (~changed' => ~changed)
      /\ ~changed' /\ src.at \in {"header", "negotiate"} => snaps' = snaps
  <2>1. CASE Finish
    BY <1>0, <2>1 DEF Finish, Types, BoundsInv, setup
  <2>2. CASE DeleteSource
    BY <1>0, <2>2 DEF DeleteSource, Types, BoundsInv, setup
  <2>3. CASE ChangeSnapshots
    <3>1. /\ changed \in BOOLEAN /\ (src.at \in {"header", "negotiate"}) \in BOOLEAN
          /\ changed' = (changed \/ src.at \in {"header", "negotiate"})
      BY <1>0, <2>3 DEF ChangeSnapshots, Types
    <3>2. changed' \in BOOLEAN /\ (~changed' => ~changed /\ src.at \notin {"header", "negotiate"})
      BY <3>1, Zenon
    <3>3. /\ UNCHANGED <<live, move, srcType, sinkType, ct, src, sink, target, links, toSink, toSource, client, crashed,
                         replaced>>
          /\ snaps' \in Nat /\ faults' \in Nat
      BY <1>0, <2>3 DEF ChangeSnapshots, Types, Fault, setup
    <3> QED
      BY <1>0, <3>2, <3>3 DEF Types, BoundsInv
  <2> QED
    BY <2>1, <2>2, <2>3
<1>2. (Served' <=> Served) /\ (Pending' <=> Pending)
  BY <1>1 DEF Served, Pending
<1>3. Types'
  BY <1>0, <1>1 DEF Types
<1>4. BoundsInv'
  BY <1>0, <1>1 DEF BoundsInv
<1>5. SinkInv'
  BY <1>0, <1>1, <1>2 DEF SinkInv, Sockets
<1>6. SourceInv'
  BY <1>0, <1>1 DEF SourceInv
<1>7. HeaderInv'
  BY <1>0, <1>1, <1>2 DEF HeaderInv
<1>8. AnswerInv'
  <2>1. ASSUME NEW e, Says(e) PROVE Says(e)'
    BY <1>1, <1>2, <2>1 DEF Says
  <2> QED
    BY <1>0, <1>1, <1>2 DEF AnswerInv, Says
<1>9. CountInv'
  BY <1>0, <1>1 DEF CountInv
<1> QED
  BY <1>3, <1>4, <1>5, <1>6, <1>7, <1>8, <1>9 DEF MigrationInv

\* The network loses a connection.
LEMMA CutInv ==
    ASSUME MigrationInv, Cut
    PROVE  MigrationInv'
<1> USE Typed
<1>0. Types /\ BoundsInv /\ SinkInv /\ SourceInv /\ HeaderInv /\ AnswerInv /\ CountInv
  BY DEF MigrationInv
<1>1. PICK l \in links :
        /\ Fault
        /\ links' = links \ {l}
        /\ toSink' = IF l[1] = "control" THEN [toSink EXCEPT ![l[2]] = <<>>] ELSE toSink
        /\ toSource' = IF l[1] = "control" THEN [toSource EXCEPT ![l[2]] = <<>>] ELSE toSource
        /\ UNCHANGED <<setup, snaps, ct, src, sink, target, client, crashed, replaced, changed>>
  BY DEF Cut
<1>2. /\ faults' \in Nat /\ links' \subseteq links
      /\ UNCHANGED <<live, move, srcType, sinkType, snaps, ct, src, sink, target, client, crashed, replaced, changed>>
  BY <1>0, <1>1 DEF Fault, Types, setup
<1>3. /\ toSink' \in [Attempts -> Seq(Messages)] /\ toSource' \in [Attempts -> Seq(Answers)]
      /\ \A n \in Attempts : /\ toSink'[n] = toSink[n] \/ toSink'[n] = <<>>
                             /\ toSource'[n] = toSource[n] \/ toSource'[n] = <<>>
      /\ Len(<<>>) = 0
  <2>1. l[2] \in Attempts
    BY <1>0 DEF Types
  <2>2. <<>> \in Seq(Messages) /\ <<>> \in Seq(Answers) /\ Len(<<>>) = 0
    OBVIOUS
  <2> QED
    BY <1>0, <1>1, <2>1, <2>2 DEF Types
<1>4. (Served' <=> Served) /\ (sink.n # 0 /\ Pending' => Pending)
  BY <1>2, <1>3 DEF Served, Pending
<1>5. Types'
  BY <1>0, <1>2, <1>3 DEF Types
<1>6. BoundsInv'
  BY <1>0, <1>2, <1>3 DEF BoundsInv
<1>7. SinkInv'
  BY <1>0, <1>2, <1>4 DEF SinkInv, Sockets
<1>8. SourceInv'
  BY <1>0, <1>2 DEF SourceInv
<1>9. HeaderInv'
  <2>1. src.at \in Silent => ~Served /\ \A n \in Attempts : toSink'[n] = <<>>
    BY <1>0, <1>3 DEF HeaderInv
  <2>2. ASSUME NEW n \in Attempts, NEW j \in 1 .. Len(toSink'[n]), toSink'[n][j].kind = "header"
        PROVE  j = 1 /\ (~changed => toSink'[n][j].snaps = src.listed)
    <3>1. toSink'[n] = toSink[n]
      BY <1>3
    <3> QED
      BY <1>0, <2>2, <3>1 DEF HeaderInv
  <2> QED
    BY <1>0, <1>2, <1>4, <2>1, <2>2 DEF HeaderInv
<1>10. AnswerInv'
  <2>1. ASSUME NEW n \in Attempts, NEW j \in 1 .. Len(toSource'[n])
        PROVE  /\ n # sink.n => toSource'[n][j] # "ok"
               /\ n = sink.n => Says(toSource[n][j])'
               /\ j > 1 => toSource'[n][j] \in {"ok", "error"}
    <3>1. toSource'[n] = toSource[n]
      BY <1>3
    <3>2. /\ n # sink.n => toSource[n][j] # "ok"
          /\ n = sink.n => Says(toSource[n][j])
          /\ j > 1 => toSource[n][j] \in {"ok", "error"}
      BY <1>0, <3>1 DEF AnswerInv
    <3> QED
      BY <1>2, <1>4, <3>1, <3>2 DEF Says
  <2>2. sink.at \in {"connect", "recv", "reply"} => sink.n \in Attempts /\ toSource[sink.n] = <<>>
    BY <1>0 DEF AnswerInv, SinkInv
  <2> QED
    BY <1>2, <1>3, <2>1, <2>2 DEF AnswerInv
<1>11. CountInv'
  BY <1>0, <1>2 DEF CountInv
<1> QED
  BY <1>5, <1>6, <1>7, <1>8, <1>9, <1>10, <1>11 DEF MigrationInv

-----------------------------------------------------------------------------
(* The invariant                                                             *)

\* It holds before the client has asked.
LEMMA MigrationInit ==
    ASSUME Init
    PROVE  MigrationInv
<1> USE MigrationAssumption DEF MigrationAssumption
<1>1. /\ live \in BOOLEAN /\ move \in BOOLEAN /\ srcType \in Drivers /\ sinkType \in Drivers /\ snaps = 1
      /\ ct = (IF live THEN "running" ELSE "stopped") /\ target = "absent" /\ links = {}
      /\ toSink = [n \in Attempts |-> <<>>] /\ toSource = [n \in Attempts |-> <<>>]
      /\ client = "asking" /\ faults = 0 /\ crashed = FALSE /\ replaced = FALSE /\ changed = FALSE
      /\ sink = NoSink
  BY DEF Init
<1>2. /\ sink \in SinkRecord
      /\ sink.n = 0 /\ sink.op = "none" /\ sink.at = "none" /\ sink.expect = 0 /\ sink.got = <<>> /\ sink.temp = {}
      /\ sink.transfer = "none" /\ sink.restore = "none" /\ ~Served
  BY <1>1 DEF NoSink, SinkRecord, Served, Fs
<1>3. /\ src \in SourceRecord /\ src.at = "waiting" /\ src.op = "none" /\ src.using = 0
      /\ src.listed = 0 /\ src.i = 0 /\ src.temp = {} /\ \A k \in Socks : src.conn[k] = 0
  <2> DEFINE c == [k \in {"control", "fs", "criu"} |-> 0]
  <2>1. c \in [Socks -> 0 .. MaxAttempts] /\ \A k \in Socks : c[k] = 0
    BY DEF Socks
  <2>2. srcType \in Answers
    BY <1>1 DEF Answers, Fs
  <2>3. src = [at |-> "waiting", op |-> "none", conn |-> c, using |-> 0, fs |-> srcType, listed |-> 0, i |-> 0,
               temp |-> {}]
    BY DEF Init, NewMigrationSource
  <2> HIDE DEF c
  <2> QED
    BY <2>1, <2>2, <2>3 DEF SourceRecord
<1>4. /\ toSink \in [Attempts -> Seq(Messages)] /\ toSource \in [Attempts -> Seq(Answers)]
      /\ \A n \in Attempts : toSink[n] = <<>> /\ toSource[n] = <<>>
      /\ Len(<<>>) = 0
  <2>1. <<>> \in Seq(Messages) /\ <<>> \in Seq(Answers) /\ Len(<<>>) = 0
    OBVIOUS
  <2> QED
    BY <1>1, <2>1
<1>5. Types
  BY <1>1, <1>2, <1>3, <1>4 DEF Types
<1>6. BoundsInv
  BY <1>1, <1>2, <1>3, <1>4 DEF BoundsInv
<1>7. SinkInv
  BY <1>1, <1>2, <1>4 DEF SinkInv
<1>8. SourceInv
  BY <1>1, <1>2, <1>3 DEF SourceInv, Sending
<1>9. HeaderInv
  BY <1>2, <1>3, <1>4 DEF HeaderInv
<1>10. AnswerInv
  BY <1>2, <1>4 DEF AnswerInv
<1>11. CountInv
  BY <1>2, <1>3 DEF CountInv
<1> QED
  BY <1>5, <1>6, <1>7, <1>8, <1>9, <1>10, <1>11 DEF MigrationInv

\* Every step preserves it.
LEMMA MigrationNext ==
    ASSUME MigrationInv, [Next]_vars
    PROVE  MigrationInv'
<1>1. CASE SourceStep
  BY <1>1, SourceStartsInv, CollectInv, SourceSendsHeaderInv, SourceNegotiatesInv, DumpInv, AcknowledgedInv
  DEF SourceStep
<1>2. CASE SinkStep
  BY <1>2, SinkConnectsInv, SinkReceivesHeaderInv, SinkRepliesInv, RestoreInv, SinkReportsSuccessInv,
     SinkReportsFailureInv DEF SinkStep
<1>3. CASE Both \/ Broken
  BY <1>3, TransferInv, SendCriuInv, SendFailsInv, TransferFailsInv, CriuFailsInv DEF Both, Broken
<1>4. CASE ClientStep \/ ChangeSnapshots
  BY <1>4, CopyContainerInv, AttemptInv, ClientStepInv DEF ClientStep
<1>5. CASE Cut \/ SourceCrashes \/ SinkCrashes
  BY <1>5, CutInv, SourceCrashesInv, SinkCrashesInv
<1>6. CASE UNCHANGED vars
  <2> USE <1>6 DEF vars
  <2>1. Served' <=> Served
    BY DEF Served
  <2>2. Pending' <=> Pending
    BY DEF Pending
  <2>3. Types' /\ BoundsInv' /\ SourceInv' /\ CountInv'
    BY DEF MigrationInv, Types, BoundsInv, SourceInv, CountInv
  <2>4. SinkInv'
    BY <2>1 DEF MigrationInv, SinkInv, Sockets
  <2>5. HeaderInv'
    BY <2>1, <2>2 DEF MigrationInv, HeaderInv
  <2>6. AnswerInv'
    BY <2>1 DEF MigrationInv, AnswerInv, Says
  <2> QED
    BY <2>3, <2>4, <2>5, <2>6 DEF MigrationInv
<1> QED
  BY <1>1, <1>2, <1>3, <1>4, <1>5, <1>6 DEF Next

\* The inductive invariant: one header is sent, the attempt that receives it is
\* the one the source talks to from then on, and both count the parts alike.
THEOREM MigrationInvariant == Spec => []MigrationInv
<1>1. Init => MigrationInv
  BY MigrationInit
<1>2. MigrationInv /\ [Next]_vars => MigrationInv'
  BY MigrationNext
<1> QED
  BY <1>1, <1>2, PTL DEF Spec

\* Both ends use one driver for a transfer, receive no more than is expected, and
\* leave no temporary snapshot behind, for any number of attempts and failures.
THEOREM EndsInStep == Spec => []InStep
<1>1. MigrationInv => InStep
  <2> SUFFICES ASSUME MigrationInv PROVE InStep
    OBVIOUS
  <2> USE Typed
  <2>0. Types /\ SinkInv /\ SourceInv /\ HeaderInv
    BY DEF MigrationInv
  <2>1. TypeOK
    BY <2>0 DEF TypeOK, Types, SinkInv, SourceInv, SourceRecord, Socks
  <2>2. DriversAgree
    <3> SUFFICES ASSUME src.at \in {"send", "final"}, sink.at = "select" PROVE src.fs = sink.fs
      BY DEF DriversAgree
    <3>1. Served /\ src.at \in Sending
      BY <2>0 DEF SinkInv, Sending
    <3> QED
      BY <2>0, <3>1 DEF HeaderInv
  <2>3. TempRemoved
    BY <2>0 DEF TempRemoved, SinkInv, SourceInv
  <2> QED
    BY <2>1, <2>2, <2>3 DEF InStep
<1> QED
  BY <1>1, MigrationInvariant, PTL

\* The container never runs on both servers unless the source's daemon was
\* restarted, is deleted at the source only when the target has all of it at
\* rest, and the source's success means that: for any number of attempts,
\* failures and cut connections.
THEOREM OneContainerOnly == Spec => []OneContainer
<1>1. MigrationInv => OneContainer
  <2> SUFFICES ASSUME MigrationInv PROVE OneContainer
    OBVIOUS
  <2> USE Typed
  <2>0. Types /\ BoundsInv /\ SinkInv /\ SourceInv /\ CountInv
    BY DEF MigrationInv
  <2>1. NoSplitBrain
    BY <2>0 DEF NoSplitBrain, SinkInv, SourceInv, Types
  <2>2. sink.op = "success" /\ ~changed => Whole /\ (live => target = "running")
    BY <2>0 DEF SinkInv, CountInv, Whole
  <2>3. NothingLost /\ AckMeansDone
    BY <2>0, <2>2 DEF NothingLost, AckMeansDone, BoundsInv
  <2> QED
    BY <2>1, <2>3 DEF OneContainer
<1> QED
  BY <1>1, MigrationInvariant, PTL
=============================================================================
