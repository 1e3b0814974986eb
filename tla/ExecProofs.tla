---------------------------- MODULE ExecProofs -----------------------------
(***************************************************************************)
(* Proofs about exec and about the client's Wait, for any number of        *)
(* operations, connections that fail, refused requests and any amount of   *)
(* output.                                                                 *)
(***************************************************************************)
EXTENDS Exec, TLAPS

OpRecord ==
    [pc : {"start", "add", "refresh", "leave", "wait", "returned"},
     lock : {"free", "setup", "handler"}, saw : BOOLEAN,
     status : Statuses, err : {"none", "failure", "lost", "refused"},
     listener : BOOLEAN, ready : BOOLEAN, closed : 0 .. 2,
     monitor : {"none", "armed", "watch", "over"},
     result : {"none", "ok", "error"}]
LisRecord == [targets : BOOLEAN, down : BOOLEAN, err : BOOLEAN, closed : 0 .. 2]
ConnRecord == [state : {"none", "open", "broken"}, served : BOOLEAN]
ListRecord == [nil : BOOLEAN, of : SUBSET Ops]

\* What Wait has learnt of an operation that is over is what became of it.
Outcome(o) == server[o] \in Final /\ op[o].err = ErrorOf(server[o])

\* A listener is in the client's list as long as neither Wait has given it up nor
\* the connection has failed; one that failed under Wait has its error noted.
ListenerInv(o) ==
    /\ lis[o].closed = 0 <=> ~lis[o].down
    /\ o \in list.of <=> op[o].listener /\ ~lis[o].down
    /\ op[o].listener /\ lis[o].down => lis[o].err
    /\ lis[o].err => lis[o].down

\* setupListener holds handlerLock until Wait sleeps or returns.
SetupInv(o) ==
    /\ op[o].pc = "start" => op[o].lock = "free" /\ ~op[o].listener /\ ~lis[o].down
    /\ op[o].pc \in {"add", "refresh", "leave"} => op[o].lock = "setup" /\ op[o].listener
    /\ op[o].pc \in {"start", "add", "refresh", "leave"} => ~op[o].ready /\ op[o].closed = 0
    /\ op[o].pc \in {"start", "add"} => op[o].monitor = "none"
    /\ op[o].pc \in {"refresh", "leave"} => op[o].monitor = "armed"
    /\ op[o].pc \in {"refresh", "leave", "wait"} => lis[o].targets
    /\ op[o].pc = "leave" => op[o].err = "refused" \/ Outcome(o)
    /\ op[o].pc = "leave" /\ op[o].saw => lis[o].down

\* The handler of the final event finds a Wait that sleeps, or the connection has
\* failed before it looked.
HandlerInv(o) ==
    op[o].lock = "handler" =>
        /\ op[o].pc \in {"wait", "returned"} /\ op[o].listener /\ Outcome(o)
        /\ IF op[o].saw THEN lis[o].down ELSE op[o].pc = "wait" /\ op[o].closed = 0

\* A Wait that sleeps, and one that has returned.
WaitInv(o) ==
    /\ op[o].pc = "wait" =>
           /\ op[o].ready /\ op[o].lock # "setup"
           /\ op[o].monitor \in {"armed", "watch"} \/ op[o].closed > 0
           /\ ~op[o].listener => op[o].closed > 0 /\ Outcome(o)
           /\ op[o].listener /\ op[o].closed > 0 => lis[o].err
    /\ op[o].pc = "returned" =>
           /\ op[o].lock # "setup"
           /\ op[o].listener => lis[o].err
           /\ ~lis[o].err =>
                  \/ op[o].result = "ok" /\ server[o] = "Success"
                  \/ op[o].result = "error" /\ (server[o] = "Failure" \/ op[o].err = "refused")

OpInv(o) == ListenerInv(o) /\ SetupInv(o) /\ HandlerInv(o) /\ WaitInv(o)

\* An event announces what became of its operation.
MessageInv == \A m \in wire \cup handlers : m[2] \in Final => server[m[1]] = m[2]

\* The goroutine of GetEvents has a list and a connection.
ReaderInv ==
    /\ list.nil => reader = "none" /\ list.of = {}
    /\ conn.state = "none" => reader = "none"
    /\ conn.state = "open" => reader # "none"

\* What ClientHasWaker says, even of a client about to panic.
Waker(o) ==
    (op[o].pc = "wait" /\ server[o] \in Final) =>
        \/ o \in missed \/ Stranded(o)
        \/ <<o, server[o]>> \in wire \cup handlers
        \/ op[o].closed > 0 \/ op[o].lock = "handler"
        \/ lis[o].closed > 0 /\ op[o].monitor \in {"armed", "watch"}
        \/ conn.state = "broken" /\ reader # "none"

ClientInv ==
    /\ ClientTypeOK /\ MessageInv /\ ReaderInv
    /\ \A o \in Ops : OpInv(o) /\ Waker(o)

---------------------------------------------------------------------------
(* Wait and the events                                                      *)

\* What the lemmas use of the types.
LEMMA ClientTypes ==
    ASSUME ClientInv
    PROVE  /\ op \in [Ops -> OpRecord] /\ lis \in [Ops -> LisRecord]
           /\ conn \in ConnRecord /\ list \in ListRecord
           /\ server \in [Ops -> Statuses] /\ reader \in {"none", "check", "read"}
           /\ wire \subseteq Ops \X Statuses /\ handlers \subseteq Ops \X Statuses
           /\ faults \in 0 .. MaxFaults
BY DEF ClientInv, ClientTypeOK, OpRecord, LisRecord, ConnRecord, ListRecord

\* A channel is closed once more only by a client that has not panicked.
LEMMA OnceMore ==
    ASSUME ClientInv, ~ClientPanics, NEW o \in Ops
    PROVE  lis[o].closed \in 0 .. 1 /\ op[o].closed \in 0 .. 1
BY ClientTypes DEF ClientPanics, OpRecord, LisRecord

\* A step of Wait, of a handler or of the monitor of o, which finds the reader and
\* the connection as they are: the other operations do not notice.
LEMMA OneMoves ==
    ASSUME ClientInv, NEW o \in Ops,
           UNCHANGED <<server, told, missed, conn, reader, wire>>,
           op' \in [Ops -> OpRecord], lis' \in [Ops -> LisRecord], list' \in ListRecord,
           \A x \in Ops : x # o => /\ op'[x] = op[x] /\ lis'[x] = lis[x]
                                   /\ x \in list'.of <=> x \in list.of,
           list'.nil => list.nil /\ list'.of = {},
           handlers' \subseteq handlers, \A m \in handlers : m[1] # o => m \in handlers',
           faults' \in 0 .. MaxFaults,
           OpInv(o)', Waker(o)'
    PROVE  ClientInv'
<1> USE ClientTypes
<1>1. ClientTypeOK'
  BY DEF ClientInv, ClientTypeOK, OpRecord, LisRecord, ConnRecord, ListRecord
<1>2. MessageInv'
  BY DEF ClientInv, MessageInv
<1>3. ReaderInv'
  BY DEF ClientInv, ReaderInv
<1>4. ASSUME NEW x \in Ops PROVE OpInv(x)'
  <2>1. CASE x = o
    BY <2>1
  <2>2. CASE x # o
    <3>1. OpInv(x)
      BY DEF ClientInv
    <3> QED
      BY <2>2, <3>1 DEF OpInv, ListenerInv, SetupInv, HandlerInv, WaitInv, Outcome
  <2> QED
    BY <2>1, <2>2
<1>5. ASSUME NEW x \in Ops PROVE Waker(x)'
  <2>1. CASE x = o
    BY <2>1
  <2>2. CASE x # o
    <3>1. Waker(x)
      BY DEF ClientInv
    <3>2. \A st \in Statuses : <<x, st>> \in handlers => <<x, st>> \in handlers'
      BY <2>2
    <3>3. server[x] \in Statuses
      OBVIOUS
    <3> QED
      BY <2>2, <3>1, <3>2, <3>3 DEF Waker, Stranded
  <2> QED
    BY <2>1, <2>2
<1> QED
  BY <1>1, <1>2, <1>3, <1>4, <1>5 DEF ClientInv

\* GetEvents: a listener is added to the list, to a new one with a new connection,
\* or the connection is refused.
LEMMA GetEventsInv ==
    ASSUME ClientInv, NEW o \in Ops, GetEvents(o)
    PROVE  ClientInv'
<1> USE ClientTypes
<1>1. /\ op[o].pc = "start" /\ op[o].lock = "free"
      /\ UNCHANGED <<server, told, wire, lis, handlers, missed>>
  BY DEF GetEvents
<1>2. OpInv(o)
  BY DEF ClientInv
<1>3. /\ ~op[o].listener /\ ~lis[o].down /\ ~op[o].ready /\ op[o].closed = 0 /\ op[o].monitor = "none"
      /\ lis[o].closed = 0 /\ ~lis[o].err /\ o \notin list.of
  BY <1>1, <1>2 DEF OpInv, SetupInv, ListenerInv, LisRecord
<1>4. CASE op' = [op EXCEPT ![o].pc = "add", ![o].lock = "setup", ![o].listener = TRUE]
  <2> DEFINE r == [op[o] EXCEPT !.pc = "add", !.lock = "setup", !.listener = TRUE]
  <2>0. /\ r \in OpRecord /\ op' = [op EXCEPT ![o] = r]
        /\ r.pc = "add" /\ r.lock = "setup" /\ r.listener
        /\ r.ready = op[o].ready /\ r.closed = op[o].closed /\ r.monitor = op[o].monitor
    <3>1. op[o] \in OpRecord
      OBVIOUS
    <3>2. op' = [op EXCEPT ![o] = r]
      BY <1>4
    <3> QED
      BY <3>1, <3>2 DEF OpRecord
  <2> HIDE DEF r
  <2>1. /\ op' \in [Ops -> OpRecord] /\ \A x \in Ops : x # o => op'[x] = op[x]
        /\ op'[o].pc = "add" /\ op'[o].lock = "setup" /\ op'[o].listener
        /\ op'[o].ready = op[o].ready /\ op'[o].closed = op[o].closed /\ op'[o].monitor = op[o].monitor
    BY <2>0
  <2>2. ASSUME o \in list'.of PROVE OpInv(o)' /\ Waker(o)'
    <3>1. ListenerInv(o)'
      BY <1>1, <1>3, <2>1, <2>2 DEF ListenerInv
    <3>2. SetupInv(o)' /\ HandlerInv(o)' /\ WaitInv(o)' /\ Waker(o)'
      BY <1>1, <1>3, <2>1 DEF SetupInv, HandlerInv, WaitInv, Waker
    <3> QED
      BY <3>1, <3>2 DEF OpInv
  <2>3. CASE ~list.nil /\ list' = [list EXCEPT !.of = @ \cup {o}] /\ UNCHANGED <<conn, reader, faults>>
    <3>1. list' \in ListRecord /\ list'.of = list.of \cup {o} /\ ~list'.nil
      BY <2>3 DEF ListRecord
    <3> QED
      BY <1>1, <2>1, <2>2, <2>3, <3>1, OneMoves
  <2>4. CASE /\ list.nil /\ conn.state = "none" /\ list' = [nil |-> FALSE, of |-> {o}]
             /\ conn' = [state |-> "open", served |-> FALSE] /\ reader' = "check" /\ UNCHANGED faults
    <3>1. list.of = {} /\ reader = "none" /\ list' \in ListRecord /\ conn' \in ConnRecord
      BY <2>4 DEF ClientInv, ReaderInv, ListRecord, ConnRecord
    <3>2. OpInv(o)' /\ Waker(o)'
      BY <2>2, <2>4
    <3>3. ClientTypeOK'
      BY <1>1, <2>1, <2>4, <3>1 DEF ClientInv, ClientTypeOK, OpRecord, ConnRecord, ListRecord
    <3>4. MessageInv' /\ ReaderInv'
      BY <1>1, <2>4 DEF ClientInv, MessageInv, ReaderInv
    <3>5. ASSUME NEW x \in Ops, x # o PROVE OpInv(x)' /\ Waker(x)'
      <4>1. OpInv(x) /\ Waker(x) /\ x \notin list.of /\ x \notin list'.of
        BY <2>4, <3>1, <3>5 DEF ClientInv
      <4>2. OpInv(x)'
        BY <1>1, <2>1, <3>5, <4>1 DEF OpInv, ListenerInv, SetupInv, HandlerInv, WaitInv, Outcome
      <4>3. Waker(x)'
        BY <1>1, <2>1, <2>4, <3>5, <4>1 DEF Waker, Stranded
      <4> QED
        BY <4>2, <4>3
    <3> QED
      BY <3>2, <3>3, <3>4, <3>5 DEF ClientInv
  <2>5. op' # [op EXCEPT ![o].pc = "returned", ![o].result = "error", ![o].err = "refused"]
    <3>1. [op EXCEPT ![o].pc = "returned", ![o].result = "error", ![o].err = "refused"][o].pc = "returned"
      BY DEF OpRecord
    <3> QED
      BY <2>1, <3>1
  <2> QED
    BY <2>3, <2>4, <2>5 DEF GetEvents
<1>5. CASE /\ list.nil /\ Fault /\ list' = [nil |-> FALSE, of |-> {}]
           /\ op' = [op EXCEPT ![o].pc = "returned", ![o].result = "error", ![o].err = "refused"]
           /\ UNCHANGED <<conn, reader>>
  <2> DEFINE r == [op[o] EXCEPT !.pc = "returned", !.result = "error", !.err = "refused"]
  <2>0. /\ r \in OpRecord /\ op' = [op EXCEPT ![o] = r]
        /\ r.pc = "returned" /\ r.result = "error" /\ r.err = "refused"
        /\ r.lock = op[o].lock /\ r.listener = op[o].listener
    <3>1. op[o] \in OpRecord
      OBVIOUS
    <3>2. op' = [op EXCEPT ![o] = r]
      BY <1>5
    <3> QED
      BY <3>1, <3>2 DEF OpRecord
  <2> HIDE DEF r
  <2>1. /\ op' \in [Ops -> OpRecord] /\ \A x \in Ops : x # o => op'[x] = op[x]
        /\ op'[o].pc = "returned" /\ op'[o].result = "error" /\ op'[o].err = "refused"
        /\ op'[o].lock = op[o].lock /\ op'[o].listener = op[o].listener
    BY <2>0
  <2>2. list.of = {} /\ list' \in ListRecord /\ list'.of = {} /\ ~list'.nil
    BY <1>5 DEF ClientInv, ReaderInv, ListRecord
  <2>3. OpInv(o)' /\ Waker(o)'
    BY <1>1, <1>3, <2>1, <2>2 DEF OpInv, ListenerInv, SetupInv, HandlerInv, WaitInv, Waker
  <2>4. faults' \in 0 .. MaxFaults
    BY <1>5, ClientAssumption DEF Fault, ClientAssumption
  <2> QED
    BY <1>1, <1>5, <2>1, <2>2, <2>3, <2>4, OneMoves
<1> QED
  BY <1>4, <1>5 DEF GetEvents

\* The same with the new records named.
LEMMA Becomes ==
    ASSUME ClientInv, NEW o \in Ops, NEW r \in OpRecord, NEW l \in LisRecord,
           op' = [op EXCEPT ![o] = r], lis' = [lis EXCEPT ![o] = l],
           UNCHANGED <<server, told, missed, conn, reader, wire>>, list' \in ListRecord,
           \A x \in Ops : x # o => (x \in list'.of <=> x \in list.of),
           list'.nil => list.nil /\ list'.of = {},
           handlers' \subseteq handlers, \A m \in handlers : m[1] # o => m \in handlers',
           faults' \in 0 .. MaxFaults,
           OpInv(o)', Waker(o)'
    PROVE  ClientInv'
<1> USE ClientTypes
<1>1. /\ op' \in [Ops -> OpRecord] /\ lis' \in [Ops -> LisRecord]
      /\ \A x \in Ops : x # o => op'[x] = op[x] /\ lis'[x] = lis[x]
  OBVIOUS
<1> QED
  BY <1>1, OneMoves

\* A step that leaves the listener of o alone.
LEMMA BecomesOp ==
    ASSUME ClientInv, NEW o \in Ops, NEW r \in OpRecord,
           op' = [op EXCEPT ![o] = r],
           UNCHANGED <<server, told, missed, conn, reader, wire, list, lis>>,
           handlers' \subseteq handlers, \A m \in handlers : m[1] # o => m \in handlers',
           faults' \in 0 .. MaxFaults,
           OpInv(o)', Waker(o)'
    PROVE  ClientInv'
<1> USE ClientTypes
<1>1. op' \in [Ops -> OpRecord] /\ \A x \in Ops : x # o => op'[x] = op[x]
  OBVIOUS
<1>2. list.nil => list.of = {}
  BY DEF ClientInv, ReaderInv
<1> QED
  BY <1>1, <1>2, OneMoves

\* The handler is added, and the monitor started.
LEMMA AddHandlerInv ==
    ASSUME ClientInv, NEW o \in Ops, AddHandler(o)
    PROVE  ClientInv'
<1> USE ClientTypes
<1>1. /\ op[o].pc = "add" /\ UNCHANGED <<server, told, conn, wire, list, reader, handlers, missed, faults>>
  BY DEF AddHandler
<1> DEFINE l == [lis[o] EXCEPT !.targets = TRUE]
<1>l. /\ l \in LisRecord /\ lis' = [lis EXCEPT ![o] = l]
      /\ l.targets /\ l.down = lis[o].down /\ l.err = lis[o].err /\ l.closed = lis[o].closed
  <2>1. lis[o] \in LisRecord
    OBVIOUS
  <2> QED
    BY <2>1 DEF AddHandler, LisRecord
<1> HIDE DEF l
<1> DEFINE r == [op[o] EXCEPT !.pc = "refresh", !.monitor = "armed"]
<1>r. /\ r \in OpRecord /\ op' = [op EXCEPT ![o] = r]
        /\ r.pc = "refresh" /\ r.lock = op[o].lock /\ r.saw = op[o].saw
        /\ r.err = op[o].err /\ r.listener = op[o].listener /\ r.ready = op[o].ready
        /\ r.closed = op[o].closed /\ r.monitor = "armed" /\ r.result = op[o].result
  <2>1. op[o] \in OpRecord
    OBVIOUS
  <2>2. op' = [op EXCEPT ![o] = r]
    BY DEF AddHandler
  <2> QED
    BY <2>1, <2>2 DEF OpRecord
<1> HIDE DEF r
<1>2. op'[o] = r /\ lis'[o] = l
  BY <1>r, <1>l
<1>3. OpInv(o)
  BY DEF ClientInv
<1>4. ListenerInv(o)'
  BY <1>1, <1>r, <1>l, <1>2, <1>3 DEF OpInv, ListenerInv
<1>5. SetupInv(o)' /\ HandlerInv(o)' /\ WaitInv(o)' /\ Waker(o)'
  BY <1>1, <1>r, <1>l, <1>2, <1>3 DEF OpInv, SetupInv, HandlerInv, WaitInv, Waker
<1>6. list.nil => list.of = {}
  BY DEF ClientInv, ReaderInv
<1> QED
  BY <1>1, <1>r, <1>l, <1>4, <1>5, <1>6, Becomes DEF OpInv

\* The refresh finds the operation over, or running, or fails.
LEMMA RefreshInv ==
    ASSUME ClientInv, NEW o \in Ops, Refresh(o)
    PROVE  ClientInv'
<1> USE ClientTypes
<1>1. op[o].pc = "refresh" /\ UNCHANGED <<server, told, conn, wire, list, reader, lis, handlers, missed>>
  BY DEF Refresh
<1>2. OpInv(o) /\ lis[o].down \in BOOLEAN /\ server[o] \in Statuses
  BY DEF ClientInv, LisRecord
<1>3. faults' \in 0 .. MaxFaults
  BY ClientAssumption DEF Refresh, Fault, ClientAssumption
<1>4. ASSUME NEW e \in {"none", "failure", "lost", "refused"}, NEW st \in Statuses,
             op' = [op EXCEPT ![o].pc = "leave", ![o].saw = lis[o].down, ![o].status = st, ![o].err = e],
             e = "refused" \/ (server[o] \in Final /\ e = ErrorOf(server[o]))
      PROVE  ClientInv'
  <2> DEFINE r == [op[o] EXCEPT !.pc = "leave", !.saw = lis[o].down, !.status = st, !.err = e]
  <2>r. /\ r \in OpRecord /\ op' = [op EXCEPT ![o] = r]
        /\ r.pc = "leave" /\ r.lock = op[o].lock /\ r.saw = lis[o].down /\ r.err = e
        /\ r.listener = op[o].listener /\ r.ready = op[o].ready /\ r.closed = op[o].closed
        /\ r.monitor = op[o].monitor /\ r.result = op[o].result
    <3>1. op[o] \in OpRecord
      OBVIOUS
    <3>2. op' = [op EXCEPT ![o] = r]
      BY <1>4
    <3> QED
      BY <1>2, <3>1, <3>2 DEF OpRecord
  <2> HIDE DEF r
  <2>1. op'[o] = r
    BY <2>r
  <2>2. ListenerInv(o)'
    BY <1>1, <1>2, <2>r, <2>1 DEF OpInv, ListenerInv
  <2>3. SetupInv(o)' /\ HandlerInv(o)' /\ WaitInv(o)' /\ Waker(o)'
    BY <1>1, <1>2, <1>4, <2>r, <2>1 DEF OpInv, SetupInv, HandlerInv, WaitInv, Waker, Outcome
  <2> QED
    BY <1>1, <1>3, <2>r, <2>2, <2>3, BecomesOp DEF OpInv
<1>5. CASE server[o] = "Running" /\ op' = [op EXCEPT ![o].pc = "wait", ![o].lock = "free", ![o].ready = TRUE]
  <2> DEFINE r == [op[o] EXCEPT !.pc = "wait", !.lock = "free", !.ready = TRUE]
  <2>r. /\ r \in OpRecord /\ op' = [op EXCEPT ![o] = r]
        /\ r.pc = "wait" /\ r.lock = "free" /\ r.saw = op[o].saw /\ r.err = op[o].err
        /\ r.listener = op[o].listener /\ r.ready /\ r.closed = op[o].closed
        /\ r.monitor = op[o].monitor /\ r.result = op[o].result
    <3>1. op[o] \in OpRecord
      OBVIOUS
    <3>2. op' = [op EXCEPT ![o] = r]
      BY <1>5
    <3> QED
      BY <3>1, <3>2 DEF OpRecord
  <2> HIDE DEF r
  <2>1. op'[o] = r
    BY <2>r
  <2>2. ListenerInv(o)'
    BY <1>1, <1>2, <2>r, <2>1 DEF OpInv, ListenerInv
  <2>3. SetupInv(o)' /\ HandlerInv(o)' /\ WaitInv(o)' /\ Waker(o)'
    BY <1>1, <1>2, <1>5, <2>r, <2>1 DEF OpInv, SetupInv, HandlerInv, WaitInv, Waker, Final
  <2> QED
    BY <1>1, <1>3, <2>r, <2>2, <2>3, BecomesOp DEF OpInv
<1>6. CASE /\ server[o] \in Final
           /\ op' = [op EXCEPT ![o].pc = "leave", ![o].saw = lis[o].down,
                               ![o].status = server[o], ![o].err = ErrorOf(server[o])]
  BY <1>2, <1>4, <1>6 DEF ErrorOf
<1>7. CASE op' = [op EXCEPT ![o].pc = "leave", ![o].saw = lis[o].down, ![o].err = "refused"]
  <2>1. op[o].status \in Statuses /\ op[o] \in OpRecord
    BY DEF OpRecord
  <2>2. [op[o] EXCEPT !.pc = "leave", !.saw = lis[o].down, !.err = "refused"]
          = [op[o] EXCEPT !.pc = "leave", !.saw = lis[o].down, !.status = op[o].status, !.err = "refused"]
    BY <2>1 DEF OpRecord
  <2>3. op' = [op EXCEPT ![o].pc = "leave", ![o].saw = lis[o].down, ![o].status = op[o].status, ![o].err = "refused"]
    BY <1>7, <2>2
  <2> QED
    BY <1>4, <2>1, <2>3
<1> QED
  BY <1>5, <1>6, <1>7 DEF Refresh

\* Wait reads op.Err when chActive is closed.
LEMMA WakeInv ==
    ASSUME ClientInv, NEW o \in Ops, Wake(o)
    PROVE  ClientInv'
<1> USE ClientTypes
<1>1. /\ op[o].pc = "wait" /\ op[o].closed > 0
      /\ UNCHANGED <<server, told, conn, wire, list, reader, lis, handlers, missed, faults>>
  BY DEF Wake
<1> DEFINE res == IF op[o].err = "none" THEN "ok" ELSE "error"
<1> DEFINE r == [op[o] EXCEPT !.pc = "returned", !.result = res]
<1>r. /\ r \in OpRecord /\ op' = [op EXCEPT ![o] = r]
        /\ r.pc = "returned" /\ r.lock = op[o].lock /\ r.saw = op[o].saw
        /\ r.err = op[o].err /\ r.listener = op[o].listener /\ r.ready = op[o].ready
        /\ r.closed = op[o].closed /\ r.monitor = op[o].monitor /\ r.result = res
  <2>1. op[o] \in OpRecord
    OBVIOUS
  <2>2. op' = [op EXCEPT ![o] = r]
    BY DEF Wake
  <2> QED
    BY <2>1, <2>2 DEF OpRecord
<1> HIDE DEF r
<1>2. op'[o] = r
  BY <1>r
<1>3. OpInv(o) /\ server[o] \in Statuses
  BY DEF ClientInv
<1>4. ListenerInv(o)'
  BY <1>1, <1>r, <1>2, <1>3 DEF OpInv, ListenerInv
<1>5. SetupInv(o)' /\ HandlerInv(o)' /\ Waker(o)'
  BY <1>1, <1>r, <1>2, <1>3 DEF OpInv, SetupInv, HandlerInv, WaitInv, ListenerInv, Waker, Outcome
<1>6. WaitInv(o)'
  BY <1>1, <1>r, <1>2, <1>3 DEF OpInv, WaitInv, Outcome, ErrorOf, Final
<1> QED
  BY <1>1, <1>r, <1>4, <1>5, <1>6, BecomesOp DEF OpInv

\* Disconnect takes the listener off the list and closes its channel, unless it was
\* seen down before.
LEMMA Disconnects ==
    ASSUME ClientInv, ~ClientPanics, NEW o \in Ops, Disconnected(o)
    PROVE  /\ lis' \in [Ops -> LisRecord] /\ list' \in ListRecord /\ list'.nil = list.nil
           /\ list'.of \subseteq list.of
           /\ \A x \in Ops : x # o => lis'[x] = lis[x] /\ (x \in list'.of <=> x \in list.of)
           /\ lis'[o].targets = lis[o].targets
           /\ op[o].saw => lis'[o] = lis[o] /\ list' = list
           /\ ~op[o].saw => /\ o \notin list'.of /\ lis'[o].closed > 0
                            /\ lis'[o].down /\ ~lis'[o].err
<1> USE ClientTypes
<1>1. CASE op[o].saw
  <2>1. lis' = lis /\ list' = list
    BY <1>1 DEF Disconnected
  <2> QED
    BY <1>1, <2>1
<1>2. CASE ~op[o].saw
  <2>1. /\ list' = [list EXCEPT !.of = @ \ {o}]
        /\ lis' = [lis EXCEPT ![o].err = FALSE, ![o].down = TRUE, ![o].closed = @ + 1]
    BY <1>2 DEF Disconnected
  <2>2. list' \in ListRecord /\ list'.of = list.of \ {o} /\ list'.nil = list.nil
    BY <2>1 DEF ListRecord
  <2>3. lis[o].closed \in 0 .. 1 /\ lis[o] \in LisRecord
    BY OnceMore
  <2> DEFINE n == lis[o].closed + 1
             l == [lis[o] EXCEPT !.err = FALSE, !.down = TRUE, !.closed = n]
  <2>4. n \in 0 .. 2 /\ n > 0
    BY <2>3
  <2>5. lis' = [lis EXCEPT ![o] = l]
    BY <2>1
  <2> HIDE DEF n
  <2>6. l \in LisRecord /\ l.targets = lis[o].targets /\ l.down /\ ~l.err /\ l.closed > 0
    BY <2>3, <2>4 DEF LisRecord
  <2> HIDE DEF l
  <2>7. lis' \in [Ops -> LisRecord] /\ lis'[o] = l /\ \A x \in Ops : x # o => lis'[x] = lis[x]
    BY <2>5, <2>6
  <2> QED
    BY <1>2, <2>2, <2>6, <2>7
<1> QED
  BY <1>1, <1>2

\* Wait returns without having slept.
LEMMA LeaveInv ==
    ASSUME ClientInv, ~ClientPanics, NEW o \in Ops, Leave(o)
    PROVE  ClientInv'
<1> USE ClientTypes
<1>1. /\ op[o].pc = "leave" /\ Disconnected(o)
      /\ UNCHANGED <<server, told, conn, wire, reader, handlers, missed, faults>>
  BY DEF Leave
<1> DEFINE res == IF op[o].err = "none" THEN "ok" ELSE "error"
           n == op[o].closed + 1
<1>0. n \in 0 .. 2
  BY OnceMore
<1> DEFINE r == [op[o] EXCEPT !.pc = "returned", !.lock = "free", !.ready = TRUE, !.listener = FALSE, !.closed = n, !.result = res]
<1>r. /\ r \in OpRecord /\ op' = [op EXCEPT ![o] = r]
        /\ r.pc = "returned" /\ r.lock = "free" /\ r.saw = op[o].saw
        /\ r.err = op[o].err /\ r.listener = FALSE /\ r.ready = TRUE
        /\ r.closed = n /\ r.monitor = op[o].monitor /\ r.result = res
  <2>1. op[o] \in OpRecord
    OBVIOUS
  <2>2. op' = [op EXCEPT ![o] = r]
    BY DEF Leave
  <2> QED
    BY <2>1, <2>2, <1>0 DEF OpRecord
<1> HIDE DEF r
<1>2. op'[o] = r /\ op' \in [Ops -> OpRecord] /\ \A x \in Ops : x # o => op'[x] = op[x]
  BY <1>r
<1>3. OpInv(o) /\ server[o] \in Statuses
  BY DEF ClientInv
<1>4. ListenerInv(o)'
  BY <1>1, <1>r, <1>2, <1>3, Disconnects DEF OpInv, ListenerInv, SetupInv
<1>5. SetupInv(o)' /\ HandlerInv(o)' /\ Waker(o)'
  BY <1>r, <1>2 DEF SetupInv, HandlerInv, Waker
<1>6. WaitInv(o)'
  <2>1. op[o].err = "refused" \/ Outcome(o)
    BY <1>1, <1>3 DEF OpInv, SetupInv
  <2> QED
    BY <1>1, <1>r, <1>2, <1>3, <2>1 DEF WaitInv, Outcome, ErrorOf, Final
<1>7. list'.nil => list.nil /\ list'.of = {}
  BY <1>1, Disconnects DEF ClientInv, ReaderInv
<1> QED
  BY <1>1, <1>2, <1>4, <1>5, <1>6, <1>7, Disconnects, OneMoves DEF OpInv

\* A handler that finds the listener gone drops its event; one that does not notes
\* the status and goes on if it is final.
LEMMA HandleInv ==
    ASSUME ClientInv, NEW o \in Ops, NEW st \in Statuses, Handle(o, st)
    PROVE  ClientInv'
<1> USE ClientTypes
<1>1. /\ <<o, st>> \in handlers /\ op[o].ready /\ op[o].lock = "free"
      /\ handlers' = handlers \ {<<o, st>>}
      /\ UNCHANGED <<server, told, conn, wire, list, reader, lis, missed, faults>>
  BY DEF Handle
<1>2. OpInv(o) /\ Waker(o) /\ server[o] \in Statuses /\ lis[o].down \in BOOLEAN
  BY DEF ClientInv, LisRecord
<1>3. st \in Final => server[o] = st
  BY <1>1 DEF ClientInv, MessageInv
<1>4. /\ handlers' \subseteq handlers /\ \A m \in handlers : m[1] # o => m \in handlers'
      /\ st # server[o] => (<<o, server[o]>> \in handlers => <<o, server[o]>> \in handlers')
  BY <1>1
<1>5. op[o].pc \in {"wait", "returned"}
  BY <1>1, <1>2 DEF OpInv, SetupInv, OpRecord
<1>6. CASE ~op[o].listener /\ UNCHANGED op
  <2>1. OpInv(o)'
    BY <1>1, <1>2, <1>6 DEF OpInv, ListenerInv, SetupInv, HandlerInv, WaitInv, Outcome
  <2>2. Waker(o)'
    BY <1>2, <1>6 DEF Waker, OpInv, WaitInv
  <2>3. op[o] \in OpRecord /\ op' = [op EXCEPT ![o] = op[o]]
    BY <1>6
  <2> QED
    BY <1>1, <1>4, <2>1, <2>2, <2>3, BecomesOp
<1>7. CASE /\ op[o].listener
           /\ op' = [op EXCEPT ![o].status = st, ![o].err = ErrorOf(st),
                               ![o].lock = IF st \in Final THEN "handler" ELSE "free",
                               ![o].saw = lis[o].down]
  <2> DEFINE e == ErrorOf(st)
             k == IF st \in Final THEN "handler" ELSE "free"
             d == lis[o].down
             r == [op[o] EXCEPT !.status = st, !.err = e, !.lock = k, !.saw = d]
  <2>0. e \in {"none", "failure", "lost", "refused"} /\ k \in {"free", "setup", "handler"}
    BY DEF ErrorOf
  <2>r. /\ r \in OpRecord /\ op' = [op EXCEPT ![o] = r]
        /\ r.pc = op[o].pc /\ r.lock = k /\ r.saw = d /\ r.err = e
        /\ r.listener = op[o].listener /\ r.ready = op[o].ready /\ r.closed = op[o].closed
        /\ r.monitor = op[o].monitor /\ r.result = op[o].result
    <3>1. op[o] \in OpRecord
      OBVIOUS
    <3>2. op' = [op EXCEPT ![o] = r]
      BY <1>7
    <3> HIDE DEF e, k, d
    <3> QED
      BY <1>2, <2>0, <3>1, <3>2 DEF OpRecord, d
  <2> HIDE DEF r
  <2>1. op'[o] = r
    BY <2>r
  <2>2. ListenerInv(o)' /\ SetupInv(o)'
    BY <1>1, <1>2, <1>5, <2>r, <2>1 DEF OpInv, ListenerInv, SetupInv
  <2>3. HandlerInv(o)'
    BY <1>1, <1>2, <1>3, <1>5, <1>7, <2>r, <2>1
       DEF OpInv, ListenerInv, HandlerInv, WaitInv, Outcome, OpRecord
  <2>4. WaitInv(o)'
    BY <1>1, <1>2, <1>5, <1>7, <2>r, <2>1 DEF OpInv, WaitInv, Outcome
  <2>5. Waker(o)'
    BY <1>1, <1>2, <1>3, <1>4, <2>r, <2>1 DEF Waker, Stranded
  <2> QED
    BY <1>1, <1>4, <2>r, <2>2, <2>3, <2>4, <2>5, BecomesOp DEF OpInv
<1> QED
  BY <1>6, <1>7 DEF Handle, Relevant

\* The handler of the final event ends the wait.
LEMMA HandleFinalInv ==
    ASSUME ClientInv, ~ClientPanics, NEW o \in Ops, HandleFinal(o)
    PROVE  ClientInv'
<1> USE ClientTypes
<1>1. /\ op[o].lock = "handler" /\ Disconnected(o)
      /\ UNCHANGED <<server, told, conn, wire, reader, handlers, missed, faults>>
  BY DEF HandleFinal
<1> DEFINE n == op[o].closed + 1
<1>0. n \in 0 .. 2 /\ n > 0
  BY OnceMore
<1> DEFINE r == [op[o] EXCEPT !.lock = "free", !.listener = FALSE, !.closed = n]
<1>r. /\ r \in OpRecord /\ op' = [op EXCEPT ![o] = r]
        /\ r.pc = op[o].pc /\ r.lock = "free" /\ r.saw = op[o].saw
        /\ r.err = op[o].err /\ r.listener = FALSE /\ r.ready = op[o].ready
        /\ r.closed = n /\ r.monitor = op[o].monitor /\ r.result = op[o].result
  <2>1. op[o] \in OpRecord
    OBVIOUS
  <2>2. op' = [op EXCEPT ![o] = r]
    BY DEF HandleFinal
  <2> HIDE DEF n
  <2> QED
    BY <2>1, <2>2, <1>0 DEF OpRecord
<1> HIDE DEF r
<1>2. op'[o] = r /\ op' \in [Ops -> OpRecord] /\ \A x \in Ops : x # o => op'[x] = op[x]
  BY <1>r
<1>3. OpInv(o) /\ server[o] \in Statuses
  BY DEF ClientInv
<1>4. ListenerInv(o)'
  BY <1>1, <1>r, <1>2, <1>3, Disconnects DEF OpInv, ListenerInv, HandlerInv
<1>5. SetupInv(o)' /\ HandlerInv(o)'
  BY <1>1, <1>r, <1>2, <1>3, Disconnects DEF OpInv, SetupInv, HandlerInv
<1>6. WaitInv(o)'
  <2>1. /\ op[o].pc \in {"wait", "returned"} /\ op[o].listener /\ Outcome(o)
        /\ IF op[o].saw THEN lis[o].down ELSE op[o].pc = "wait" /\ op[o].closed = 0
    BY <1>1, <1>3 DEF OpInv, HandlerInv
  <2>2. CASE op[o].pc = "wait"
    BY <1>0, <1>1, <1>r, <1>2, <1>3, <2>1, <2>2 DEF OpInv, WaitInv, Outcome
  <2>3. CASE op[o].pc = "returned"
    <3>1. op[o].saw /\ lis'[o] = lis[o] /\ lis[o].err
      BY <1>1, <1>3, <2>1, <2>3, Disconnects DEF OpInv, WaitInv
    <3> QED
      BY <1>1, <1>r, <1>2, <2>3, <3>1 DEF WaitInv
  <2> QED
    BY <2>1, <2>2, <2>3
<1>7. Waker(o)'
  BY <1>0, <1>r, <1>2 DEF Waker
<1>8. list'.nil => list.nil /\ list'.of = {}
  BY <1>1, Disconnects DEF ClientInv, ReaderInv
<1> QED
  BY <1>1, <1>2, <1>4, <1>5, <1>6, <1>7, <1>8, Disconnects, OneMoves DEF OpInv

\* The monitor starts to watch, or finds nothing to watch.
LEMMA MonitorStartsInv ==
    ASSUME ClientInv, NEW o \in Ops, MonitorStarts(o)
    PROVE  ClientInv'
<1> USE ClientTypes
<1>1. /\ op[o].monitor = "armed" /\ op[o].ready /\ op[o].lock = "free"
      /\ UNCHANGED <<server, told, conn, wire, list, reader, lis, handlers, missed, faults>>
  BY DEF MonitorStarts
<1> DEFINE m == IF op[o].listener THEN "watch" ELSE "over"
<1> DEFINE r == [op[o] EXCEPT !.monitor = m]
<1>r. /\ r \in OpRecord /\ op' = [op EXCEPT ![o] = r]
        /\ r.pc = op[o].pc /\ r.lock = op[o].lock /\ r.saw = op[o].saw
        /\ r.err = op[o].err /\ r.listener = op[o].listener /\ r.ready = op[o].ready
        /\ r.closed = op[o].closed /\ r.monitor = m /\ r.result = op[o].result
  <2>1. op[o] \in OpRecord
    OBVIOUS
  <2>2. op' = [op EXCEPT ![o] = r]
    BY DEF MonitorStarts
  <2> QED
    BY <2>1, <2>2 DEF OpRecord
<1> HIDE DEF r
<1>2. op'[o] = r
  BY <1>r
<1>3. OpInv(o) /\ Waker(o) /\ op[o] \in OpRecord
  BY DEF ClientInv
<1>4. op[o].pc \in {"wait", "returned"}
  BY <1>1, <1>3 DEF OpInv, SetupInv, OpRecord
<1>5. ListenerInv(o)' /\ SetupInv(o)'
  BY <1>1, <1>r, <1>2, <1>3, <1>4 DEF OpInv, ListenerInv, SetupInv
<1>6. HandlerInv(o)' /\ WaitInv(o)'
  BY <1>1, <1>r, <1>2, <1>3, <1>4 DEF OpInv, HandlerInv, WaitInv, Outcome
<1>7. Waker(o)'
  BY <1>1, <1>r, <1>2, <1>3, <1>4 DEF OpInv, WaitInv, Waker, Stranded
<1> QED
  BY <1>1, <1>r, <1>5, <1>6, <1>7, BecomesOp DEF OpInv

\* The monitor ends a wait whose connection has failed, or ends.
LEMMA MonitorWakesInv ==
    ASSUME ClientInv, ~ClientPanics, NEW o \in Ops, MonitorWakes(o)
    PROVE  ClientInv'
<1> USE ClientTypes
<1>1. /\ op[o].monitor = "watch"
      /\ UNCHANGED <<server, told, conn, wire, list, reader, lis, handlers, missed, faults>>
  BY DEF MonitorWakes
<1>2. OpInv(o) /\ Waker(o) /\ op[o] \in OpRecord
  BY DEF ClientInv
<1>3. op[o].pc \in {"wait", "returned"}
  BY <1>1, <1>2 DEF OpInv, SetupInv, OpRecord
<1>4. CASE op[o].closed > 0 /\ op' = [op EXCEPT ![o].monitor = "over"]
  <2> DEFINE r == [op[o] EXCEPT !.monitor = "over"]
  <2>r. /\ r \in OpRecord /\ op' = [op EXCEPT ![o] = r]
        /\ r.pc = op[o].pc /\ r.lock = op[o].lock /\ r.saw = op[o].saw /\ r.err = op[o].err
        /\ r.listener = op[o].listener /\ r.ready = op[o].ready /\ r.closed = op[o].closed
        /\ r.monitor = "over" /\ r.result = op[o].result
    BY <1>2, <1>4 DEF OpRecord
  <2> HIDE DEF r
  <2>1. op'[o] = r
    BY <2>r
  <2>2. ListenerInv(o)' /\ SetupInv(o)'
    BY <1>1, <1>2, <1>3, <2>r, <2>1 DEF OpInv, ListenerInv, SetupInv
  <2>3. HandlerInv(o)' /\ WaitInv(o)' /\ Waker(o)'
    BY <1>1, <1>2, <1>3, <1>4, <2>r, <2>1 DEF OpInv, HandlerInv, WaitInv, Waker, Outcome
  <2> QED
    BY <1>1, <2>r, <2>2, <2>3, BecomesOp DEF OpInv
<1>5. CASE /\ lis[o].closed > 0 /\ op[o].lock = "free"
           /\ op' = [op EXCEPT ![o].monitor = "over",
                               ![o].err = IF op[o].listener THEN "lost" ELSE @,
                               ![o].closed = IF op[o].listener THEN @ + 1 ELSE @]
  <2> DEFINE e == IF op[o].listener THEN "lost" ELSE op[o].err
             n == IF op[o].listener THEN op[o].closed + 1 ELSE op[o].closed
             r == [op[o] EXCEPT !.monitor = "over", !.err = e, !.closed = n]
  <2>0. n \in 0 .. 2 /\ e \in {"none", "failure", "lost", "refused"} /\ (op[o].listener => n > 0)
    BY <1>2, OnceMore DEF OpRecord
  <2>r. /\ r \in OpRecord /\ op' = [op EXCEPT ![o] = r]
        /\ r.pc = op[o].pc /\ r.lock = op[o].lock /\ r.saw = op[o].saw /\ r.err = e
        /\ r.listener = op[o].listener /\ r.ready = op[o].ready /\ r.closed = n
        /\ r.monitor = "over" /\ r.result = op[o].result
    <3>1. op' = [op EXCEPT ![o] = r]
      BY <1>5
    <3> HIDE DEF e, n
    <3> QED
      BY <1>2, <2>0, <3>1 DEF OpRecord
  <2> HIDE DEF r
  <2>1. op'[o] = r
    BY <2>r
  <2>2. ListenerInv(o)' /\ SetupInv(o)'
    BY <1>1, <1>2, <1>3, <2>r, <2>1 DEF OpInv, ListenerInv, SetupInv
  <2>3. HandlerInv(o)'
    BY <1>5, <2>r, <2>1 DEF HandlerInv
  <2>4. op[o].listener => lis[o].err
    BY <1>2, <1>5 DEF OpInv, ListenerInv, LisRecord
  <2>5. WaitInv(o)' /\ Waker(o)'
    BY <1>1, <1>2, <1>3, <2>0, <2>4, <2>r, <2>1 DEF OpInv, WaitInv, Waker, Outcome
  <2> QED
    BY <1>1, <2>r, <2>2, <2>3, <2>5, BecomesOp DEF OpInv
<1> QED
  BY <1>4, <1>5 DEF MonitorWakes

\* A step of nobody's Wait.
LEMMA NobodyMoves ==
    ASSUME ClientInv, UNCHANGED <<server, op, lis>>, list'.of = list.of, NEW o \in Ops
    PROVE  OpInv(o)'
<1>1. OpInv(o)
  BY DEF ClientInv
<1> QED
  BY <1>1 DEF OpInv, ListenerInv, SetupInv, HandlerInv, WaitInv, Outcome

\* A Wait that sleeps and whose listener is not in the list is being woken.
LEMMA OffTheList ==
    ASSUME ClientInv, NEW o \in Ops, op[o].pc = "wait", o \notin list.of
    PROVE  op[o].closed > 0 \/ (lis[o].closed > 0 /\ op[o].monitor \in {"armed", "watch"})
<1>1. OpInv(o) /\ lis[o] \in LisRecord
  BY ClientTypes DEF ClientInv
<1>2. lis[o].closed \in 0 .. 2
  BY <1>1 DEF LisRecord
<1> QED
  BY <1>1, <1>2 DEF OpInv, ListenerInv, WaitInv

\* The daemon registers the connection.
LEMMA SocketInv ==
    ASSUME ClientInv, eventsSocket
    PROVE  ClientInv'
<1> USE ClientTypes
<1>1. /\ UNCHANGED <<server, told, wire, list, reader, lis, op, handlers, missed, faults>>
      /\ conn' \in ConnRecord /\ conn'.state = conn.state
  BY DEF eventsSocket, ConnRecord
<1>2. ClientTypeOK'
  BY <1>1 DEF ClientInv, ClientTypeOK, ConnRecord
<1>3. MessageInv' /\ ReaderInv'
  BY <1>1 DEF ClientInv, MessageInv, ReaderInv
<1>4. ASSUME NEW o \in Ops PROVE OpInv(o)' /\ Waker(o)'
  BY <1>1, NobodyMoves DEF ClientInv, Waker, Stranded
<1> QED
  BY <1>2, <1>3, <1>4 DEF ClientInv

\* The connection fails: its reader is there to notice.
LEMMA BreakInv ==
    ASSUME ClientInv, Break
    PROVE  ClientInv'
<1> USE ClientTypes
<1>1. /\ conn.state = "open" /\ UNCHANGED <<server, told, list, reader, lis, op, handlers, missed>>
      /\ conn' \in ConnRecord /\ conn'.state = "broken" /\ wire' = {}
      /\ faults' \in 0 .. MaxFaults
  BY ClientAssumption DEF Break, Fault, ConnRecord, ClientAssumption
<1>2. reader # "none"
  BY <1>1 DEF ClientInv, ReaderInv
<1>3. ClientTypeOK'
  BY <1>1 DEF ClientInv, ClientTypeOK, ConnRecord
<1>4. MessageInv' /\ ReaderInv'
  BY <1>1, <1>2 DEF ClientInv, MessageInv, ReaderInv
<1>5. ASSUME NEW o \in Ops PROVE OpInv(o)' /\ Waker(o)'
  BY <1>1, <1>2, NobodyMoves DEF Waker
<1> QED
  BY <1>3, <1>4, <1>5 DEF ClientInv

\* The reader closes a connection nobody listens to; nobody who sleeps relied on it.
LEMMA ReaderChecksInv ==
    ASSUME ClientInv, ReaderChecks
    PROVE  ClientInv'
<1> USE ClientTypes
<1>1. reader = "check" /\ UNCHANGED <<server, told, lis, op, handlers, missed, faults>>
  BY DEF ReaderChecks
<1>2. CASE list.of # {}
  <2>1. reader' = "read" /\ UNCHANGED <<list, wire, conn>>
    BY <1>2 DEF ReaderChecks
  <2>2. ClientTypeOK'
    BY <1>1, <2>1 DEF ClientInv, ClientTypeOK
  <2>3. MessageInv' /\ ReaderInv'
    BY <1>1, <2>1 DEF ClientInv, MessageInv, ReaderInv
  <2>4. ASSUME NEW o \in Ops PROVE OpInv(o)' /\ Waker(o)'
    BY <1>1, <2>1, NobodyMoves DEF ClientInv, Waker, Stranded
  <2> QED
    BY <2>2, <2>3, <2>4 DEF ClientInv
<1>3. CASE list.of = {}
  <2>1. /\ reader' = "none" /\ list' = [list EXCEPT !.nil = TRUE] /\ wire' = {}
        /\ conn' = [state |-> "none", served |-> FALSE]
    BY <1>3 DEF ReaderChecks
  <2>2. list' \in ListRecord /\ list'.of = list.of /\ conn' \in ConnRecord /\ conn'.state = "none"
    BY <2>1 DEF ListRecord, ConnRecord
  <2>3. ClientTypeOK'
    BY <1>1, <2>1, <2>2 DEF ClientInv, ClientTypeOK, ListRecord, ConnRecord
  <2>4. MessageInv' /\ ReaderInv'
    BY <1>1, <1>3, <2>1, <2>2 DEF ClientInv, MessageInv, ReaderInv
  <2>5. ASSUME NEW o \in Ops PROVE OpInv(o)' /\ Waker(o)'
    <3>1. op[o].pc = "wait" => op[o].closed > 0 \/ (lis[o].closed > 0 /\ op[o].monitor \in {"armed", "watch"})
      BY <1>3, OffTheList
    <3> QED
      BY <1>1, <2>2, <3>1, NobodyMoves DEF Waker
  <2> QED
    BY <2>3, <2>4, <2>5 DEF ClientInv
<1> QED
  BY <1>2, <1>3

\* A message read goes to the handler of a Wait that sleeps for it.
LEMMA ReaderDistributesInv ==
    ASSUME ClientInv, ReaderDistributes
    PROVE  ClientInv'
<1> USE ClientTypes
<1>1. /\ reader = "read" /\ reader' = "check"
      /\ UNCHANGED <<server, told, conn, list, lis, op, missed, faults>>
  BY DEF ReaderDistributes
<1>2. PICK m \in wire : /\ wire' = wire \ {m}
                        /\ handlers' = IF m[1] \in list.of /\ lis[m[1]].targets
                                       THEN handlers \cup {m} ELSE handlers
  BY DEF ReaderDistributes
<1>3. ClientTypeOK'
  BY <1>1, <1>2 DEF ClientInv, ClientTypeOK
<1>4. MessageInv' /\ ReaderInv'
  BY <1>1, <1>2 DEF ClientInv, MessageInv, ReaderInv
<1>5. ASSUME NEW o \in Ops PROVE OpInv(o)' /\ Waker(o)'
  <2>1. OpInv(o)' /\ OpInv(o) /\ Waker(o)
    BY <1>1, NobodyMoves DEF ClientInv
  <2>2. CASE m = <<o, server[o]>> /\ op[o].pc = "wait"
    <3>1. lis[o].targets /\ m[1] = o
      BY <2>1, <2>2 DEF OpInv, SetupInv
    <3>2. CASE o \in list.of
      BY <1>1, <1>2, <2>1, <2>2, <3>1, <3>2 DEF Waker
    <3>3. CASE o \notin list.of
      BY <1>1, <2>1, <2>2, <3>3, OffTheList DEF Waker
    <3> QED
      BY <3>2, <3>3
  <2>3. CASE m # <<o, server[o]>> /\ op[o].pc = "wait"
    <3>1. <<o, server[o]>> \in wire \cup handlers => <<o, server[o]>> \in wire' \cup handlers'
      BY <1>2, <2>3
    <3> QED
      BY <1>1, <2>1, <3>1 DEF Waker, Stranded
  <2>4. CASE op[o].pc # "wait"
    BY <1>1, <2>1, <2>4 DEF Waker
  <2> QED
    BY <2>2, <2>3, <2>4
<1> QED
  BY <1>3, <1>4, <1>5 DEF ClientInv

\* The reader tells every listener of the list that the connection has failed.
LEMMA ReaderFailsInv ==
    ASSUME ClientInv, ~ClientPanics, ReaderFails
    PROVE  ClientInv'
<1> USE ClientTypes
<1> DEFINE f(o) == IF o \in list.of
                   THEN [lis[o] EXCEPT !.err = TRUE, !.down = TRUE, !.closed = @ + 1] ELSE lis[o]
<1>1. /\ reader = "read" /\ conn.state = "broken" /\ reader' = "none"
      /\ lis' = [o \in Ops |-> f(o)]
      /\ list' = [list EXCEPT !.of = {}]
      /\ UNCHANGED <<server, told, conn, wire, op, handlers, missed, faults>>
  BY DEF ReaderFails
<1>2. list' \in ListRecord /\ list'.of = {} /\ list'.nil = list.nil
  BY <1>1 DEF ListRecord
<1>3. ASSUME NEW o \in Ops
      PROVE  /\ f(o) \in LisRecord /\ f(o).targets = lis[o].targets
             /\ o \in list.of => f(o).closed > 0 /\ f(o).down /\ f(o).err
             /\ o \notin list.of => f(o) = lis[o]
  <2>1. lis[o].closed \in 0 .. 1 /\ lis[o] \in LisRecord
    BY OnceMore
  <2> DEFINE n == lis[o].closed + 1
             l == [lis[o] EXCEPT !.err = TRUE, !.down = TRUE, !.closed = n]
  <2>2. n \in 0 .. 2 /\ n > 0
    BY <2>1
  <2>3. f(o) = IF o \in list.of THEN l ELSE lis[o]
    OBVIOUS
  <2> HIDE DEF n, f
  <2>4. l \in LisRecord /\ l.targets = lis[o].targets /\ l.down /\ l.err /\ l.closed > 0
    BY <2>1, <2>2 DEF LisRecord
  <2> QED
    BY <2>1, <2>3, <2>4
<1> HIDE DEF f
<1>4. lis' \in [Ops -> LisRecord] /\ \A o \in Ops : lis'[o] = f(o)
  BY <1>1, <1>3
<1>5. ClientTypeOK'
  BY <1>1, <1>2, <1>4 DEF ClientInv, ClientTypeOK, ListRecord, LisRecord
<1>6. MessageInv' /\ ReaderInv'
  BY <1>1, <1>2 DEF ClientInv, MessageInv, ReaderInv
<1>7. ASSUME NEW o \in Ops PROVE OpInv(o)' /\ Waker(o)'
  <2>0. OpInv(o) /\ Waker(o) /\ lis'[o] = f(o)
    BY <1>4 DEF ClientInv
  <2>1. CASE o \notin list.of
    <3>1. OpInv(o)'
      BY <1>1, <1>2, <1>3, <2>0, <2>1 DEF OpInv, ListenerInv, SetupInv, HandlerInv, WaitInv, Outcome
    <3>2. op[o].pc = "wait" => op[o].closed > 0 \/ (lis[o].closed > 0 /\ op[o].monitor \in {"armed", "watch"})
      BY <2>1, OffTheList
    <3>3. Waker(o)'
      BY <1>1, <1>3, <2>0, <2>1, <3>2 DEF Waker
    <3> QED
      BY <3>1, <3>3
  <2>2. CASE o \in list.of
    <3>0. op[o].listener /\ ~lis[o].down /\ ~lis[o].err
      BY <2>0, <2>2 DEF OpInv, ListenerInv
    <3>f. /\ lis'[o].closed > 0 /\ lis'[o].down /\ lis'[o].err /\ lis'[o].targets = lis[o].targets
          /\ o \notin list'.of /\ lis'[o].closed # 0
      BY <1>2, <1>3, <2>0, <2>2
    <3>1. ListenerInv(o)'
      BY <1>1, <3>0, <3>f DEF ListenerInv
    <3>2. SetupInv(o)' /\ HandlerInv(o)'
      BY <1>1, <2>0, <3>0, <3>f DEF OpInv, SetupInv, HandlerInv, Outcome
    <3>3. WaitInv(o)' /\ Waker(o)'
      BY <1>1, <2>0, <3>0, <3>f DEF OpInv, WaitInv, Waker, Outcome
    <3> QED
      BY <3>1, <3>2, <3>3 DEF OpInv
  <2> QED
    BY <2>1, <2>2
<1> QED
  BY <1>5, <1>6, <1>7 DEF ClientInv

\* A progress event says nothing of the end.
LEMMA ProgressInv ==
    ASSUME ClientInv, NEW o \in Ops, Progress(o)
    PROVE  ClientInv'
<1> USE ClientTypes
<1>1. /\ UNCHANGED <<server, conn, list, reader, lis, op, handlers, faults>>
      /\ told' = told \cup {o} /\ wire \subseteq wire' /\ wire' \subseteq wire \cup {<<o, "Running">>}
      /\ missed' = missed
  BY DEF Progress, eventSend, Final
<1>2. ClientTypeOK'
  BY <1>1 DEF ClientInv, ClientTypeOK, Statuses
<1>3. MessageInv' /\ ReaderInv'
  BY <1>1 DEF ClientInv, MessageInv, ReaderInv, Final
<1>4. ASSUME NEW x \in Ops PROVE OpInv(x)' /\ Waker(x)'
  BY <1>1, NobodyMoves DEF ClientInv, Waker, Stranded
<1> QED
  BY <1>2, <1>3, <1>4 DEF ClientInv

\* The end of an operation is announced if the connection is registered; if it is
\* not, the Wait that sleeps has missed it, or its connection has failed.
LEMMA FinishInv ==
    ASSUME ClientInv, NEW o \in Ops, NEW st \in Final, Finish(o, st)
    PROVE  ClientInv'
<1> USE ClientTypes
<1>1. /\ server[o] = "Running" /\ server' = [server EXCEPT ![o] = st]
      /\ wire' = (IF conn.served THEN wire \cup {<<o, st>>} ELSE wire)
      /\ missed \subseteq missed' /\ missed' \subseteq missed \cup {o}
      /\ ~conn.served /\ op[o].pc = "wait" /\ conn.state = "open" => o \in missed'
      /\ UNCHANGED <<told, conn, list, reader, lis, op, handlers, faults>>
  BY DEF Finish, eventSend
<1>2. server' \in [Ops -> Statuses] /\ server'[o] = st /\ \A x \in Ops : x # o => server'[x] = server[x]
  BY <1>1 DEF Statuses
<1>3. ClientTypeOK'
  BY <1>1, <1>2 DEF ClientInv, ClientTypeOK, Statuses
<1>4. MessageInv'
  <2> SUFFICES ASSUME NEW m \in wire' \cup handlers', m[2] \in Final PROVE server'[m[1]] = m[2]
    BY DEF MessageInv
  <2>1. CASE m = <<o, st>>
    BY <1>2, <2>1
  <2>2. CASE m \in wire \cup handlers
    <3>1. server[m[1]] = m[2] /\ m[1] \in Ops
      BY <2>2 DEF ClientInv, MessageInv
    <3>2. m[1] # o
      BY <1>1, <3>1 DEF Final
    <3> QED
      BY <1>2, <3>1, <3>2
  <2> QED
    BY <1>1, <2>1, <2>2
<1>5. ReaderInv'
  BY <1>1 DEF ClientInv, ReaderInv
<1>6. ASSUME NEW x \in Ops PROVE OpInv(x)' /\ Waker(x)'
  <2>0. OpInv(x) /\ Waker(x)
    BY DEF ClientInv
  <2>1. CASE x # o
    <3>1. OpInv(x)'
      BY <1>1, <1>2, <2>0, <2>1 DEF OpInv, ListenerInv, SetupInv, HandlerInv, WaitInv, Outcome
    <3>2. Waker(x)'
      BY <1>1, <1>2, <2>0, <2>1 DEF Waker, Stranded
    <3> QED
      BY <3>1, <3>2
  <2>2. CASE x = o
    <3>0. ~Outcome(o)
      BY <1>1 DEF Outcome, Final
    <3>1. ListenerInv(o)'
      BY <1>1, <2>0, <2>2 DEF OpInv, ListenerInv
    <3>2. SetupInv(o)' /\ HandlerInv(o)'
      BY <1>1, <2>0, <2>2, <3>0 DEF OpInv, SetupInv, HandlerInv
    <3>3. WaitInv(o)'
      BY <1>1, <2>0, <2>2, <3>0 DEF OpInv, WaitInv
    <3>4. Waker(o)'
      <4> SUFFICES ASSUME op[o].pc = "wait" PROVE Waker(o)'
        BY <1>1 DEF Waker
      <4>1. CASE o \notin list.of
        BY <1>1, <4>1, OffTheList DEF Waker
      <4>2. CASE o \in list.of /\ reader = "none"
        BY <1>1, <4>2 DEF Waker, Stranded
      <4>3. CASE reader # "none" /\ conn.state = "open"
        BY <1>1, <1>2, <4>3 DEF Waker
      <4>4. CASE reader # "none" /\ conn.state # "open"
        <5>1. conn.state = "broken"
          BY <4>4 DEF ClientInv, ReaderInv, ConnRecord
        <5> QED
          BY <1>1, <4>4, <5>1 DEF Waker
      <4> QED
        BY <4>1, <4>2, <4>3, <4>4
    <3> QED
      BY <2>2, <3>1, <3>2, <3>3, <3>4 DEF OpInv
  <2> QED
    BY <2>1, <2>2
<1> QED
  BY <1>3, <1>4, <1>5, <1>6 DEF ClientInv

\* A fault outside the event connection changes nothing here but the count.
LEMMA FaultInv ==
    ASSUME ClientInv, faults' \in 0 .. MaxFaults,
           UNCHANGED <<server, told, conn, wire, list, reader, lis, op, handlers, missed>>
    PROVE  ClientInv'
<1>1. ClientTypeOK'
  BY DEF ClientInv, ClientTypeOK
<1>2. MessageInv' /\ ReaderInv'
  BY DEF ClientInv, MessageInv, ReaderInv
<1>3. ASSUME NEW o \in Ops PROVE OpInv(o)' /\ Waker(o)'
  BY NobodyMoves DEF ClientInv, Waker, Stranded
<1> QED
  BY <1>1, <1>2, <1>3 DEF ClientInv

\* Every step of the client, of the daemon's events and of an exec.
LEMMA ClientNextInv == ClientInv /\ [Next]_vars => ClientInv'
<1> SUFFICES ASSUME ClientInv, [Next]_vars PROVE ClientInv'
  OBVIOUS
<1>1. CASE UNCHANGED vars
  <2>1. UNCHANGED <<server, told, conn, wire, list, reader, lis, op, handlers, missed>> /\ faults' = faults
    BY <1>1 DEF vars, clientVars
  <2> QED
    BY <2>1, ClientTypes, FaultInv
<1>2. CASE EventStep
  <2>1. ~ClientPanics
    BY <1>2 DEF EventStep, ClientNext
  <2>2. CASE eventsSocket \/ Break \/ ReaderStep
    BY <2>1, <2>2, SocketInv, BreakInv, ReaderChecksInv, ReaderDistributesInv, ReaderFailsInv DEF ReaderStep
  <2>3. ASSUME NEW o \in Ops, Progress(o) \/ WaitStep(o) PROVE ClientInv'
    BY <2>1, <2>3, ProgressInv, GetEventsInv, AddHandlerInv, RefreshInv, LeaveInv, WakeInv DEF WaitStep
  <2>4. ASSUME NEW o \in Ops, HandlerStep(o) \/ MonitorStep(o) PROVE ClientInv'
    BY <2>1, <2>4, HandleInv, HandleFinalInv, MonitorStartsInv, MonitorWakesInv DEF HandlerStep, MonitorStep
  <2>5. ASSUME NEW o \in Ops, NEW st \in Final, Finish(o, st) PROVE ClientInv'
    BY <2>5, FinishInv
  <2> QED
    BY <1>2, <2>2, <2>3, <2>4, <2>5 DEF EventStep, ClientNext
<1>3. CASE ExecStep
  <2>1. \/ \E st \in Final : Finish(Session, st)
        \/ /\ UNCHANGED <<server, told, conn, wire, list, reader, lis, op, handlers, missed>>
           /\ faults' = faults \/ Fault
    <3>1. CASE ConnectControl \/ ControlStep \/ Exit \/ Background \/ TerminalStep \/ InputEnds \/ DataDone
               \/ \E fd \in DataFds : Connect(fd)
      BY <1>3, <3>1 DEF ConnectControl, ControlStep, StoreControl, ControlTakes, ControlEnds, Exit, Background,
         TerminalStep, Poll, PollAgain, WatchNotes, WatchPolls, InputEnds, DataDone, Connect, clientVars
    <3>2. CASE DoStep
      BY <3>2 DEF DoStep, Run, Born, Waited, Finisher, ControlExit, TellDead, Return, clientVars, Final
    <3>3. CASE \E s \in Streams : Write(s) \/ StreamStep(s)
      BY <3>3 DEF Write, StreamStep, Read, PollPipe, Send, SendEnd, clientVars
    <3>4. CASE ClientExits \/ ClientGone
      BY <3>4 DEF ClientExits, ClientGone, clientVars
    <3> QED
      BY <1>3, <3>1, <3>2, <3>3, <3>4 DEF ExecStep
  <2>2. Fault => faults' \in 0 .. MaxFaults
    BY ClientTypes, ClientAssumption DEF Fault, ClientAssumption
  <2> QED
    BY <2>1, <2>2, ClientTypes, FinishInv, FaultInv, ExecAssumption DEF ExecAssumption
<1> QED
  BY <1>1, <1>2, <1>3 DEF Next

\* The invariant of the client's operations, connections and listeners.
THEOREM ClientInvariant == Spec => []ClientInv
<1>1. Init => ClientInv
  <2> SUFFICES ASSUME Init PROVE ClientInv
    OBVIOUS
  <2>1. ClientTypeOK
    BY ClientAssumption DEF Init, ClientInit, ClientTypeOK, ClientAssumption, Statuses
  <2>2. MessageInv /\ ReaderInv
    BY DEF Init, ClientInit, MessageInv, ReaderInv
  <2>3. ASSUME NEW o \in Ops PROVE OpInv(o) /\ Waker(o)
    <3>1. /\ op[o].pc = "start" /\ op[o].lock = "free" /\ ~op[o].listener /\ ~op[o].ready /\ op[o].closed = 0
          /\ op[o].monitor = "none" /\ lis[o].closed = 0 /\ ~lis[o].down /\ ~lis[o].err /\ list.of = {}
      BY DEF Init, ClientInit
    <3> QED
      BY <3>1 DEF OpInv, ListenerInv, SetupInv, HandlerInv, WaitInv, Waker
  <2> QED
    BY <2>1, <2>2, <2>3 DEF ClientInv
<1> QED
  BY <1>1, ClientNextInv, PTL DEF Spec

\* As long as its event connection has not failed, Wait reports what became of the
\* operation, in whatever order the events come, and a Wait that sleeps on an
\* operation that is over has somebody on the way to wake it, but for the two
\* windows in which events are lost: for any number of operations and faults.
THEOREM WaitIsSound == Spec => []WaitSound
<1>1. ClientInv => WaitSound
  <2> SUFFICES ASSUME ClientInv PROVE WaitSound
    OBVIOUS
  <2>1. WaitTellsOutcome
    BY DEF ClientInv, OpInv, WaitInv, WaitTellsOutcome
  <2>2. ClientHasWaker
    BY DEF ClientInv, Waker, ClientHasWaker
  <2> QED
    BY <2>1, <2>2 DEF WaitSound
<1> QED
  BY <1>1, ClientInvariant, PTL

---------------------------------------------------------------------------
(* The output of a command                                                  *)

ExRecord ==
    [control : {"none", "upgraded", "stored", "closed", "dropped"},
     signal : BOOLEAN, data : SUBSET {"tty", "stdin", "stdout", "stderr"},
     do : {"connect", "exec", "born", "wait", "finish", "exit", "dead", "eof", "returned", "failed"},
     ctl : {"none", "born", "select", "read", "over"}]
ChildRecord ==
    [state : {"none", "running", "exited"}, left : Amounts, background : BOOLEAN, holds : BOOLEAN]
IoRecord ==
    [unread : Amounts, noise : BOOLEAN, master : BOOLEAN, got : Amounts,
     rd : [AllStreams -> {"none", "poll", "in", "hup", "read", "send", "over"}],
     watch : {"none", "wait", "poll", "over"}, dead : BOOLEAN, chan : {"open", "closed", "panic"}]
WsRecord ==
    [open : BOOLEAN, over : SUBSET AllStreams, ended : SUBSET AllStreams,
     sent : Amounts, input : {"none", "open", "over"}, cut : BOOLEAN]

ExecTypes ==
    /\ mode \in {"terminal", "pipes", "none"} /\ client \in {"here", "gone", "exited"}
    /\ ex \in ExRecord /\ child \in ChildRecord /\ io \in IoRecord /\ ws \in WsRecord

\* A stream of which nothing is left to send.
Drained(s) == child.left[s] = 0 /\ io.unread[s] = 0 /\ io.got[s] = 0

\* Do, its command, the goroutine told of its death and the websockets go together.
DoInv ==
    /\ ex.data \subseteq DataFds /\ (ex.data # DataFds => ex.do = "connect")
    /\ ex.do \in {"connect", "exec"} => \A s \in AllStreams : io.rd[s] = "none"
    /\ ex.do \in {"connect", "exec", "failed"} => child.state = "none"
    /\ ex.do \in {"finish", "exit", "dead", "eof", "returned"} => child.state = "exited"
    /\ child.holds => child.background
    /\ child.background => child.state = "exited"
    /\ io.dead \/ io.watch = "poll" => ex.do \in {"eof", "returned"}
    /\ ex.control = "dropped" => ~ws.open
    /\ client = "gone" => ws.cut /\ ~ws.open
    /\ mode # "terminal" => ex.control = "none" /\ (io.master \/ ex.do = "returned")
    /\ ex.do = "returned" => ws.over = Streams

\* What the command writes is unread, in the hand of a reader, or sent; only a
\* client that has cut its connection loses some of it.
Flow(s) ==
    /\ child.left[s] + io.unread[s] + io.got[s] + ws.sent[s] <= MaxOutput
    /\ s \in Streams /\ ~ws.cut =>
          child.left[s] + io.unread[s] + io.got[s] + ws.sent[s] = MaxOutput
    /\ s \notin Streams => child.left[s] = 0
    /\ io.got[s] > 0 => io.rd[s] = "send"

\* Streams end once, and unless it was cut the connection is closed after all have.
EndInv ==
    /\ ws.over \subseteq Streams /\ ws.ended \subseteq ws.over
    /\ ~ws.cut => ws.over \subseteq ws.ended /\ (ws.open \/ ws.ended = Streams)

\* A stream ends drained, and the command has then written all, unless the client
\* cut it off or a process of the command holds the stream open.
DrainInv ==
    ~ws.cut /\ ~child.background =>
        /\ child.state = "exited" => \A s \in Streams : child.left[s] = 0
        /\ \A s \in ws.ended : Drained(s)
        /\ mode # "terminal" => \A s \in Streams : io.rd[s] = "hup" => Drained(s)
        /\ mode = "terminal" /\ (io.chan # "open" \/ ~io.master) => Drained("tty")

OutputInv ==
    /\ ExecTypes /\ DoInv /\ EndInv /\ DrainInv
    /\ \A s \in AllStreams : Flow(s)

---------------------------------------------------------------------------

\* What the lemmas use of the types.
LEMMA ExecTyped ==
    ASSUME OutputInv
    PROVE  /\ ex \in ExRecord /\ child \in ChildRecord /\ io \in IoRecord /\ ws \in WsRecord
           /\ MaxOutput \in Nat /\ Streams \subseteq AllStreams
           /\ mode = "terminal" => Streams = {"tty"} /\ DataFds = {"tty"}
           /\ mode # "terminal" => "tty" \notin Streams
           /\ \A s \in AllStreams : /\ child.left[s] \in 0 .. MaxOutput /\ io.unread[s] \in 0 .. MaxOutput
                                    /\ io.got[s] \in 0 .. MaxOutput /\ ws.sent[s] \in 0 .. MaxOutput
BY ExecAssumption DEF OutputInv, ExecTypes, ExecAssumption, Streams, DataFds, AllStreams,
   ChildRecord, IoRecord, WsRecord, Amounts

\* Steps of Do, of its finisher and of the control websocket.
LEMMA DoFrame ==
    ASSUME OutputInv, UNCHANGED <<mode, child, io, ws, client>>, ex' \in ExRecord, DoInv'
    PROVE  OutputInv'
<1>1. ExecTypes' /\ EndInv' /\ DrainInv'
  BY DEF OutputInv, ExecTypes, EndInv, DrainInv, Drained, Streams
<1>2. \A s \in AllStreams : Flow(s)'
  BY DEF OutputInv, Flow, Streams
<1> QED
  BY <1>1, <1>2 DEF OutputInv

\* The connections of the client, and Do up to the end of its command.
LEMMA DoSteps ==
    ASSUME OutputInv,
           \/ ConnectControl \/ StoreControl \/ Born \/ Waited \/ Finisher \/ ControlExit \/ ControlTakes
           \/ \E fd \in DataFds : Connect(fd)
    PROVE  OutputInv'
<1> USE ExecTyped
<1>0. DoInv
  BY DEF OutputInv
<1>1. CASE ConnectControl
  <2>1. /\ UNCHANGED <<mode, child, io, ws, client>> /\ mode = "terminal"
        /\ ex' \in ExRecord /\ ex'.control = "upgraded" /\ ex'.data = ex.data /\ ex'.do = ex.do
    BY <1>1 DEF ConnectControl, ExRecord
  <2> QED
    BY <1>0, <2>1, DoFrame DEF DoInv, DataFds, Streams
<1>2. CASE StoreControl
  <2>1. /\ UNCHANGED <<mode, child, io, ws, client>> /\ ex.control = "upgraded"
        /\ ex' \in ExRecord /\ ex'.control = (IF client = "gone" THEN "dropped" ELSE "stored")
        /\ ex'.data = ex.data /\ ex'.do = ex.do
    BY <1>2 DEF StoreControl, ExRecord
  <2> QED
    BY <1>0, <2>1, DoFrame DEF DoInv, DataFds, Streams
<1>3. CASE Born \/ Waited \/ ControlExit \/ ControlTakes
  <2>1. /\ UNCHANGED <<mode, child, io, ws, client>>
        /\ ex' \in ExRecord /\ ex'.control = ex.control /\ ex'.data = ex.data
        /\ \/ ex'.do = ex.do
           \/ ex.do = "born" /\ ex'.do = "wait"
           \/ ex.do = "wait" /\ ex'.do = "finish" /\ child.state = "exited"
           \/ ex.do = "exit" /\ ex'.do = "dead"
    BY <1>3 DEF Born, Waited, ControlExit, ControlTakes, ExRecord
  <2> QED
    BY <1>0, <2>1, DoFrame DEF DoInv, DataFds, Streams
<1>4. CASE Finisher
  <2>1. /\ UNCHANGED <<mode, child, io, ws, client>> /\ ex.do = "finish"
        /\ ex' \in ExRecord /\ ex'.do \in {"exit", "dead"} /\ ex'.data = ex.data
        /\ ex'.control = ex.control \/ (ex.control = "stored" /\ ex'.control = "closed")
    BY <1>4 DEF Finisher, ExRecord
  <2> QED
    BY <1>0, <2>1, DoFrame DEF DoInv, DataFds, Streams
<1>5. ASSUME NEW fd \in DataFds, Connect(fd) PROVE OutputInv'
  <2>1. /\ UNCHANGED <<mode, child, io, ws, client>> /\ ex.data # DataFds
        /\ ex'.do = (IF ex.data \cup {fd} = DataFds THEN "exec" ELSE ex.do)
        /\ ex'.data = ex.data \cup {fd} /\ ex'.control = ex.control /\ ex' \in ExRecord
    BY <1>5 DEF Connect, ExRecord, DataFds
  <2>2. DoInv'
    BY <1>0, <2>1 DEF DoInv, DataFds, Streams
  <2> QED
    BY <2>1, <2>2, DoFrame
<1> QED
  BY <1>1, <1>2, <1>3, <1>4, <1>5

---------------------------------------------------------------------------

\* What a reader, or the goroutine that waits for the death, may do to a stream.
LEMMA ReaderFrame ==
    ASSUME OutputInv, NEW s \in AllStreams,
           UNCHANGED <<mode, ex, child, ws, client>>,
           io' \in IoRecord, io'.master = io.master,
           \A r \in AllStreams \ {s} : /\ io'.unread[r] = io.unread[r] /\ io'.got[r] = io.got[r]
                                       /\ io'.rd[r] = io.rd[r],
           io'.unread[s] + io'.got[s] = io.unread[s] + io.got[s],
           io'.got[s] > 0 => io'.rd[s] = "send",
           io'.rd[s] # "none" => io.rd[s] # "none",
           io'.dead \/ io'.watch = "poll" => io.dead \/ io.watch = "poll",
           ~ws.cut /\ ~child.background /\ mode # "terminal" /\ io'.rd[s] = "hup"
               => io.rd[s] = "hup" \/ Drained(s),
           ~ws.cut /\ ~child.background /\ mode = "terminal" /\ io'.chan # "open"
               => io.chan # "open" \/ Drained("tty")
    PROVE  OutputInv'
<1> USE ExecTyped
<1>1. ExecTypes'
  BY DEF OutputInv, ExecTypes
<1>2. DoInv'
  BY DEF OutputInv, DoInv, DataFds, Streams
<1>3. EndInv'
  BY DEF OutputInv, EndInv, Streams
<1>4. \A r \in AllStreams : io'.unread[r] \in Nat /\ io'.got[r] \in Nat
  BY <1>1 DEF ExecTypes, IoRecord, Amounts
<1>5. ASSUME NEW r \in AllStreams PROVE Flow(r)' /\ (Drained(r) => Drained(r)')
  <2>1. io'.unread[r] + io'.got[r] = io.unread[r] + io.got[r]
    OBVIOUS
  <2>2. io'.got[r] > 0 => io'.rd[r] = "send"
    BY DEF OutputInv, Flow
  <2>3. Streams' = Streams
    BY DEF Streams
  <2>4. Flow(r)
    BY DEF OutputInv
  <2> HIDE ExecTyped
  <2>5. /\ child.left[r] \in Nat /\ io.unread[r] \in Nat /\ io.got[r] \in Nat /\ ws.sent[r] \in Nat
        /\ MaxOutput \in Nat /\ io'.unread[r] \in Nat /\ io'.got[r] \in Nat
    BY <1>4, ExecTyped
  <2>6. UNCHANGED <<child, ws>>
    OBVIOUS
  <2>7. /\ child.left[r] + io'.unread[r] + io'.got[r] + ws.sent[r]
             = child.left[r] + io.unread[r] + io.got[r] + ws.sent[r]
        /\ io.unread[r] = 0 /\ io.got[r] = 0 => io'.unread[r] = 0 /\ io'.got[r] = 0
    <3> DEFINE l == child.left[r]  u == io.unread[r]  g == io.got[r]  v == ws.sent[r]
               u2 == io'.unread[r]  g2 == io'.got[r]
    <3>1. l \in Nat /\ u \in Nat /\ g \in Nat /\ v \in Nat /\ u2 \in Nat /\ g2 \in Nat /\ u2 + g2 = u + g
      BY <2>1, <2>5
    <3> HIDE DEF l, u, g, v, u2, g2
    <3>2. l + u2 + g2 + v = l + u + g + v /\ (u = 0 /\ g = 0 => u2 = 0 /\ g2 = 0)
      BY <3>1
    <3> QED
      BY <3>2 DEF l, u, g, v, u2, g2
  <2>8. Flow(r)'
    BY <2>2, <2>3, <2>4, <2>6, <2>7 DEF Flow
  <2> QED
    BY <2>6, <2>7, <2>8 DEF Drained
<1>6. DrainInv'
  <2>1. Streams' = Streams
    BY DEF Streams
  <2>2. DrainInv /\ ws.ended \subseteq AllStreams
    BY DEF OutputInv, ExecTypes, WsRecord
  <2>3. "tty" \in AllStreams
    BY DEF AllStreams
  <2> QED
    BY <1>5, <2>1, <2>2, <2>3 DEF DrainInv
<1> QED
  BY <1>1, <1>2, <1>3, <1>5, <1>6 DEF OutputInv

\* A terminal or a pipe that is hung up has nothing more to come.
LEMMA HungUpEmpty ==
    ASSUME OutputInv, HungUp, ~ws.cut, ~child.background
    PROVE  \A s \in Streams : child.left[s] = 0
BY DEF OutputInv, DoInv, DrainInv, HungUp

\* Without a hangup a dead command has left a process behind.
LEMMA HeldOpen ==
    ASSUME OutputInv, ~HungUp, io.dead \/ io.watch = "poll"
    PROVE  child.background
BY DEF OutputInv, DoInv, HungUp

\* The readers of the terminal and of the pipes.
LEMMA ReaderSteps ==
    ASSUME OutputInv,
           TerminalStep \/ \E s \in Streams : Read(s) \/ PollPipe(s)
    PROVE  OutputInv'
<1> USE ExecTyped
<1>0. "tty" \in AllStreams
  BY DEF AllStreams
<1>1. CASE Poll
  <2>1. UNCHANGED <<mode, ex, child, ws, client>> /\ io.rd["tty"] = "poll"
    BY <1>1 DEF Poll
  <2>2. io.got["tty"] = 0
    BY <1>0, <2>1 DEF OutputInv, Flow
  <2>3. CASE io' = [io EXCEPT !.rd["tty"] = IF HungUp THEN "read" ELSE "in"]
    <3>1. /\ io' \in IoRecord /\ io'.master = io.master /\ io'.dead = io.dead /\ io'.watch = io.watch
          /\ io'.unread = io.unread /\ io'.got = io.got /\ io'.chan = io.chan
          /\ io'.rd["tty"] # "none" /\ io'.rd["tty"] # "hup"
          /\ \A r \in AllStreams \ {"tty"} : io'.rd[r] = io.rd[r]
      BY <2>3, <1>0 DEF IoRecord
    <3> QED
      BY <1>0, <2>1, <2>2, <3>1, ReaderFrame
  <2>4. CASE /\ ~io.master \/ (HungUp /\ ~Readable("tty"))
             /\ io' = [io EXCEPT !.rd["tty"] = "over", !.chan = Closing]
    <3>1. /\ io' \in IoRecord /\ io'.master = io.master /\ io'.dead = io.dead /\ io'.watch = io.watch
          /\ io'.unread = io.unread /\ io'.got = io.got
          /\ io'.rd["tty"] = "over"
          /\ \A r \in AllStreams \ {"tty"} : io'.rd[r] = io.rd[r]
      BY <2>4, <1>0 DEF IoRecord, Closing
    <3>2. ~ws.cut /\ ~child.background /\ mode = "terminal" => Drained("tty")
      <4> SUFFICES ASSUME ~ws.cut, ~child.background, mode = "terminal" PROVE Drained("tty")
        OBVIOUS
      <4>1. CASE ~io.master
        BY <4>1 DEF OutputInv, DrainInv
      <4>2. CASE HungUp /\ ~Readable("tty")
        BY <1>0, <2>2, <4>2, HungUpEmpty DEF Drained, Readable
      <4> QED
        BY <2>4, <4>1, <4>2
    <3> QED
      BY <1>0, <2>1, <2>2, <3>1, <3>2, ReaderFrame
  <2> QED
    BY <1>1, <2>3, <2>4 DEF Poll
<1>2. CASE PollAgain
  <2>1. UNCHANGED <<mode, ex, child, ws, client>> /\ io.rd["tty"] = "in"
    BY <1>2 DEF PollAgain
  <2>2. io.got["tty"] = 0
    BY <1>0, <2>1 DEF OutputInv, Flow
  <2>3. /\ io' \in IoRecord /\ io'.master = io.master /\ io'.dead = io.dead /\ io'.watch = io.watch
        /\ io'.unread = io.unread /\ io'.got = io.got
        /\ io'.rd["tty"] \in {"over", "read"}
        /\ \A r \in AllStreams \ {"tty"} : io'.rd[r] = io.rd[r]
        /\ io'.chan = io.chan \/ BackgroundOnly
    BY <1>2, <1>0 DEF PollAgain, IoRecord, Closing
  <2>4. BackgroundOnly => child.background
    BY HeldOpen DEF BackgroundOnly
  <2> QED
    BY <1>0, <2>1, <2>2, <2>3, <2>4, ReaderFrame
<1>3. CASE WatchNotes \/ WatchPolls
  <2>1. UNCHANGED <<mode, ex, child, ws, client>> /\ io.watch = "poll"
    BY <1>3 DEF WatchNotes, WatchPolls
  <2>3. /\ io' \in IoRecord /\ io'.master = io.master
        /\ io'.unread = io.unread /\ io'.got = io.got /\ io'.rd = io.rd
        /\ io'.chan = io.chan \/ ~HungUp
    BY <1>3, <1>0 DEF WatchNotes, WatchPolls, IoRecord, Closing
  <2>4. ~HungUp => child.background
    BY <2>1, HeldOpen
  <2>5. io.got["tty"] > 0 => io.rd["tty"] = "send"
    BY <1>0 DEF OutputInv, Flow
  <2> QED
    BY <1>0, <2>1, <2>3, <2>4, <2>5, ReaderFrame
<1>4. ASSUME NEW s \in Streams, Read(s) PROVE OutputInv'
  <2>1. UNCHANGED <<mode, ex, child, ws, client>> /\ io.rd[s] = "read" /\ s \in AllStreams
    BY <1>4 DEF Read
  <2>2. io.got[s] = 0
    BY <2>1 DEF OutputInv, Flow
  <2>3. /\ io' \in IoRecord /\ io'.master = io.master /\ io'.dead = io.dead /\ io'.watch = io.watch
        /\ io'.chan = io.chan
        /\ \A r \in AllStreams \ {s} : /\ io'.unread[r] = io.unread[r] /\ io'.got[r] = io.got[r]
                                       /\ io'.rd[r] = io.rd[r]
    <3> DEFINE n == io.unread[s]
    <3>1. n \in 0 .. MaxOutput /\ 0 \in 0 .. MaxOutput
      BY <2>1
    <3>2. io' = IF io.master
             THEN [io EXCEPT !.rd[s] = "send", !.got[s] = n, !.unread[s] = 0,
                             !.noise = IF s = "tty" THEN FALSE ELSE @]
             ELSE [io EXCEPT !.rd[s] = "poll"]
      BY <1>4 DEF Read
    <3> HIDE DEF n
    <3> QED
      BY <2>1, <3>1, <3>2 DEF IoRecord, Amounts
  <2>4. \/ io'.rd[s] = "send" /\ io'.got[s] = io.unread[s] /\ io'.unread[s] = 0
        \/ io'.rd[s] = "poll" /\ io'.got[s] = io.got[s] /\ io'.unread[s] = io.unread[s]
    BY <1>4, <2>1 DEF Read, IoRecord, Amounts
  <2>5. io'.unread[s] + io'.got[s] = io.unread[s] + io.got[s]
    BY <2>1, <2>2, <2>4
  <2>6. io'.got[s] > 0 => io'.rd[s] = "send"
    BY <2>2, <2>4
  <2>7. io'.rd[s] # "hup" /\ io'.rd[s] # "none" /\ io.rd[s] # "none"
    BY <2>1, <2>4
  <2> QED
    BY <2>1, <2>3, <2>5, <2>6, <2>7, ReaderFrame
<1>5. ASSUME NEW s \in Streams, PollPipe(s) PROVE OutputInv'
  <2>1. UNCHANGED <<mode, ex, child, ws, client>> /\ io.rd[s] = "poll" /\ s \in AllStreams
    BY <1>5 DEF PollPipe
  <2>2. io.got[s] = 0
    BY <2>1 DEF OutputInv, Flow
  <2>3. /\ io' \in IoRecord /\ io'.master = io.master /\ io'.dead = io.dead /\ io'.watch = io.watch
        /\ io'.chan = io.chan /\ io'.unread = io.unread /\ io'.got = io.got
        /\ \A r \in AllStreams \ {s} : io'.rd[r] = io.rd[r]
        /\ io'.rd[s] # "none"
        /\ io'.rd[s] = "hup" => HungUp /\ ~Readable(s)
    BY <1>5, <2>1 DEF PollPipe, IoRecord
  <2>4. ~ws.cut /\ ~child.background /\ io'.rd[s] = "hup" => Drained(s)
    BY <2>1, <2>2, <2>3, HungUpEmpty DEF Drained, Readable
  <2> QED
    BY <2>1, <2>2, <2>3, <2>4, ReaderFrame
<1> QED
  BY <1>1, <1>2, <1>3, <1>4, <1>5 DEF TerminalStep

---------------------------------------------------------------------------

\* A step that moves no data leaves the account of it as it was.
LEMMA FlowFrame ==
    ASSUME OutputInv, mode' = mode, child'.left = child.left, io'.unread = io.unread,
           io'.got = io.got, ws'.sent = ws.sent, ws.cut => ws'.cut,
           \A s \in AllStreams : io.got[s] > 0 => io'.rd[s] = "send"
    PROVE  /\ Streams' = Streams /\ DataFds' = DataFds
           /\ \A s \in AllStreams : Flow(s)' /\ (Drained(s)' <=> Drained(s))
<1>1. Streams' = Streams /\ DataFds' = DataFds
  BY DEF Streams, DataFds
<1>2. \A s \in AllStreams : Drained(s)' <=> Drained(s)
  BY DEF Drained
<1>3. ASSUME NEW s \in AllStreams PROVE Flow(s)'
  <2>1. Flow(s)
    BY DEF OutputInv
  <2> QED
    BY <1>1, <2>1 DEF Flow
<1> QED
  BY <1>1, <1>2, <1>3

\* The start of the command, its end, and the end of Do.
LEMMA RunInv ==
    ASSUME OutputInv, Run
    PROVE  OutputInv'
<1> USE ExecTyped
<1>1. /\ ex.do = "exec" /\ UNCHANGED <<mode, client>>
      /\ io' \in IoRecord /\ io'.master = io.master /\ io'.dead = io.dead /\ io'.chan = io.chan
      /\ io'.unread = io.unread /\ io'.got = io.got /\ io'.watch # "poll"
      /\ \A s \in AllStreams : io'.rd[s] # "hup"
      /\ ws' \in WsRecord /\ ws'.open = ws.open /\ ws'.over = ws.over /\ ws'.ended = ws.ended
      /\ ws'.sent = ws.sent /\ ws'.cut = ws.cut
  BY DEF Run, IoRecord, WsRecord
<1>2. /\ ex' \in ExRecord /\ ex'.control = ex.control /\ ex'.data = ex.data
      /\ child' \in ChildRecord /\ child'.left = child.left /\ child'.background = child.background
      /\ child'.holds = child.holds
      /\ \/ ex'.do \in {"born", "wait"} /\ child'.state = "running"
         \/ ex'.do = "failed" /\ child'.state = child.state
  BY DEF Run, ExRecord, ChildRecord
<1>3. DoInv /\ EndInv /\ DrainInv /\ (\A s \in AllStreams : Flow(s)) /\ ExecTypes
  BY DEF OutputInv
<1>4. \A s \in AllStreams : ~(io.got[s] > 0)
  BY <1>1, <1>3 DEF DoInv, Flow
<1>5. /\ Streams' = Streams /\ DataFds' = DataFds
      /\ \A s \in AllStreams : Flow(s)' /\ (Drained(s)' <=> Drained(s))
  BY <1>1, <1>2, <1>4, FlowFrame
<1>6. ExecTypes'
  BY <1>1, <1>2, <1>3 DEF ExecTypes
<1>7. DoInv'
  BY <1>1, <1>2, <1>3, <1>5 DEF DoInv
<1>8. EndInv'
  BY <1>1, <1>3, <1>5 DEF EndInv
<1>9. DrainInv'
  <2>1. ws.ended \subseteq AllStreams /\ "tty" \in AllStreams
    BY DEF WsRecord, AllStreams
  <2>2. child.state # "exited" /\ child'.state # "exited"
    BY <1>1, <1>2, <1>3 DEF DoInv
  <2> QED
    BY <1>1, <1>2, <1>3, <1>5, <2>1, <2>2 DEF DrainInv
<1> QED
  BY <1>5, <1>6, <1>7, <1>8, <1>9 DEF OutputInv

\* The end of Do.
LEMMA ReturnInv ==
    ASSUME OutputInv, TellDead \/ Return
    PROVE  OutputInv'
<1> USE ExecTyped
<1>1. /\ UNCHANGED <<mode, child, ws, client>>
      /\ ex' \in ExRecord /\ ex'.control = ex.control /\ ex'.data = ex.data
      /\ io' \in IoRecord /\ io'.dead = io.dead /\ io'.chan = io.chan
      /\ io'.unread = io.unread /\ io'.got = io.got /\ io'.rd = io.rd
      /\ \/ ex.do = "dead" /\ ex'.do = "eof" /\ io'.master = io.master
         \/ /\ ex.do = "eof" /\ ex'.do = "returned" /\ io'.master = FALSE /\ ws.over = Streams
            /\ io'.watch = io.watch
  BY DEF TellDead, Return, AtEOF, ExRecord, IoRecord
<1>2. DoInv /\ EndInv /\ DrainInv /\ (\A s \in AllStreams : Flow(s)) /\ ExecTypes
  BY DEF OutputInv
<1>3. /\ Streams' = Streams /\ DataFds' = DataFds
      /\ \A s \in AllStreams : Flow(s)' /\ (Drained(s)' <=> Drained(s))
  BY <1>1, <1>2, FlowFrame DEF Flow
<1>4. ExecTypes'
  BY <1>1, <1>2 DEF ExecTypes
<1>5. DoInv'
  BY <1>1, <1>2, <1>3 DEF DoInv
<1>6. EndInv'
  BY <1>1, <1>2, <1>3 DEF EndInv
<1>7. DrainInv'
  <2>1. ws.ended \subseteq AllStreams /\ "tty" \in AllStreams
    BY DEF WsRecord, AllStreams
  <2>2. ~ws.cut /\ ~child.background /\ mode = "terminal" /\ ws.over = Streams => Drained("tty")
    BY <1>2 DEF DrainInv, EndInv
  <2> QED
    BY <1>1, <1>2, <1>3, <2>1, <2>2 DEF DrainInv
<1> QED
  BY <1>3, <1>4, <1>5, <1>6, <1>7 DEF OutputInv

\* The command ends: it is killed when its connection is cut, or has written all
\* it had to, or has lost its terminal.
LEMMA EndsInv ==
    ASSUME OutputInv, ControlEnds \/ Exit
    PROVE  OutputInv'
<1> USE ExecTyped
<1>1. /\ UNCHANGED <<mode, io, ws, client>>
      /\ ex' \in ExRecord /\ ex'.control = ex.control /\ ex'.data = ex.data /\ ex'.do = ex.do
      /\ child' \in ChildRecord /\ child'.left = child.left
      /\ \/ child' = child
         \/ /\ child.state = "running" /\ child'.state = "exited" /\ ex.control = "dropped"
            /\ child'.background = child.background /\ child'.holds = child.holds
         \/ /\ child.state = "running" /\ child'.state = "exited" /\ child'.holds = child'.background
            /\ child.left = None \/ ~io.master
  BY DEF ControlEnds, Exit, Kills, ExRecord, ChildRecord
<1>2. DoInv /\ EndInv /\ DrainInv /\ (\A s \in AllStreams : Flow(s)) /\ ExecTypes
  BY DEF OutputInv
<1>3. /\ Streams' = Streams /\ DataFds' = DataFds
      /\ \A s \in AllStreams : Flow(s)' /\ (Drained(s)' <=> Drained(s))
  BY <1>1, <1>2, FlowFrame DEF Flow
<1>4. ExecTypes'
  BY <1>1, <1>2 DEF ExecTypes
<1>5. DoInv'
  BY <1>1, <1>2, <1>3 DEF DoInv
<1>6. EndInv'
  BY <1>1, <1>2, <1>3 DEF EndInv
<1>7. DrainInv'
  <2>1. ws.ended \subseteq AllStreams /\ "tty" \in AllStreams
    BY DEF WsRecord, AllStreams
  <2>2. CASE child' = child
    BY <1>1, <1>2, <1>3, <2>1, <2>2 DEF DrainInv
  <2>3. CASE child.state = "running" /\ child'.state = "exited" /\ ~ws.cut
    <3>1. ~child.background
      BY <1>2, <2>3 DEF DoInv
    <3>2. ex.control = "dropped" => \A s \in Streams : child.left[s] = 0
      BY <1>2, <2>3, <3>1 DEF DoInv, EndInv, DrainInv, Drained
    <3>3. child.left = None => \A s \in Streams : child.left[s] = 0
      BY DEF None
    <3>4. ~io.master => \A s \in Streams : child.left[s] = 0
      BY <1>2, <2>3, <3>1 DEF DoInv, DrainInv, Drained
    <3>5. \A s \in Streams : child'.left[s] = 0
      BY <1>1, <2>3, <3>2, <3>3, <3>4
    <3> QED
      BY <1>1, <1>2, <1>3, <2>1, <3>1, <3>5 DEF DrainInv
  <2>4. CASE ws.cut
    BY <1>1, <2>4 DEF DrainInv
  <2> QED
    BY <1>1, <2>2, <2>3, <2>4
<1> QED
  BY <1>3, <1>4, <1>5, <1>6, <1>7 DEF OutputInv

\* The process left behind.
LEMMA BackgroundInv ==
    ASSUME OutputInv, Background
    PROVE  OutputInv'
<1> USE ExecTyped
<1>1. /\ UNCHANGED <<mode, ex, ws, client>>
      /\ child' \in ChildRecord /\ child'.left = child.left /\ child'.state = child.state
      /\ child'.background = child.background /\ (child'.holds => child.holds)
      /\ io' \in IoRecord /\ io'.dead = io.dead /\ io'.chan = io.chan /\ io'.master = io.master
      /\ io'.unread = io.unread /\ io'.got = io.got /\ io'.rd = io.rd /\ io'.watch = io.watch
  BY DEF Background, ChildRecord, IoRecord
<1>2. DoInv /\ EndInv /\ DrainInv /\ (\A s \in AllStreams : Flow(s)) /\ ExecTypes
  BY DEF OutputInv
<1>3. /\ Streams' = Streams /\ DataFds' = DataFds
      /\ \A s \in AllStreams : Flow(s)' /\ (Drained(s)' <=> Drained(s))
  BY <1>1, <1>2, FlowFrame DEF Flow
<1>4. ExecTypes'
  BY <1>1, <1>2 DEF ExecTypes
<1>5. DoInv'
  BY <1>1, <1>2, <1>3 DEF DoInv
<1>6. EndInv'
  BY <1>1, <1>2, <1>3 DEF EndInv
<1>7. DrainInv'
  <2>1. ws.ended \subseteq AllStreams /\ "tty" \in AllStreams
    BY DEF WsRecord, AllStreams
  <2> QED
    BY <1>1, <1>2, <1>3, <2>1 DEF DrainInv
<1> QED
  BY <1>3, <1>4, <1>5, <1>6, <1>7 DEF OutputInv

---------------------------------------------------------------------------

\* The end of a stream is announced.
LEMMA SendEndInv ==
    ASSUME OutputInv, NEW s \in Streams, SendEnd(s)
    PROVE  OutputInv'
<1> USE ExecTyped
<1>1. /\ UNCHANGED <<mode, ex, child, client>> /\ s \notin ws.over /\ s \in AllStreams
      /\ \/ s = "tty" /\ io.chan = "closed"
         \/ s # "tty" /\ io.rd[s] = "hup"
      /\ ws' \in WsRecord /\ ws'.open = ws.open /\ ws'.over = ws.over \cup {s}
      /\ ws'.ended = ws.ended \cup {s} /\ ws'.sent = ws.sent /\ ws'.cut = ws.cut
      /\ io' \in IoRecord /\ io'.dead = io.dead /\ io'.chan = io.chan
      /\ io'.master = (io.master /\ s # "tty")
      /\ io'.unread = io.unread /\ io'.got = io.got /\ io'.rd = io.rd /\ io'.watch = io.watch
  <2>1. /\ UNCHANGED <<mode, ex, child, client>> /\ s \notin ws.over /\ s \in AllStreams
        /\ \/ s = "tty" /\ io.chan = "closed"
           \/ s # "tty" /\ io.rd[s] = "hup"
        /\ ws' = [ws EXCEPT !.over = @ \cup {s}, !.ended = @ \cup {s}]
        /\ io' = [io EXCEPT !.master = (@ /\ s # "tty")]
    BY DEF SendEnd
  <2>2. /\ ws' \in WsRecord /\ ws'.open = ws.open /\ ws'.over = ws.over \cup {s}
        /\ ws'.ended = ws.ended \cup {s} /\ ws'.sent = ws.sent /\ ws'.cut = ws.cut
    BY <2>1 DEF WsRecord
  <2>3. /\ io' \in IoRecord /\ io'.dead = io.dead /\ io'.chan = io.chan
        /\ io'.master = (io.master /\ s # "tty")
        /\ io'.unread = io.unread /\ io'.got = io.got /\ io'.rd = io.rd /\ io'.watch = io.watch
    BY <2>1 DEF IoRecord
  <2> QED
    BY <2>1, <2>2, <2>3
<1>2. DoInv /\ EndInv /\ DrainInv /\ (\A r \in AllStreams : Flow(r)) /\ ExecTypes
  BY DEF OutputInv
<1>3. /\ Streams' = Streams /\ DataFds' = DataFds
      /\ \A r \in AllStreams : Flow(r)' /\ (Drained(r)' <=> Drained(r))
  BY <1>1, <1>2, FlowFrame DEF Flow
<1>4. ExecTypes'
  BY <1>1, <1>2 DEF ExecTypes
<1>5. DoInv'
  BY <1>1, <1>2, <1>3 DEF DoInv
<1>6. EndInv'
  BY <1>1, <1>2, <1>3 DEF EndInv
<1>7. DrainInv'
  <2>1. ws.ended \subseteq AllStreams /\ "tty" \in AllStreams
    BY DEF WsRecord, AllStreams
  <2>2. s = "tty" <=> mode = "terminal"
    OBVIOUS
  <2>3. ~ws.cut /\ ~child.background => Drained(s)
    BY <1>1, <1>2, <2>2 DEF DrainInv
  <2> QED
    BY <1>1, <1>2, <1>3, <2>1, <2>2, <2>3 DEF DrainInv
<1> QED
  BY <1>3, <1>4, <1>5, <1>6, <1>7 DEF OutputInv

\* The input ends, and the connections of the client do.
LEMMA ClosingInv ==
    ASSUME OutputInv, InputEnds \/ DataDone \/ ClientExits \/ ClientGone
    PROVE  OutputInv'
<1> USE ExecTyped
<1>1. /\ UNCHANGED <<mode, child>>
      /\ ex' \in ExRecord /\ ex'.data = ex.data /\ ex'.do = ex.do
      /\ ws' \in WsRecord /\ ws'.over = ws.over /\ ws'.ended = ws.ended /\ ws'.sent = ws.sent
      /\ io' \in IoRecord /\ io'.dead = io.dead /\ io'.chan = io.chan
      /\ io'.unread = io.unread /\ io'.got = io.got /\ io'.rd = io.rd /\ io'.watch = io.watch
  BY DEF InputEnds, DataDone, ClientExits, ClientGone, ExRecord, WsRecord, IoRecord
<1>2. \/ /\ UNCHANGED <<ex, client>> /\ ws'.open = ws.open
         /\ ws'.cut = (ws.cut \/ (ws.open /\ mode = "terminal"))
         /\ io'.master = (io.master /\ mode # "terminal")
      \/ /\ UNCHANGED <<ex, io, client>> /\ ws'.open = FALSE /\ ws'.cut = ws.cut
         /\ Streams \subseteq ws.ended
      \/ /\ UNCHANGED io /\ ws'.open = FALSE /\ ws'.cut = (ws.cut \/ ws.open)
         /\ client' = "exited"
         /\ ex'.control = ex.control \/ (ex.control = "stored" /\ ex'.control = "dropped")
      \/ /\ UNCHANGED io /\ ws'.open = FALSE /\ ws'.cut = TRUE
         /\ client' = "gone"
         /\ ex'.control = ex.control \/ (ex.control = "stored" /\ ex'.control = "dropped")
  <2>1. CASE InputEnds
    BY <2>1 DEF InputEnds, WsRecord, IoRecord
  <2>2. CASE DataDone
    BY <2>2 DEF DataDone, WsRecord
  <2>3. CASE ClientExits
    BY <2>3 DEF ClientExits, WsRecord, ExRecord
  <2>4. CASE ClientGone
    BY <2>4 DEF ClientGone, WsRecord, ExRecord
  <2> QED
    BY <2>1, <2>2, <2>3, <2>4
<1>3. DoInv /\ EndInv /\ DrainInv /\ (\A r \in AllStreams : Flow(r)) /\ ExecTypes
  BY DEF OutputInv
<1>4. ws.cut => ws'.cut
  BY <1>2
<1>5. /\ Streams' = Streams /\ DataFds' = DataFds
      /\ \A r \in AllStreams : Flow(r)' /\ (Drained(r)' <=> Drained(r))
  BY <1>1, <1>3, <1>4, FlowFrame DEF Flow
<1>6. ExecTypes'
  BY <1>1, <1>2, <1>3 DEF ExecTypes
<1>7. DoInv'
  <2>1. /\ mode # "terminal" => ex'.control = "none" /\ (io'.master \/ ex'.do = "returned")
        /\ ex'.control = "dropped" => ~ws'.open
        /\ client' = "gone" => ws'.cut /\ ~ws'.open
    BY <1>1, <1>2, <1>3 DEF DoInv
  <2> QED
    BY <1>1, <1>3, <1>5, <2>1 DEF DoInv
<1>8. EndInv'
  BY <1>1, <1>2, <1>3, <1>5 DEF EndInv
<1>9. DrainInv'
  <2>1. ws.ended \subseteq AllStreams /\ "tty" \in AllStreams
    BY DEF WsRecord, AllStreams
  <2>2. ~ws'.cut /\ mode = "terminal" /\ ~io'.master => ~io.master \/ "tty" \in ws.ended
    BY <1>2, <1>3 DEF EndInv
  <2> QED
    BY <1>1, <1>3, <1>4, <1>5, <2>1, <2>2 DEF DrainInv
<1> QED
  BY <1>5, <1>6, <1>7, <1>8, <1>9 DEF OutputInv

---------------------------------------------------------------------------
(* The steps that move data                                                 *)

\* The command writes.
LEMMA WriteInv ==
    ASSUME OutputInv, NEW s \in Streams, Write(s)
    PROVE  OutputInv'
<1> USE ExecTyped
<1> DEFINE l == child.left[s] - 1
           u == io.unread[s] + 1
<1>1. /\ UNCHANGED <<mode, ex, ws, client>> /\ s \in AllStreams
      /\ child.state = "running" /\ child.left[s] > 0 /\ io.master
      /\ child' = [child EXCEPT !.left[s] = l] /\ io' = [io EXCEPT !.unread[s] = u]
  BY DEF Write
<1>2. DoInv /\ EndInv /\ DrainInv /\ (\A r \in AllStreams : Flow(r)) /\ ExecTypes
  BY DEF OutputInv
<1>3. /\ l \in 0 .. MaxOutput /\ u \in 0 .. MaxOutput
      /\ l + u + io.got[s] + ws.sent[s] = child.left[s] + io.unread[s] + io.got[s] + ws.sent[s]
  <2> DEFINE a == child.left[s]  b == io.unread[s]  g == io.got[s]  v == ws.sent[s]
  <2>1. /\ a \in Nat /\ b \in Nat /\ g \in Nat /\ v \in Nat /\ MaxOutput \in Nat
        /\ a \in 0 .. MaxOutput /\ a > 0
    BY <1>1
  <2>2. a + b + g + v <= MaxOutput
    BY <1>1, <1>2 DEF Flow
  <2> HIDE DEF a, b, g, v
  <2>3. /\ a - 1 \in 0 .. MaxOutput /\ b + 1 \in 0 .. MaxOutput
        /\ (a - 1) + (b + 1) + g + v = a + b + g + v
    BY <2>1, <2>2
  <2> QED
    BY <2>3 DEF a, b, g, v
<1> HIDE DEF l, u
<1>4. /\ child' \in ChildRecord /\ child'.state = child.state /\ child'.background = child.background
      /\ child'.holds = child.holds /\ child'.left[s] = l
      /\ \A r \in AllStreams \ {s} : child'.left[r] = child.left[r]
  BY <1>1, <1>3 DEF ChildRecord, Amounts
<1>5. /\ io' \in IoRecord /\ io'.dead = io.dead /\ io'.chan = io.chan /\ io'.master = io.master
      /\ io'.got = io.got /\ io'.rd = io.rd /\ io'.watch = io.watch /\ io'.unread[s] = u
      /\ \A r \in AllStreams \ {s} : io'.unread[r] = io.unread[r]
  BY <1>1, <1>3 DEF IoRecord, Amounts
<1>6. Streams' = Streams /\ DataFds' = DataFds
  BY <1>1 DEF Streams, DataFds
<1>7. ASSUME NEW r \in AllStreams PROVE Flow(r)'
  <2>1. child'.left[r] + io'.unread[r] + io'.got[r] + ws'.sent[r]
           = child.left[r] + io.unread[r] + io.got[r] + ws.sent[r]
    <3>1. CASE r = s
      BY <1>1, <1>3, <1>4, <1>5, <3>1
    <3>2. CASE r # s
      BY <1>1, <1>4, <1>5, <3>2
    <3> QED
      BY <3>1, <3>2
  <2>2. Flow(r)
    BY <1>2
  <2>3. /\ child'.left[r] + io'.unread[r] + io'.got[r] + ws'.sent[r] <= MaxOutput
        /\ r \in Streams /\ ~ws.cut =>
              child'.left[r] + io'.unread[r] + io'.got[r] + ws'.sent[r] = MaxOutput
    BY <2>1, <2>2 DEF Flow
  <2>4. r \notin Streams => child'.left[r] = 0
    BY <1>4, <2>2 DEF Flow
  <2>5. io'.got[r] > 0 => io'.rd[r] = "send"
    BY <1>5, <2>2 DEF Flow
  <2> QED
    BY <1>1, <1>6, <2>3, <2>4, <2>5 DEF Flow
<1>8. ExecTypes'
  BY <1>1, <1>2, <1>4, <1>5 DEF ExecTypes
<1>9. DoInv'
  BY <1>1, <1>2, <1>4, <1>5, <1>6 DEF DoInv
<1>10. EndInv'
  BY <1>1, <1>2, <1>6 DEF EndInv
<1>11. DrainInv'
  <2>1. ws.ended \subseteq AllStreams /\ "tty" \in AllStreams
    BY DEF WsRecord, AllStreams
  <2>2. \A r \in AllStreams : r # s => (Drained(r)' <=> Drained(r))
    BY <1>1, <1>4, <1>5 DEF Drained
  <2>3. ~Drained(s)
    BY <1>1 DEF Drained
  <2>4. mode = "terminal" => s = "tty"
    OBVIOUS
  <2> QED
    BY <1>1, <1>2, <1>4, <1>5, <1>6, <2>1, <2>2, <2>3, <2>4 DEF DrainInv
<1> QED
  BY <1>7, <1>8, <1>9, <1>10, <1>11 DEF OutputInv

\* A mirror sends what its reader has in hand, or gives up.
LEMMA SendInv ==
    ASSUME OutputInv, NEW s \in Streams, Send(s)
    PROVE  OutputInv'
<1> USE ExecTyped
<1>1. UNCHANGED <<mode, ex, child, client>> /\ s \in AllStreams /\ io.rd[s] = "send"
  BY DEF Send
<1>2. DoInv /\ EndInv /\ DrainInv /\ (\A r \in AllStreams : Flow(r)) /\ ExecTypes
  BY DEF OutputInv
<1>3. Streams' = Streams /\ DataFds' = DataFds
  BY <1>1 DEF Streams, DataFds
<1>4. ws.ended \subseteq AllStreams /\ "tty" \in AllStreams /\ (mode = "terminal" => s = "tty")
  BY DEF WsRecord, AllStreams
<1>5. CASE s = "tty" /\ io.chan = "closed" /\ io' = [io EXCEPT !.chan = "panic"] /\ UNCHANGED ws
  <2>1. /\ io' \in IoRecord /\ io'.dead = io.dead /\ io'.master = io.master
        /\ io'.got = io.got /\ io'.rd = io.rd /\ io'.watch = io.watch /\ io'.unread = io.unread
    BY <1>5 DEF IoRecord
  <2>2. \A r \in AllStreams : Flow(r)' /\ (Drained(r)' <=> Drained(r))
    BY <1>1, <1>2, <1>5, <2>1, FlowFrame DEF Flow
  <2>3. ExecTypes' /\ DoInv' /\ EndInv'
    BY <1>1, <1>2, <1>3, <1>5, <2>1 DEF ExecTypes, DoInv, EndInv
  <2>4. DrainInv'
    BY <1>1, <1>2, <1>3, <1>4, <1>5, <2>1, <2>2 DEF DrainInv
  <2> QED
    BY <2>2, <2>3, <2>4 DEF OutputInv
<1>6. CASE /\ s \notin ws.over /\ io.chan = "open" /\ ws.open
           /\ io' = [io EXCEPT !.rd[s] = "poll", !.got[s] = 0]
           /\ ws' = [ws EXCEPT !.sent[s] = @ + io.got[s]]
  <2> DEFINE v == ws.sent[s] + io.got[s]
  <2>1. /\ v \in 0 .. MaxOutput /\ 0 \in 0 .. MaxOutput
        /\ child.left[s] + io.unread[s] + 0 + v
             = child.left[s] + io.unread[s] + io.got[s] + ws.sent[s]
    <3> DEFINE a == child.left[s]  b == io.unread[s]  g == io.got[s]  w == ws.sent[s]
    <3>1. a \in Nat /\ b \in Nat /\ g \in Nat /\ w \in Nat /\ MaxOutput \in Nat
      BY <1>1
    <3>2. a + b + g + w <= MaxOutput
      BY <1>1, <1>2 DEF Flow
    <3> HIDE DEF a, b, g, w
    <3>3. w + g \in 0 .. MaxOutput /\ a + b + 0 + (w + g) = a + b + g + w
      BY <3>1, <3>2
    <3> QED
      BY <3>1, <3>3 DEF a, b, g, w
  <2>2. ws' = [ws EXCEPT !.sent[s] = v]
    BY <1>6
  <2> HIDE DEF v
  <2>3. /\ ws' \in WsRecord /\ ws'.open = ws.open /\ ws'.over = ws.over /\ ws'.ended = ws.ended
        /\ ws'.cut = ws.cut /\ ws'.sent[s] = v
        /\ \A r \in AllStreams \ {s} : ws'.sent[r] = ws.sent[r]
    BY <1>1, <2>1, <2>2 DEF WsRecord, Amounts
  <2>4. /\ io' \in IoRecord /\ io'.dead = io.dead /\ io'.master = io.master /\ io'.chan = io.chan
        /\ io'.watch = io.watch /\ io'.unread = io.unread
        /\ io'.got[s] = 0 /\ io'.rd[s] = "poll"
        /\ \A r \in AllStreams \ {s} : io'.got[r] = io.got[r] /\ io'.rd[r] = io.rd[r]
    BY <1>1, <1>6, <2>1 DEF IoRecord, Amounts
  <2>5. ASSUME NEW r \in AllStreams PROVE Flow(r)' /\ (Drained(r) => Drained(r)')
    <3>1. child'.left[r] + io'.unread[r] + io'.got[r] + ws'.sent[r]
             = child.left[r] + io.unread[r] + io.got[r] + ws.sent[r]
      <4>1. CASE r = s
        BY <1>1, <2>1, <2>3, <2>4, <4>1
      <4>2. CASE r # s
        BY <1>1, <2>3, <2>4, <4>2
      <4> QED
        BY <4>1, <4>2
    <3>2. Flow(r)
      BY <1>2
    <3>3. /\ child'.left[r] + io'.unread[r] + io'.got[r] + ws'.sent[r] <= MaxOutput
          /\ r \in Streams /\ ~ws.cut =>
                child'.left[r] + io'.unread[r] + io'.got[r] + ws'.sent[r] = MaxOutput
      BY <3>1, <3>2 DEF Flow
    <3>4. r \notin Streams => child'.left[r] = 0
      BY <1>1, <3>2 DEF Flow
    <3>5. io'.got[r] > 0 => io'.rd[r] = "send"
      BY <2>4, <3>2 DEF Flow
    <3>6. Drained(r) => Drained(r)'
      BY <1>1, <2>4 DEF Drained
    <3>7. Flow(r)'
      BY <1>1, <1>3, <2>3, <3>3, <3>4, <3>5 DEF Flow
    <3> QED
      BY <3>6, <3>7
  <2>6. ExecTypes' /\ EndInv'
    BY <1>1, <1>2, <1>3, <2>3, <2>4 DEF ExecTypes, EndInv
  <2>7. DoInv'
    BY <1>1, <1>2, <1>3, <2>3, <2>4 DEF DoInv
  <2>8. DrainInv'
    BY <1>1, <1>2, <1>3, <1>4, <2>3, <2>4, <2>5 DEF DrainInv
  <2> QED
    BY <2>5, <2>6, <2>7, <2>8 DEF OutputInv
<1>7. CASE /\ s \notin ws.over /\ io.chan = "open" /\ ~ws.open
           /\ io' = [io EXCEPT !.rd[s] = "poll", !.got[s] = 0, !.master = (@ /\ s # "tty")]
           /\ ws' = [ws EXCEPT !.over = @ \cup {s}]
  <2>1. ws.cut
    BY <1>2, <1>7 DEF EndInv
  <2>2. /\ ws' \in WsRecord /\ ws'.open = ws.open /\ ws'.over = ws.over \cup {s}
        /\ ws'.ended = ws.ended /\ ws'.cut = ws.cut /\ ws'.sent = ws.sent
    BY <1>1, <1>7 DEF WsRecord
  <2>3. /\ io'.dead = io.dead /\ io'.master = (io.master /\ s # "tty") /\ io'.chan = io.chan
        /\ io'.watch = io.watch /\ io'.unread = io.unread
        /\ io'.got[s] = 0 /\ io'.rd[s] = "poll"
        /\ \A r \in AllStreams \ {s} : io'.got[r] = io.got[r] /\ io'.rd[r] = io.rd[r]
    BY <1>1, <1>7 DEF IoRecord, Amounts
  <2>4. io' \in IoRecord
    <3>1. 0 \in 0 .. MaxOutput /\ (io.master /\ s # "tty") \in BOOLEAN
      OBVIOUS
    <3> QED
      BY <1>1, <1>7, <3>1 DEF IoRecord, Amounts
  <2>5. ASSUME NEW r \in AllStreams PROVE Flow(r)'
    <3>1. Flow(r)
      BY <1>2
    <3>2. io'.got[r] <= io.got[r] /\ io'.got[r] \in Nat
      BY <2>3
    <3>3. child'.left[r] + io'.unread[r] + io'.got[r] + ws'.sent[r] <= MaxOutput
      <4> DEFINE a == child.left[r]  b == io.unread[r]  g == io.got[r]  w == ws.sent[r]  h == io'.got[r]
      <4>1. a \in Nat /\ b \in Nat /\ g \in Nat /\ w \in Nat /\ h \in Nat /\ MaxOutput \in Nat /\ h <= g
        BY <3>2
      <4>2. a + b + g + w <= MaxOutput
        BY <3>1 DEF Flow
      <4>3. child'.left[r] = a /\ io'.unread[r] = b /\ ws'.sent[r] = w
        BY <1>1, <2>2, <2>3
      <4> HIDE DEF a, b, g, w
      <4>4. a + b + h + w <= MaxOutput
        <5> HIDE DEF h
        <5> QED
          BY <4>1, <4>2
      <4> QED
        BY <4>3, <4>4
    <3>4. r \notin Streams => child'.left[r] = 0
      BY <1>1, <3>1 DEF Flow
    <3>5. io'.got[r] > 0 => io'.rd[r] = "send"
      BY <2>3, <3>1 DEF Flow
    <3> QED
      BY <1>3, <2>1, <2>2, <3>3, <3>4, <3>5 DEF Flow
  <2>6. ExecTypes' /\ EndInv'
    BY <1>1, <1>2, <1>3, <2>1, <2>2, <2>4 DEF ExecTypes, EndInv
  <2>7. DoInv'
    BY <1>1, <1>2, <1>3, <1>7, <2>1, <2>2, <2>3 DEF DoInv
  <2>8. DrainInv'
    BY <2>1, <2>2 DEF DrainInv
  <2> QED
    BY <2>5, <2>6, <2>7, <2>8 DEF OutputInv
<1> QED
  BY <1>5, <1>6, <1>7 DEF Send

---------------------------------------------------------------------------

\* OutputInv holds before the client connects.
LEMMA OutputInit == Init => OutputInv
<1> SUFFICES ASSUME Init PROVE OutputInv
  OBVIOUS
<1> USE ExecAssumption DEF ExecAssumption
<1>0. Streams \subseteq AllStreams
  BY DEF Streams, AllStreams
<1>1. None \in Amounts /\ [s \in AllStreams |-> IF s \in Streams THEN MaxOutput ELSE 0] \in Amounts
  BY DEF None, Amounts
<1>2. ExecTypes
  BY <1>1 DEF Init, ExecTypes, ExRecord, ChildRecord, IoRecord, WsRecord
<1>3. DoInv
  BY DEF Init, DoInv, DataFds
<1>4. EndInv /\ DrainInv
  BY <1>0 DEF Init, EndInv, DrainInv
<1>5. ASSUME NEW s \in AllStreams PROVE Flow(s)
  <2>1. /\ io.unread[s] = 0 /\ io.got[s] = 0 /\ ws.sent[s] = 0
        /\ child.left[s] = (IF s \in Streams THEN MaxOutput ELSE 0)
    BY DEF Init, None
  <2> QED
    BY <2>1 DEF Flow
<1> QED
  BY <1>2, <1>3, <1>4, <1>5 DEF OutputInv

\* Every step keeps OutputInv; the steps of the client's event connection leave
\* the exec alone.
LEMMA OutputNext == OutputInv /\ [Next]_vars => OutputInv'
<1> SUFFICES ASSUME OutputInv, [Next]_vars PROVE OutputInv'
  OBVIOUS
<1>1. CASE UNCHANGED execVars
  <2>1. UNCHANGED <<mode, child, io, ws, client, ex>>
    BY <1>1 DEF execVars
  <2>2. ex' \in ExRecord /\ DoInv'
    BY <2>1 DEF OutputInv, ExecTypes, DoInv, DataFds, Streams
  <2> QED
    BY <2>1, <2>2, DoFrame
<1>2. CASE ExecStep
  <2>1. CASE ConnectControl \/ (\E fd \in DataFds : Connect(fd))
    BY <2>1, DoSteps
  <2>2. CASE DoStep
    BY <2>2, DoSteps, RunInv, ReturnInv DEF DoStep
  <2>3. CASE ControlStep
    BY <2>3, DoSteps, EndsInv DEF ControlStep
  <2>4. CASE Exit \/ Background
    BY <2>4, EndsInv, BackgroundInv
  <2>5. CASE TerminalStep
    BY <2>5, ReaderSteps
  <2>6. CASE \E s \in Streams : Write(s) \/ StreamStep(s)
    BY <2>6, ReaderSteps, WriteInv, SendInv, SendEndInv DEF StreamStep
  <2>7. CASE InputEnds \/ DataDone \/ ClientExits \/ ClientGone
    BY <2>7, ClosingInv
  <2> QED
    BY <1>2, <2>1, <2>2, <2>3, <2>4, <2>5, <2>6, <2>7 DEF ExecStep
<1> QED
  BY <1>1, <1>2 DEF Next, EventStep, vars

\* The inductive invariant of the exec: what the command wrote is unread, in a
\* reader's hand or sent, and a stream that has ended is drained.
THEOREM OutputInvariant == Spec => []OutputInv
<1> QED
  BY OutputInit, OutputNext, PTL DEF Spec

\* When Do of container_exec.go returns, what the command wrote to its terminal
\* or its pipes has been sent to its client, however much that is and however the
\* command, the readers, the mirrors and the client take turns: unless the client
\* went or closed its input, or the command left a process with its files.
THEOREM ExecSound == Spec => []ExecInv
<1>1. ClientInv /\ OutputInv => ExecInv
  <2> SUFFICES ASSUME ClientInv, OutputInv PROVE ExecInv
    OBVIOUS
  <2>1. TypeOK
    BY DEF ClientInv, OutputInv, ExecTypes, ExRecord, ChildRecord, IoRecord, WsRecord, TypeOK
  <2>2. OutputDelivered
    <3> SUFFICES ASSUME ex.do = "returned", ~ws.cut, ~child.background, NEW s \in Streams
                 PROVE  ws.sent[s] = MaxOutput
      BY DEF OutputDelivered, Complete
    <3>1. s \in AllStreams /\ ws.sent[s] \in Nat /\ Drained(s)
      BY ExecTyped DEF OutputInv, DoInv, EndInv, DrainInv
    <3>2. child.left[s] + io.unread[s] + io.got[s] + ws.sent[s] = MaxOutput
      BY <3>1 DEF OutputInv, Flow
    <3> QED
      BY <3>1, <3>2 DEF Drained
  <2> QED
    BY <2>1, <2>2 DEF ExecInv
<1> QED
  BY <1>1, ClientInvariant, OutputInvariant, PTL

===========================================================================
