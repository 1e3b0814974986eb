--------------------------- MODULE ClientEvents ---------------------------
(***************************************************************************)
(* How a client of LXD learns that its operations are over: the event      *)
(* stream of the daemon (lxd/events.go), the listeners that share one      *)
(* connection of the client library (client/events.go,                     *)
(* client/lxd_events.go), and Operation.Wait (client/operations.go), which *)
(* opens a listener, refreshes once, and then sleeps until a handler sees  *)
(* a final status or a monitor sees the connection fail.                   *)
(*                                                                         *)
(* eventSend writes each event from a goroutine of its own and             *)
(* target.function runs in a goroutine per event, so that events arrive in *)
(* any order.  Each operation is waited for once, and so has one listener. *)
(* A goroutine's message read is one step with its distribution, which is  *)
(* under eventListenersLock.                                               *)
(***************************************************************************)
EXTENDS Naturals, FiniteSets

CONSTANTS
    Ops,        \* operations the client waits for
    MaxFaults,  \* bound: connections that fail and requests that are refused
    MaxProgress \* bound: operations that announce progress, once each

ASSUME ClientAssumption == MaxFaults \in Nat /\ MaxProgress \in Nat

Final == {"Success", "Failure"}
Statuses == {"Running"} \cup Final

VARIABLES
    server,    \* op.status in the daemon
    told,      \* operations whose progress has been announced once
    conn,      \* the connection to /1.0/events: its state, and whether the
               \* daemon has it in eventListeners
    wire,      \* events being written to it or unread in it
    list,      \* r.eventListeners: whether it is nil, and the listeners in it
    reader,    \* the goroutine of GetEvents
    lis,       \* the EventListener of each operation
    op,        \* the Operation of each operation
    handlers,  \* goroutines running the operation's event handler
    missed,    \* operations that ended while a waiting client was not registered
    faults

clientVars == <<server, told, conn, wire, list, reader, lis, op, handlers, missed, faults>>

ClientTypeOK ==
    /\ server \in [Ops -> Statuses] /\ told \subseteq Ops /\ missed \subseteq Ops
    /\ conn \in [state : {"none", "open", "broken"}, served : BOOLEAN]
    /\ wire \subseteq Ops \X Statuses /\ handlers \subseteq Ops \X Statuses
    /\ list \in [nil : BOOLEAN, of : SUBSET Ops]
    /\ reader \in {"none", "check", "read"}
    /\ lis \in [Ops -> [targets : BOOLEAN, down : BOOLEAN, err : BOOLEAN, closed : 0 .. 2]]
    /\ op \in [Ops -> [pc : {"start", "add", "refresh", "leave", "wait", "returned"},
                       lock : {"free", "setup", "handler"}, saw : BOOLEAN,
                       status : Statuses, err : {"none", "failure", "lost", "refused"},
                       listener : BOOLEAN, ready : BOOLEAN, closed : 0 .. 2,
                       monitor : {"none", "armed", "watch", "over"},
                       result : {"none", "ok", "error"}]]
    /\ faults \in 0 .. MaxFaults

ClientInit ==
    /\ server = [o \in Ops |-> "Running"] /\ told = {} /\ missed = {}
    /\ conn = [state |-> "none", served |-> FALSE]
    /\ wire = {} /\ handlers = {} /\ list = [nil |-> TRUE, of |-> {}] /\ reader = "none"
    /\ lis = [o \in Ops |-> [targets |-> FALSE, down |-> FALSE, err |-> FALSE, closed |-> 0]]
    /\ op = [o \in Ops |-> [pc |-> "start", lock |-> "free", saw |-> FALSE,
                            status |-> "Running", err |-> "none", listener |-> FALSE,
                            ready |-> FALSE, closed |-> 0, monitor |-> "none",
                            result |-> "none"]]
    /\ faults = 0

\* A channel closed twice is a panic: the client is gone.
ClientPanics == \E o \in Ops : lis[o].closed > 1 \/ op[o].closed > 1
Fault == faults < MaxFaults /\ faults' = faults + 1

ErrorOf(st) == IF st = "Failure" THEN "failure" ELSE "none"

--------------------------------------------------------------------------
(* The daemon: updateOp and done() announce an operation to every listener *)
(* that is registered at that moment.                                      *)

eventSend(o, st) ==
    /\ wire' = IF conn.served THEN wire \cup {<<o, st>>} ELSE wire
    /\ missed' = IF ~conn.served /\ st \in Final /\ op[o].pc = "wait"
                    /\ conn.state = "open"
                 THEN missed \cup {o} ELSE missed

\* A metadata update, once per operation.
Progress(o) ==
    /\ server[o] = "Running" /\ o \notin told /\ Cardinality(told) < MaxProgress
    /\ told' = told \cup {o}
    /\ eventSend(o, "Running")
    /\ UNCHANGED <<server, conn, list, reader, lis, op, handlers, faults>>

\* The operation ends.
Finish(o, st) ==
    /\ server[o] = "Running"
    /\ server' = [server EXCEPT ![o] = st]
    /\ eventSend(o, st)
    /\ UNCHANGED <<told, conn, list, reader, lis, op, handlers, faults>>

\* eventsSocket registers the connection after the upgrade has been answered.
eventsSocket ==
    /\ conn.state = "open" /\ ~conn.served
    /\ conn' = [conn EXCEPT !.served = TRUE]
    /\ UNCHANGED <<server, told, wire, list, reader, lis, op, handlers, missed, faults>>

\* The connection fails.  A write that fails takes the listener off the daemon's
\* map; what was on its way is lost.
Break ==
    /\ conn.state = "open" /\ Fault
    /\ conn' = [state |-> "broken", served |-> FALSE] /\ wire' = {}
    /\ UNCHANGED <<server, told, list, reader, lis, op, handlers, missed>>

--------------------------------------------------------------------------
(* The goroutine that serves the client's listeners.                       *)

\* Nobody listens any more: it closes the connection.
ReaderChecks ==
    /\ reader = "check"
    /\ IF list.of = {}
       THEN /\ reader' = "none" /\ list' = [list EXCEPT !.nil = TRUE] /\ wire' = {}
            /\ conn' = [state |-> "none", served |-> FALSE]
       ELSE reader' = "read" /\ UNCHANGED <<list, wire, conn>>
    /\ UNCHANGED <<server, told, lis, op, handlers, missed, faults>>

\* A message goes to the handler of the listener it is about: the others drop it.
ReaderDistributes ==
    /\ reader = "read" /\ conn.state = "open"
    /\ \E m \in wire :
         /\ wire' = wire \ {m}
         /\ handlers' = IF m[1] \in list.of /\ lis[m[1]].targets
                        THEN handlers \cup {m} ELSE handlers
    /\ reader' = "check"
    /\ UNCHANGED <<server, told, conn, list, lis, op, missed, faults>>

\* The list is left empty, not nil: GetEvents takes it for one that is served.
ReaderFails ==
    /\ reader = "read" /\ conn.state = "broken"
    /\ lis' = [o \in Ops |-> IF o \in list.of
                             THEN [lis[o] EXCEPT !.err = TRUE, !.down = TRUE,
                                                 !.closed = @ + 1]
                             ELSE lis[o]]
    /\ list' = [list EXCEPT !.of = {}]
    /\ reader' = "none"
    /\ UNCHANGED <<server, told, conn, wire, op, handlers, missed, faults>>

\* Disconnect, from the test of e.disconnected (saw) on.
Disconnected(o) ==
    IF op[o].saw
    THEN UNCHANGED <<list, lis>>
    ELSE /\ list' = [list EXCEPT !.of = @ \ {o}]
         /\ lis' = [lis EXCEPT ![o].err = FALSE, ![o].down = TRUE, ![o].closed = @ + 1]

--------------------------------------------------------------------------
(* Operation.Wait and setupListener, which holds handlerLock.              *)

\* The call fails before it has a listener, or the operation is over already.
GetEvents(o) ==
    /\ op[o].pc = "start" /\ op[o].lock = "free"
    /\ \/ /\ ~list.nil
          /\ list' = [list EXCEPT !.of = @ \cup {o}]
          /\ op' = [op EXCEPT ![o].pc = "add", ![o].lock = "setup", ![o].listener = TRUE]
          /\ UNCHANGED <<conn, reader, faults>>
       \/ /\ list.nil /\ conn.state = "none"
          /\ list' = [nil |-> FALSE, of |-> {o}]
          /\ conn' = [state |-> "open", served |-> FALSE] /\ reader' = "check"
          /\ op' = [op EXCEPT ![o].pc = "add", ![o].lock = "setup", ![o].listener = TRUE]
          /\ UNCHANGED faults
       \/ /\ list.nil /\ Fault
          /\ list' = [nil |-> FALSE, of |-> {}]
          /\ op' = [op EXCEPT ![o].pc = "returned", ![o].result = "error",
                              ![o].err = "refused"]
          /\ UNCHANGED <<conn, reader>>
    /\ UNCHANGED <<server, told, wire, lis, handlers, missed>>

\* The event handler and the goroutine that monitors the listener.
AddHandler(o) ==
    /\ op[o].pc = "add"
    /\ lis' = [lis EXCEPT ![o].targets = TRUE]
    /\ op' = [op EXCEPT ![o].pc = "refresh", ![o].monitor = "armed"]
    /\ UNCHANGED <<server, told, conn, wire, list, reader, handlers, missed, faults>>

\* GetOperation answers, or fails; the operation may also have been forgotten
\* by the daemon, five seconds after its end.
Refresh(o) ==
    /\ op[o].pc = "refresh"
    /\ \/ /\ server[o] \in Final
          /\ op' = [op EXCEPT ![o].pc = "leave", ![o].saw = lis[o].down,
                              ![o].status = server[o], ![o].err = ErrorOf(server[o])]
          /\ UNCHANGED faults
       \/ /\ server[o] = "Running"
          /\ op' = [op EXCEPT ![o].pc = "wait", ![o].lock = "free", ![o].ready = TRUE]
          /\ UNCHANGED faults
       \/ /\ Fault
          /\ op' = [op EXCEPT ![o].pc = "leave", ![o].saw = lis[o].down,
                              ![o].err = "refused"]
    /\ UNCHANGED <<server, told, conn, wire, list, reader, lis, handlers, missed>>

\* Nothing to wait for: the listener goes, and Wait returns.
Leave(o) ==
    /\ op[o].pc = "leave"
    /\ Disconnected(o)
    /\ op' = [op EXCEPT ![o].pc = "returned", ![o].lock = "free", ![o].ready = TRUE,
                        ![o].listener = FALSE, ![o].closed = @ + 1,
                        ![o].result = IF op[o].err = "none" THEN "ok" ELSE "error"]
    /\ UNCHANGED <<server, told, conn, wire, reader, handlers, missed, faults>>

\* op.chActive is closed: Wait reads op.Err, without the lock.
Wake(o) ==
    /\ op[o].pc = "wait" /\ op[o].closed > 0
    /\ op' = [op EXCEPT ![o].pc = "returned",
                        ![o].result = IF op[o].err = "none" THEN "ok" ELSE "error"]
    /\ UNCHANGED <<server, told, conn, wire, list, reader, lis, handlers, missed, faults>>

--------------------------------------------------------------------------
(* The handler of setupListener and the monitor.                           *)

\* Mutant: the handler does not look whether another event has ended the wait.
RelevantAlways(o) == TRUE

\* An event that comes after the final one finds no listener and is dropped.
Relevant(o) == op[o].listener

Handle(o, st) ==
    /\ <<o, st>> \in handlers /\ op[o].ready /\ op[o].lock = "free"
    /\ handlers' = handlers \ {<<o, st>>}
    /\ \/ ~Relevant(o) /\ UNCHANGED op
       \/ /\ Relevant(o)
          /\ op' = [op EXCEPT ![o].status = st, ![o].err = ErrorOf(st),
                              ![o].lock = IF st \in Final THEN "handler" ELSE "free",
                              ![o].saw = lis[o].down]
    /\ UNCHANGED <<server, told, conn, wire, list, reader, lis, missed, faults>>

\* The final event: Disconnect, and chActive is closed.
HandleFinal(o) ==
    /\ op[o].lock = "handler"
    /\ Disconnected(o)
    /\ op' = [op EXCEPT ![o].lock = "free", ![o].listener = FALSE, ![o].closed = @ + 1]
    /\ UNCHANGED <<server, told, conn, wire, reader, handlers, missed, faults>>

MonitorStarts(o) ==
    /\ op[o].monitor = "armed" /\ op[o].ready /\ op[o].lock = "free"
    /\ op' = [op EXCEPT ![o].monitor = IF op[o].listener THEN "watch" ELSE "over"]
    /\ UNCHANGED <<server, told, conn, wire, list, reader, lis, handlers, missed, faults>>

\* The connection has failed, or the operation is over.
MonitorWakes(o) ==
    /\ op[o].monitor = "watch"
    /\ \/ /\ lis[o].closed > 0 /\ op[o].lock = "free"
          /\ op' = [op EXCEPT ![o].monitor = "over",
                              ![o].err = IF op[o].listener THEN "lost" ELSE @,
                              ![o].closed = IF op[o].listener THEN @ + 1 ELSE @]
       \/ /\ op[o].closed > 0
          /\ op' = [op EXCEPT ![o].monitor = "over"]
    /\ UNCHANGED <<server, told, conn, wire, list, reader, lis, handlers, missed, faults>>

--------------------------------------------------------------------------
ReaderStep == ReaderChecks \/ ReaderDistributes \/ ReaderFails
WaitStep(o) == GetEvents(o) \/ AddHandler(o) \/ Refresh(o) \/ Leave(o) \/ Wake(o)
HandlerStep(o) == HandleFinal(o) \/ \E st \in Statuses : Handle(o, st)
MonitorStep(o) == MonitorStarts(o) \/ MonitorWakes(o)

\* All of this ends when the client panics.
ClientNext ==
    /\ ~ClientPanics
    /\ \/ eventsSocket \/ Break \/ ReaderStep
       \/ \E o \in Ops : Progress(o) \/ WaitStep(o) \/ HandlerStep(o) \/ MonitorStep(o)

--------------------------------------------------------------------------
\* A listener added to a list that no goroutine serves: the connection failed
\* (client/lxd_events.go:61-74) or was refused (36-42), and the list was left
\* empty instead of nil.
Stranded(o) == o \in list.of /\ reader = "none"

\* While the event connection works, Wait reports what became of the operation:
\* success only of one that has succeeded, and an error only of one that has
\* failed or of which the daemon could not be asked, whatever order the events
\* come in (client/operations.go:139-165).
WaitTellsOutcome ==
    \A o \in Ops :
        (op[o].pc = "returned" /\ ~lis[o].err) =>
            \/ op[o].result = "ok" /\ server[o] = "Success"
            \/ op[o].result = "error" /\ (server[o] = "Failure" \/ op[o].err = "refused")

\* A sleeping Wait has someone to wake it: once its operation is over, an event,
\* a handler or the monitor is on its way, or the connection is failing.  The
\* exceptions are the two windows in which events are lost for good.
ClientHasWaker ==
    \A o \in Ops :
        (op[o].pc = "wait" /\ server[o] \in Final /\ ~ClientPanics) =>
            \/ o \in missed \/ Stranded(o)
            \/ <<o, server[o]>> \in wire \cup handlers
            \/ op[o].closed > 0 \/ op[o].lock = "handler"
            \/ lis[o].closed > 0 /\ op[o].monitor \in {"armed", "watch"}
            \/ conn.state = "broken" /\ reader # "none"

\* Every Wait returns once its operation is over, but for the same exceptions.
ClientWaitReturns ==
    \A o \in Ops : (op[o].pc = "wait" /\ server[o] \in Final) ~>
        (op[o].pc = "returned" \/ o \in missed \/ Stranded(o) \/ ClientPanics)

\* Wait tells the real outcome, and one that sleeps has somebody to wake it.
WaitSound == WaitTellsOutcome /\ ClientHasWaker
===========================================================================
