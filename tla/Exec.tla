------------------------------- MODULE Exec -------------------------------
(***************************************************************************)
(* A command run in a container with lxc exec, from the websockets of its  *)
(* operation to the exit of the client: execWs of lxd/container_exec.go,   *)
(* the mirrors of shared/network.go and shared/network_linux.go, the       *)
(* terminal reader ExecReaderToChannel of shared/util_linux.go, and the    *)
(* client's ExecContainer and execCmd.run.  The exec is the operation      *)
(* Session; its client relies on what Wait promises, which ClientEvents    *)
(* states and the mode without an exec checks: an answer once the          *)
(* operation is over, or an error when the event connection is lost.       *)
(*                                                                         *)
(* An interactive exec has one terminal, another one two pipes for its     *)
(* output (and one for its input, which nothing waits for).  A secret is   *)
(* used once: lxc exec connects each websocket once.  The terminal's       *)
(* window size is left out.                                                *)
(***************************************************************************)
EXTENDS ClientEvents

CONSTANTS
    Session,   \* the operation of the exec
    MaxOutput  \* bound: what the command writes to each of its streams

ASSUME ExecAssumption == Session \in Ops /\ MaxOutput \in Nat

AllStreams == {"tty", "stdout", "stderr"}

VARIABLES
    mode,   \* "terminal", "pipes", or "none": no exec, Session is any operation
    ex,     \* execWs.  control: the control websocket; signal: controlConnected
            \* holds a value; data: data websockets connected; do: where Do is;
            \* ctl: the goroutine of the control websocket
    child,  \* the command: its state, what it has still to write to each stream,
            \* and whether a process it left behind holds its files
    io,     \* the terminal or pipes.  unread: written by the command and unread;
            \* noise: written by the process left behind; master: the daemon's end
            \* of the terminal is open; rd, got: the reader of each stream and what
            \* it has in hand; watch, dead: the goroutine that waits for the
            \* command's death and what it noted; chan: the reader's channel
    ws,     \* the data websockets.  open; over: mirrors of streams that are done;
            \* ended: streams whose end was announced; sent: what was sent;
            \* input: the goroutine that writes the client's input
    client  \* "here", "gone" without a word, "exited" when lxc exec returns

execVars == <<mode, ex, child, io, ws, client>>
vars == <<clientVars, execVars>>

Streams == IF mode = "terminal" THEN {"tty"} ELSE {"stdout", "stderr"}
DataFds == IF mode = "terminal" THEN {"tty"} ELSE {"stdin", "stdout", "stderr"}
Amounts == [AllStreams -> 0 .. MaxOutput]
None    == [s \in AllStreams |-> 0]

\* Every variable has its type.
TypeOK ==
    /\ ClientTypeOK
    /\ mode \in {"terminal", "pipes", "none"}
    /\ ex \in [control : {"none", "upgraded", "stored", "closed", "dropped"},
               signal : BOOLEAN, data : SUBSET {"tty", "stdin", "stdout", "stderr"},
               do : {"connect", "exec", "born", "wait", "finish", "exit", "dead", "eof",
                     "returned", "failed"},
               ctl : {"none", "born", "select", "read", "over"}]
    /\ child \in [state : {"none", "running", "exited"}, left : Amounts,
                  background : BOOLEAN, holds : BOOLEAN]
    /\ io \in [unread : Amounts, noise : BOOLEAN, master : BOOLEAN, got : Amounts,
               rd : [AllStreams -> {"none", "poll", "in", "hup", "read", "send", "over"}],
               watch : {"none", "wait", "poll", "over"}, dead : BOOLEAN,
               chan : {"open", "closed", "panic"}]
    /\ ws \in [open : BOOLEAN, over : SUBSET AllStreams, ended : SUBSET AllStreams,
               sent : Amounts, input : {"none", "open", "over"}, cut : BOOLEAN]
    /\ client \in {"here", "gone", "exited"}

Init ==
    /\ ClientInit
    /\ mode \in {"terminal", "pipes", "none"}
    /\ ex = [control |-> "none", signal |-> FALSE, data |-> {}, do |-> "connect",
             ctl |-> "none"]
    /\ child = [state |-> "none", background |-> FALSE, holds |-> FALSE,
                left |-> [s \in AllStreams |-> IF s \in Streams THEN MaxOutput ELSE 0]]
    /\ io = [unread |-> None, noise |-> FALSE, master |-> TRUE, got |-> None,
             rd |-> [s \in AllStreams |-> "none"], watch |-> "none", dead |-> FALSE,
             chan |-> "open"]
    /\ ws = [open |-> TRUE, over |-> {}, ended |-> {}, sent |-> None, input |-> "none",
             cut |-> FALSE]
    /\ client = "here"

--------------------------------------------------------------------------
(* The client connects: the control websocket first, if at all, then the   *)
(* others.                                                                 *)

\* The daemon answers the upgrade before it stores the connection.
ConnectControl ==
    /\ mode = "terminal" /\ ex.control = "none" /\ ex.data = {} /\ client = "here"
    /\ ex' = [ex EXCEPT !.control = "upgraded"]
    /\ UNCHANGED <<clientVars, mode, child, io, ws, client>>

StoreControl ==
    /\ ex.control = "upgraded"
    /\ ex' = [ex EXCEPT !.control = IF client = "gone" THEN "dropped" ELSE "stored",
                        !.signal = TRUE]
    /\ UNCHANGED <<clientVars, mode, child, io, ws, client>>

\* allConnected is sent when the last data websocket is there.
Connect(fd) ==
    /\ mode # "none" /\ client = "here" /\ fd \in DataFds \ ex.data
    /\ ex' = [ex EXCEPT !.data = @ \cup {fd},
                        !.do = IF ex.data \cup {fd} = DataFds THEN "exec" ELSE @]
    /\ UNCHANGED <<clientVars, mode, child, io, ws, client>>

--------------------------------------------------------------------------
(* Do.                                                                      *)

\* The goroutines start, and then the command, which may fail to.
Run ==
    /\ ex.do = "exec"
    /\ io' = [io EXCEPT !.rd = [s \in AllStreams |-> IF s \in Streams THEN "poll" ELSE "none"],
                        !.watch = IF mode = "terminal" THEN "wait" ELSE "none"]
    /\ ws' = [ws EXCEPT !.input = "open"]
    /\ \/ /\ child' = [child EXCEPT !.state = "running"]
          /\ ex' = [ex EXCEPT !.do = IF mode = "terminal" THEN "born" ELSE "wait",
                              !.ctl = IF mode = "terminal" THEN "born" ELSE "none"]
          /\ UNCHANGED clientVars
       \/ /\ ex' = [ex EXCEPT !.do = "failed",
                              !.ctl = IF mode = "terminal" THEN "born" ELSE "none"]
          /\ Finish(Session, "Failure") /\ UNCHANGED child
    /\ UNCHANGED <<mode, client>>

\* attachedChildIsBorn is received by the goroutine of the control websocket.
Born ==
    /\ ex.do = "born" /\ ex.ctl = "born"
    /\ ex' = [ex EXCEPT !.do = "wait", !.ctl = "select"]
    /\ UNCHANGED <<clientVars, mode, child, io, ws, client>>

\* cmd.Wait returns, and the finisher closes the daemon's copies of the command's
\* files.
Waited ==
    /\ ex.do = "wait" /\ child.state = "exited"
    /\ ex' = [ex EXCEPT !.do = "finish"]
    /\ UNCHANGED <<clientVars, mode, child, io, ws, client>>

\* It closes the control websocket; if there is none, it tells the goroutine.
Finisher ==
    /\ ex.do = "finish"
    /\ ex' = IF ex.control \in {"none", "upgraded"}
             THEN [ex EXCEPT !.do = IF mode = "terminal" THEN "exit" ELSE "dead"]
             ELSE [ex EXCEPT !.do = "dead",
                             !.control = IF @ = "stored" THEN "closed" ELSE @]
    /\ UNCHANGED <<clientVars, mode, child, io, ws, client>>

\* controlExit is received only by a goroutine that is still in its select.
ControlExit ==
    /\ ex.do = "exit" /\ ex.ctl = "select"
    /\ ex' = [ex EXCEPT !.do = "dead", !.ctl = "over"]
    /\ UNCHANGED <<clientVars, mode, child, io, ws, client>>

\* attachedChildIsDead.
TellDead ==
    /\ ex.do = "dead"
    /\ ex' = [ex EXCEPT !.do = "eof"]
    /\ io' = [io EXCEPT !.watch = IF @ = "wait" THEN "poll" ELSE @]
    /\ UNCHANGED <<clientVars, mode, child, ws, client>>

\* wgEOF: both directions of the terminal's mirror are done, or both pipes are.
AtEOF == ws.over = Streams /\ (mode = "terminal" => ws.input = "over")

Return ==
    /\ ex.do = "eof" /\ AtEOF
    /\ ex' = [ex EXCEPT !.do = "returned"]
    /\ io' = [io EXCEPT !.master = FALSE]
    /\ Finish(Session, "Success")
    /\ UNCHANGED <<mode, child, ws, client>>

--------------------------------------------------------------------------
(* The goroutine of the control websocket: it ends with the connection, and *)
(* kills the command when that was cut.                                     *)

ControlTakes ==
    /\ ex.ctl = "select" /\ ex.signal
    /\ ex' = [ex EXCEPT !.ctl = "read", !.signal = FALSE]
    /\ UNCHANGED <<clientVars, mode, child, io, ws, client>>

\* Mutant: an abnormal closure is taken for a normal one.
KillsNever == FALSE

Kills == ex.control = "dropped"

ControlEnds ==
    /\ ex.ctl = "read" /\ ex.control \in {"closed", "dropped"}
    /\ ex' = [ex EXCEPT !.ctl = "over"]
    /\ child' = IF Kills /\ child.state = "running"
                THEN [child EXCEPT !.state = "exited"] ELSE child
    /\ UNCHANGED <<clientVars, mode, io, ws, client>>

--------------------------------------------------------------------------
(* The command, and a process it may leave behind.                         *)

Write(s) ==
    /\ child.state = "running" /\ child.left[s] > 0 /\ io.master
    /\ child' = [child EXCEPT !.left[s] = @ - 1]
    /\ io' = [io EXCEPT !.unread[s] = @ + 1]
    /\ UNCHANGED <<clientVars, mode, ex, ws, client>>

\* It has written everything, or its terminal was closed under it.
Exit ==
    /\ child.state = "running"
    /\ child.left = None \/ ~io.master
    /\ \E b \in BOOLEAN :
         child' = [child EXCEPT !.state = "exited", !.background = b, !.holds = b]
    /\ UNCHANGED <<clientVars, mode, ex, io, ws, client>>

Background ==
    /\ child.holds
    /\ \/ /\ mode = "terminal" /\ ~io.noise /\ io.master
          /\ io' = [io EXCEPT !.noise = TRUE] /\ UNCHANGED child
       \/ child' = [child EXCEPT !.holds = FALSE] /\ UNCHANGED io
    /\ UNCHANGED <<clientVars, mode, ex, ws, client>>

--------------------------------------------------------------------------
(* The readers.  A read takes all there is.                                *)

\* Every other process, and the finisher, has closed the stream.
HungUp == ex.do \in {"exit", "dead", "eof", "returned"} /\ ~child.holds
Readable(s) == io.unread[s] > 0 \/ (s = "tty" /\ io.noise)
Closing == IF io.chan = "open" THEN "closed" ELSE io.chan

\* ExecReaderToChannel: it polls until there is data, a hangup or a closed file.
\* Data together with a hangup is read at once.
Poll ==
    /\ io.rd["tty"] = "poll"
    /\ \/ /\ io.master /\ Readable("tty")
          /\ io' = [io EXCEPT !.rd["tty"] = IF HungUp THEN "read" ELSE "in"]
       \/ /\ ~io.master \/ (HungUp /\ ~Readable("tty"))
          /\ io' = [io EXCEPT !.rd["tty"] = "over", !.chan = Closing]
    /\ UNCHANGED <<clientVars, mode, ex, child, ws, client>>

\* Mutant: no second poll.
BackgroundAssumed == io.dead

\* Data without a hangup from a command that is dead was written by another
\* process.  A second poll excludes that the death came after the first.
BackgroundOnly == io.dead /\ ~HungUp

PollAgain ==
    /\ io.rd["tty"] = "in"
    /\ io' = IF BackgroundOnly
             THEN [io EXCEPT !.rd["tty"] = "over", !.chan = Closing]
             ELSE [io EXCEPT !.rd["tty"] = "read"]
    /\ UNCHANGED <<clientVars, mode, ex, child, ws, client>>

Read(s) ==
    /\ io.rd[s] = "read"
    /\ io' = IF io.master
             THEN [io EXCEPT !.rd[s] = "send", !.got[s] = io.unread[s], !.unread[s] = 0,
                             !.noise = IF s = "tty" THEN FALSE ELSE @]
             ELSE [io EXCEPT !.rd[s] = "poll"]
    /\ UNCHANGED <<clientVars, mode, ex, child, ws, client>>

\* ReaderToChannel: a pipe is read until its end.
PollPipe(s) ==
    /\ mode = "pipes" /\ io.rd[s] = "poll"
    /\ Readable(s) \/ HungUp
    /\ io' = [io EXCEPT !.rd[s] = IF Readable(s) THEN "read" ELSE "hup"]
    /\ UNCHANGED <<clientVars, mode, ex, child, ws, client>>

\* The goroutine that is told of the command's death notes it, and then closes
\* the channel if the terminal is silent and held open.
WatchNotes ==
    /\ io.watch = "poll" /\ ~io.dead
    /\ io' = [io EXCEPT !.dead = TRUE]
    /\ UNCHANGED <<clientVars, mode, ex, child, ws, client>>

WatchPolls ==
    /\ io.watch = "poll" /\ io.dead
    /\ io' = [io EXCEPT !.watch = "over",
                        !.chan = IF Readable("tty") \/ HungUp \/ ~io.master
                                 THEN @ ELSE Closing]
    /\ UNCHANGED <<clientVars, mode, ex, child, ws, client>>

--------------------------------------------------------------------------
(* The mirrors between the readers and the websockets.                     *)

\* A buffer is sent, or the write fails and the mirror gives up.  A send on the
\* channel that the other goroutine has closed is a panic.
Send(s) ==
    /\ io.rd[s] = "send"
    /\ \/ /\ s = "tty" /\ io.chan = "closed"
          /\ io' = [io EXCEPT !.chan = "panic"] /\ UNCHANGED ws
       \/ /\ s \notin ws.over /\ io.chan = "open" /\ ws.open
          /\ io' = [io EXCEPT !.rd[s] = "poll", !.got[s] = 0]
          /\ ws' = [ws EXCEPT !.sent[s] = @ + io.got[s]]
       \/ /\ s \notin ws.over /\ io.chan = "open" /\ ~ws.open
          /\ io' = [io EXCEPT !.rd[s] = "poll", !.got[s] = 0, !.master = (@ /\ s # "tty")]
          /\ ws' = [ws EXCEPT !.over = @ \cup {s}]
    /\ UNCHANGED <<clientVars, mode, ex, child, client>>

\* The end of a stream is announced; a terminal is closed before.
SendEnd(s) ==
    /\ s \notin ws.over
    /\ \/ s = "tty" /\ io.chan = "closed"
       \/ s # "tty" /\ io.rd[s] = "hup"
    /\ ws' = [ws EXCEPT !.over = @ \cup {s}, !.ended = @ \cup {s}]
    /\ io' = [io EXCEPT !.master = (@ /\ s # "tty")]
    /\ UNCHANGED <<clientVars, mode, ex, child, client>>

\* The client's input ends, or its connection: the terminal is closed.
InputEnds ==
    /\ ws.input = "open"
    /\ ~ws.open \/ client = "here"
    /\ ws' = [ws EXCEPT !.input = "over", !.cut = @ \/ (ws.open /\ mode = "terminal")]
    /\ io' = [io EXCEPT !.master = (@ /\ mode # "terminal")]
    /\ UNCHANGED <<clientVars, mode, ex, child, client>>

--------------------------------------------------------------------------
(* The client.                                                              *)

\* The end of every stream has been received: the connections are closed.
DataDone ==
    /\ client # "gone" /\ ws.open /\ Streams \subseteq ws.ended /\ mode # "none"
    /\ ws' = [ws EXCEPT !.open = FALSE]
    /\ UNCHANGED <<clientVars, mode, ex, child, io, client>>

\* lxc exec returns: with an error of Wait, or with the return code, after the
\* last output.
ClientExits ==
    /\ client = "here" /\ mode # "none" /\ ex.data = DataFds
    /\ \/ server[Session] = "Success" /\ ~ws.open /\ UNCHANGED clientVars
       \/ server[Session] = "Failure" /\ UNCHANGED clientVars
       \/ /\ Fault
          /\ UNCHANGED <<server, told, conn, wire, list, reader, lis, op, handlers, missed>>
    /\ client' = "exited"
    /\ ex' = [ex EXCEPT !.control = IF @ = "stored" THEN "dropped" ELSE @]
    /\ ws' = [ws EXCEPT !.open = FALSE, !.cut = @ \/ ws.open]
    /\ UNCHANGED <<mode, child, io>>

\* The client is killed, or its connections are cut.
ClientGone ==
    /\ client = "here" /\ mode # "none" /\ Fault
    /\ client' = "gone"
    /\ ex' = [ex EXCEPT !.control = IF @ = "stored" THEN "dropped" ELSE @]
    /\ ws' = [ws EXCEPT !.open = FALSE, !.cut = TRUE]
    /\ UNCHANGED <<mode, child, io, server, told, conn, wire, list, reader, lis, op,
                   handlers, missed>>

--------------------------------------------------------------------------
DoStep == Run \/ Born \/ Waited \/ Finisher \/ ControlExit \/ TellDead \/ Return
ControlStep == StoreControl \/ ControlTakes \/ ControlEnds
StreamStep(s) == Read(s) \/ PollPipe(s) \/ Send(s) \/ SendEnd(s)
TerminalStep == Poll \/ PollAgain \/ WatchNotes \/ WatchPolls

ExecStep ==
    \/ ConnectControl \/ (\E fd \in DataFds : Connect(fd))
    \/ DoStep \/ ControlStep \/ Exit \/ Background \/ TerminalStep
    \/ (\E s \in Streams : Write(s) \/ StreamStep(s))
    \/ InputEnds \/ DataDone \/ ClientExits \/ ClientGone

EventStep ==
    /\ mode = "none"
    /\ \/ ClientNext
       \/ ~ClientPanics /\ (\E o \in Ops, st \in Final : Finish(o, st))
    /\ UNCHANGED execVars

Alive == io.chan # "panic"
Next == (Alive /\ ExecStep) \/ EventStep

Running(A) == mode = "none" /\ ~ClientPanics /\ A /\ UNCHANGED execVars

\* The goroutines of the daemon and of the client run.  Nothing makes the command
\* end, the background process end or the client go.
Fairness ==
    /\ WF_vars(Alive /\ DoStep) /\ WF_vars(Alive /\ ControlStep)
    /\ \A s \in AllStreams : WF_vars(Alive /\ StreamStep(s))
    /\ WF_vars(Alive /\ (Poll \/ PollAgain)) /\ WF_vars(Alive /\ (WatchNotes \/ WatchPolls))
    /\ WF_vars(Alive /\ ~ws.open /\ InputEnds) /\ WF_vars(Alive /\ DataDone)
    /\ WF_vars(Alive /\ faults' = faults /\ ClientExits)
    /\ WF_vars(Running(eventsSocket)) /\ WF_vars(Running(ReaderStep))
    /\ \A o \in Ops : /\ WF_vars(Running(WaitStep(o))) /\ WF_vars(Running(HandlerStep(o)))
                     /\ WF_vars(Running(MonitorStep(o)))

Spec == Init /\ [][Next]_vars /\ Fairness

--------------------------------------------------------------------------
Complete == \A s \in Streams : ws.sent[s] = MaxOutput

\* When the return code of a command is reported, everything it wrote has been
\* sent to the client: the reader drains the terminal although the command is
\* dead, and Do waits for the mirrors (container_exec.go:283, util_linux.go:
\* 574-688).  The client must have stayed, with its input open, and the command
\* must have left no process that holds its files.
OutputDelivered ==
    (mode # "none" /\ ex.do = "returned" /\ client # "gone" /\ ~ws.cut /\ ~child.background)
        => Complete

\* The finisher waits for a control goroutine that has taken the connection
\* instead: the websocket was stored after the finisher had looked for it.
ControlRaced == ex.do = "exit" /\ ex.ctl # "select"

\* An exec whose command is dead returns, whatever becomes of its client, so that
\* its operation does not stay in the list for ever (container_exec.go:262-297).
ExecReturns ==
    (ex.do = "wait" /\ child.state = "exited" /\ ~child.background)
        ~> (ex.do = "returned" \/ ControlRaced)

\* A terminal whose control connection is cut does not stay behind with its
\* command: the command is killed (container_exec.go:166-177).
CutKills ==
    (ex.control = "dropped" /\ child.state = "running") ~> child.state = "exited"

\* All that a command wrote has reached its client when its return code does.
ExecInv == TypeOK /\ OutputDelivered

\* Nobody is left behind: an exec returns when its command is dead, a command
\* whose client is cut off dies, and a client's Wait returns.
EverybodyEnds == ExecReturns /\ CutKills /\ ClientWaitReturns
===========================================================================
