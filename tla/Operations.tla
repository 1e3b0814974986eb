---------------------------- MODULE Operations ----------------------------
(***************************************************************************)
(* The background operations of lxd/operations.go: the operations map, the *)
(* life of one operation from operationCreate to its removal, the          *)
(* goroutine that runs its hook, and the API calls that cancel it, connect *)
(* to it and wait for it.                                                  *)
(*                                                                         *)
(* Fields are written under op.lock but read without it, and done() checks *)
(* op.readonly before it takes the lock, so every read is a step of its    *)
(* own.  No caller of operationCreate passes an onCancel hook; that branch *)
(* of Cancel is left out.                                                  *)
(***************************************************************************)
EXTENDS Naturals

CONSTANTS
    Tasks,       \* operations of class task whose hook downloads an image
    Sockets,     \* operations of class websocket
    Tokens,      \* operations of class token: no Run hook
    Cancellers,  \* callers of Cancel: DELETE on the operation, or imageValidSecret
    Connectors,  \* clients connecting to a websocket operation
    Waiters,     \* clients of /wait without a timeout
    NoOperation, \* the nil *operation
    MaxUpdates   \* bound: metadata updates of one operation

Ops == Tasks \cup Sockets \cup Tokens

ASSUME OperationsAssumption ==
    /\ Tasks \cap Tokens = {} /\ Tasks \cap Sockets = {} /\ Sockets \cap Tokens = {}
    /\ NoOperation \notin Ops
    /\ MaxUpdates \in Nat

Final    == {"Success", "Failure", "Cancelled"}
Statuses == {"none", "Pending", "Running", "Cancelling"} \cup Final

VARIABLES
    listed,    \* the operations map
    status,    \* op.status; "none" before operationCreate
    readonly,  \* op.readonly: the hooks are gone
    closed,    \* chanDone is closed
    transfer,  \* the download of a task: "none" before, "on", "cut" or "over"
    updates,   \* how often op.metadata has been replaced
    used,      \* tokens presented to imageValidSecret
    runner,    \* where the goroutine of Run is
    canc,      \* where each caller of Cancel is, and in which operation
    conn,      \* where each caller of Connect is, and in which operation
    wait,      \* where each waiter is, in which operation, what it was told
    panic      \* the panic that ended the daemon, if any

opVars == <<listed, status, readonly, closed, transfer, updates, used>>
vars == <<opVars, runner, canc, conn, wait, panic>>

\* The model ends at the first panic.  One in a goroutine of the daemon ends the
\* daemon; one in a request handler leaves op.lock locked.
Alive == panic = "none"
DonePcs == {"done", "close"}

\* Every variable has its type.
TypeOK ==
    /\ listed \subseteq Ops /\ readonly \subseteq Ops /\ closed \subseteq Ops
    /\ used \subseteq Tokens
    /\ status \in [Ops -> Statuses]
    /\ transfer \in [Ops -> {"none", "on", "cut", "over"}]
    /\ updates \in [Ops -> 0 .. MaxUpdates]
    /\ runner \in [Ops -> {"none", "body", "update", "over"} \cup DonePcs]
    /\ canc \in [Cancellers -> [pc : {"idle", "mark", "cut", "finish"} \cup DonePcs,
                                op : Ops \cup {NoOperation}]]
    /\ conn \in [Connectors -> [pc : {"idle", "call"}, op : Ops \cup {NoOperation}]]
    /\ wait \in [Waiters -> [pc : {"idle", "wait", "render", "told"},
                             op : Ops \cup {NoOperation}, saw : Statuses]]
    /\ panic \in {"none", "close of closed channel", "nil hook"}

Init ==
    /\ listed = {} /\ readonly = {} /\ closed = {} /\ used = {}
    /\ status = [o \in Ops |-> "none"]
    /\ transfer = [o \in Ops |-> "none"]
    /\ updates = [o \in Ops |-> 0]
    /\ runner = [o \in Ops |-> "none"]
    /\ canc = [t \in Cancellers |-> [pc |-> "idle", op |-> NoOperation]]
    /\ conn = [t \in Connectors |-> [pc |-> "idle", op |-> NoOperation]]
    /\ wait = [t \in Waiters |-> [pc |-> "idle", op |-> NoOperation, saw |-> "none"]]
    /\ panic = "none"

---------------------------------------------------------------------------
(* Creation, Run and the goroutine it starts                               *)

operationCreate(o) ==
    /\ Alive /\ status[o] = "none"
    /\ status' = [status EXCEPT ![o] = "Pending"]
    /\ listed' = listed \cup {o}
    /\ UNCHANGED <<readonly, closed, transfer, updates, used, runner, canc, conn, wait, panic>>

\* Run sets Running and starts the hook's goroutine; tokens have no hook.
Run(o) ==
    /\ Alive /\ status[o] = "Pending"
    /\ status' = [status EXCEPT ![o] = "Running"]
    /\ runner' = [runner EXCEPT ![o] = IF o \in Tokens THEN "over" ELSE "body"]
    /\ UNCHANGED <<listed, readonly, closed, transfer, updates, used, canc, conn, wait, panic>>

\* The hook of a task starts or finishes a download that can be cancelled.
Download(o) ==
    /\ Alive /\ runner[o] = "body" /\ o \in Tasks
    /\ \/ transfer[o] = "none" /\ transfer' = [transfer EXCEPT ![o] = "on"]
       \/ transfer[o] = "on" /\ transfer' = [transfer EXCEPT ![o] = "over"]
    /\ UNCHANGED <<listed, status, readonly, closed, updates, used, runner, canc, conn, wait, panic>>

\* UpdateMetadata and UpdateResources: the checks, then the write.
UpdateCheck(o) ==
    /\ Alive /\ runner[o] = "body"
    /\ status[o] \in {"Pending", "Running"} /\ o \notin readonly
    /\ updates[o] < MaxUpdates
    /\ runner' = [runner EXCEPT ![o] = "update"]
    /\ UNCHANGED <<opVars, canc, conn, wait, panic>>

UpdateWrite(o) ==
    /\ Alive /\ runner[o] = "update"
    /\ updates' = [updates EXCEPT ![o] = @ + 1]
    /\ runner' = [runner EXCEPT ![o] = "body"]
    /\ UNCHANGED <<listed, status, readonly, closed, transfer, used, canc, conn, wait, panic>>

\* The hook returns; a download that was cut makes it fail.
RunReturn(o) ==
    /\ Alive /\ runner[o] = "body" /\ transfer[o] # "on"
    /\ \E s \in {"Success", "Failure"} :
          /\ transfer[o] = "cut" => s = "Failure"
          /\ status' = [status EXCEPT ![o] = s]
    /\ runner' = [runner EXCEPT ![o] = "done"]
    /\ UNCHANGED <<listed, readonly, closed, transfer, updates, used, canc, conn, wait, panic>>

\* done() of the hook that failed, forgotten.
RunDoneSkipped(o) ==
    /\ Alive /\ runner[o] = "done"
    /\ runner' = [runner EXCEPT ![o] = IF o \in readonly \/ status[o] = "Failure"
                                       THEN "over" ELSE "close"]
    /\ UNCHANGED <<opVars, canc, conn, wait, panic>>

\* done(): the check of op.readonly outside the lock ...
RunDone(o) ==
    /\ Alive /\ runner[o] = "done"
    /\ runner' = [runner EXCEPT ![o] = IF o \in readonly THEN "over" ELSE "close"]
    /\ UNCHANGED <<opVars, canc, conn, wait, panic>>

\* ... and the part under the lock, which closes chanDone once more if another
\* done() came in between.
CloseChanDone(o) ==
    /\ readonly' = readonly \cup {o}
    /\ closed' = closed \cup {o}
    /\ panic' = IF o \in closed THEN "close of closed channel" ELSE panic
    /\ UNCHANGED <<listed, status, transfer, updates, used, conn, wait>>

RunClose(o) ==
    /\ Alive /\ runner[o] = "close"
    /\ CloseChanDone(o)
    /\ runner' = [runner EXCEPT ![o] = "over"]
    /\ UNCHANGED canc

\* The removal from the map, 5 seconds after done().
Forget(o) ==
    /\ Alive /\ o \in listed /\ o \in closed
    /\ listed' = listed \ {o}
    /\ UNCHANGED <<status, readonly, closed, transfer, updates, used, runner, canc, conn, wait, panic>>

---------------------------------------------------------------------------
(* Cancel                                                                  *)

mayCancel(o) == o \in Tokens \/ transfer[o] = "on"

CancelAt(t, pc) == canc[t].pc = pc
CancelGoto(t, pc) == canc' = [canc EXCEPT ![t].pc = pc]
CancelEnd(t) == canc' = [canc EXCEPT ![t] = [pc |-> "idle", op |-> NoOperation]]

\* operationGet and the two checks, without the lock.
CancelCheck(t, o) ==
    /\ Alive /\ CancelAt(t, "idle") /\ o \in listed
    /\ status[o] = "Running" /\ mayCancel(o)
    /\ canc' = [canc EXCEPT ![t] = [pc |-> "mark", op |-> o]]
    /\ UNCHANGED <<opVars, runner, conn, wait, panic>>

\* imageValidSecret: a token that is still listed is accepted, whatever comes
\* of its cancellation.  The secret is known from the response, after Run.
ValidSecret(t, o) ==
    /\ Alive /\ CancelAt(t, "idle") /\ o \in listed \cap Tokens /\ status[o] # "Pending"
    /\ used' = used \cup {o}
    /\ canc' = IF status[o] = "Running"
               THEN [canc EXCEPT ![t] = [pc |-> "mark", op |-> o]] ELSE canc
    /\ UNCHANGED <<listed, status, readonly, closed, transfer, updates, runner, conn, wait, panic>>

CancelMark(t) ==
    /\ Alive /\ CancelAt(t, "mark")
    /\ status' = [status EXCEPT ![canc[t].op] = "Cancelling"]
    /\ CancelGoto(t, "cut")
    /\ UNCHANGED <<listed, readonly, closed, transfer, updates, used, runner, conn, wait, panic>>

\* A refused cancellation that puts the status back.
CancelCutUndo(t) ==
    LET o == canc[t].op IN
    /\ Alive /\ CancelAt(t, "cut")
    /\ IF o \in Tasks /\ transfer[o] # "on"
       THEN /\ CancelEnd(t)
            /\ status' = [status EXCEPT ![o] = "Running"]
       ELSE CancelGoto(t, "finish") /\ UNCHANGED status
    /\ transfer' = IF o \in Tasks /\ transfer[o] = "on"
                   THEN [transfer EXCEPT ![o] = "cut"] ELSE transfer
    /\ UNCHANGED <<listed, readonly, closed, updates, used, runner, conn, wait, panic>>

\* A cancellation that goes on although the download is over.
CancelCutRegardless(t) ==
    LET o == canc[t].op IN
    /\ Alive /\ CancelAt(t, "cut")
    /\ CancelGoto(t, "finish")
    /\ transfer' = IF o \in Tasks /\ transfer[o] = "on"
                   THEN [transfer EXCEPT ![o] = "cut"] ELSE transfer
    /\ UNCHANGED <<listed, status, readonly, closed, updates, used, runner, conn, wait, panic>>

\* canceler.Cancel(): refused when the download is over, and then the operation
\* is left Cancelling.
CancelCut(t) ==
    LET o == canc[t].op IN
    /\ Alive /\ CancelAt(t, "cut")
    /\ IF o \in Tasks /\ transfer[o] # "on" THEN CancelEnd(t) ELSE CancelGoto(t, "finish")
    /\ transfer' = IF o \in Tasks /\ transfer[o] = "on"
                   THEN [transfer EXCEPT ![o] = "cut"] ELSE transfer
    /\ UNCHANGED <<listed, status, readonly, closed, updates, used, runner, conn, wait, panic>>

CancelFinish(t) ==
    /\ Alive /\ CancelAt(t, "finish")
    /\ status' = [status EXCEPT ![canc[t].op] = "Cancelled"]
    /\ CancelGoto(t, "done")
    /\ UNCHANGED <<listed, readonly, closed, transfer, updates, used, runner, conn, wait, panic>>

CancelDone(t) ==
    /\ Alive /\ CancelAt(t, "done")
    /\ IF canc[t].op \in readonly THEN CancelEnd(t) ELSE CancelGoto(t, "close")
    /\ UNCHANGED <<opVars, runner, conn, wait, panic>>

CancelClose(t) ==
    /\ Alive /\ CancelAt(t, "close")
    /\ CloseChanDone(canc[t].op)
    /\ CancelEnd(t)
    /\ UNCHANGED runner

---------------------------------------------------------------------------
(* Connect and WaitFinal                                                   *)

ConnectCheck(t, o) ==
    /\ Alive /\ conn[t].pc = "idle" /\ o \in listed \cap Sockets
    /\ status[o] = "Running"
    /\ conn' = [conn EXCEPT ![t] = [pc |-> "call", op |-> o]]
    /\ UNCHANGED <<opVars, runner, canc, wait, panic>>

\* The goroutine of Connect calls op.onConnect, which done() sets to nil.
ConnectCall(t) ==
    /\ Alive /\ conn[t].pc = "call"
    /\ panic' = IF conn[t].op \in readonly THEN "nil hook" ELSE panic
    /\ conn' = [conn EXCEPT ![t] = [pc |-> "idle", op |-> NoOperation]]
    /\ UNCHANGED <<opVars, runner, canc, wait>>

WaitFinal(t, o) ==
    /\ Alive /\ wait[t].pc = "idle" /\ o \in listed
    /\ wait' = [wait EXCEPT ![t] = [pc |-> IF status[o] \in Final THEN "render" ELSE "wait",
                                    op |-> o, saw |-> "none"]]
    /\ UNCHANGED <<opVars, runner, canc, conn, panic>>

WaitDone(t) ==
    /\ Alive /\ wait[t].pc = "wait" /\ wait[t].op \in closed
    /\ wait' = [wait EXCEPT ![t].pc = "render"]
    /\ UNCHANGED <<opVars, runner, canc, conn, panic>>

\* Render after the wait: the answer of /wait.
WaitRender(t) ==
    /\ Alive /\ wait[t].pc = "render"
    /\ wait' = [wait EXCEPT ![t].pc = "told", ![t].saw = status[wait[t].op]]
    /\ UNCHANGED <<opVars, runner, canc, conn, panic>>

---------------------------------------------------------------------------

RunSteps(o) == RunReturn(o) \/ RunDone(o) \/ RunClose(o) \/ UpdateWrite(o)
CancelSteps(t) == CancelMark(t) \/ CancelCut(t) \/ CancelFinish(t) \/ CancelDone(t) \/ CancelClose(t)
WaitSteps(t) == WaitDone(t) \/ WaitRender(t)

Next ==
    \/ \E o \in Ops : operationCreate(o) \/ Run(o) \/ Download(o) \/ UpdateCheck(o)
                      \/ RunSteps(o) \/ Forget(o)
    \/ \E t \in Cancellers : CancelSteps(t)
    \/ \E t \in Cancellers, o \in Ops : CancelCheck(t, o) \/ ValidSecret(t, o)
    \/ \E t \in Connectors : ConnectCall(t)
    \/ \E t \in Connectors, o \in Ops : ConnectCheck(t, o)
    \/ \E t \in Waiters : WaitSteps(t)
    \/ \E t \in Waiters, o \in Ops : WaitFinal(t, o)

\* The response that created an operation runs it, goroutines run, the 5 second
\* timer fires, hooks and downloads end.
Fairness ==
    /\ \A o \in Ops : WF_vars(Run(o)) /\ WF_vars(RunSteps(o) \/ Download(o)) /\ WF_vars(Forget(o))
    /\ \A t \in Cancellers : WF_vars(CancelSteps(t))
    /\ \A t \in Waiters : WF_vars(WaitSteps(t))

Spec == Init /\ [][Next]_vars
FairSpec == Spec /\ Fairness

---------------------------------------------------------------------------
(* Properties *)

\* An operation whose chanDone is closed is never again Pending or Running,
\* whatever a concurrent Cancel does to its status.
DoneNotRunning == \A o \in closed : status[o] \notin {"none", "Pending", "Running"}

\* An operation leaves the map only after it is done: until then a client that
\* knows its URL can poll it, wait for it and cancel it.
ListedUntilDone == \A o \in Ops : status[o] # "none" /\ o \notin closed => o \in listed

\* A client waiting for a task is told, however the task ends, unless a panic
\* ends the daemon.
WaitReturns ==
    \A t \in Waiters :
        (wait[t].pc = "wait" /\ wait[t].op \in Tasks) ~> (wait[t].pc = "told" \/ panic # "none")

\* A token that has been used disappears: the secret is not valid for ever.
UsedTokenExpires == \A o \in Tokens : o \in used ~> (o \notin listed \/ panic # "none")

\* Unless Cancel has cut its download, an operation is done only when its hook
\* has returned and its own goroutine has said so: no update lands on a finished
\* operation and no second done() is on its way to close chanDone again.
DoneAfterHook ==
    \A o \in closed : transfer[o] # "cut" => runner[o] = "over"

\* /wait never answers that an operation is still to run or running: once an
\* answer is due the status stays past Running, whatever Cancel makes of it.
WaitAnswersEnd ==
    \A t \in Waiters : wait[t].pc = "told" => wait[t].saw \in Final \cup {"Cancelling"}

\* A finished operation stays finished and an unfinished one can be found, however
\* the goroutine of Run, cancellations and the removal interleave.
DoneIsFinal == DoneNotRunning /\ ListedUntilDone

\* Being done means that it is over: for the hook, and for a client that waits.
DoneMeansOver == DoneAfterHook /\ WaitAnswersEnd

\* Who waits for a task is answered, and a used image secret disappears.
OperationsEnd == WaitReturns /\ UsedTokenExpires
=============================================================================
