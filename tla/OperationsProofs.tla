------------------------ MODULE OperationsProofs --------------------------
(***************************************************************************)
(* Proofs about background operations for any number of operations,        *)
(* cancellers, connections and waiters.                                    *)
(***************************************************************************)
EXTENDS Operations, TLAPS

\* The operation has left the states from which it can be run or cancelled.
Left(o) == status[o] \notin {"none", "Pending", "Running"}

\* Whoever is about to call done(), or has called it, has first moved the status
\* on; no step moves it back.
Behind ==
    /\ \A o \in Ops : o \in closed \/ runner[o] \in DonePcs => Left(o)
    /\ \A o \in Ops : runner[o] # "none" => status[o] \notin {"none", "Pending"}
    /\ \A t \in Cancellers :
          canc[t].pc # "idle" => /\ canc[t].op \in Ops
                                 /\ status[canc[t].op] \notin {"none", "Pending"}
                                 /\ canc[t].pc # "mark" => Left(canc[t].op)

\* A waiter waits for an operation.
Waiting == \A t \in Waiters : wait[t].pc \in {"wait", "render"} => wait[t].op \in Ops

\* An update that passed its checks is within the bound.
Updating == \A o \in Ops : runner[o] = "update" => updates[o] < MaxUpdates

Inv == TypeOK /\ Behind /\ Waiting /\ Updating /\ ListedUntilDone

CancelRecord == [pc : {"idle", "mark", "cut", "finish"} \cup DonePcs, op : Ops \cup {NoOperation}]
WaitRecord == [pc : {"idle", "wait", "render", "told"}, op : Ops \cup {NoOperation}, saw : Statuses]

---------------------------------------------------------------------------

\* Counting one more update stays within the bound.
LEMMA OneMore ==
    ASSUME NEW n \in Nat, NEW x \in 0 .. n, x < n
    PROVE  x + 1 \in 0 .. n
OBVIOUS

\* Moving a caller of Cancel, or ending its call, touches no other caller.
LEMMA CancelMoves ==
    ASSUME canc \in [Cancellers -> CancelRecord], NEW t \in Cancellers,
           NEW pc \in {"idle", "mark", "cut", "finish"} \cup DonePcs,
           CancelGoto(t, pc) \/ CancelEnd(t)
    PROVE  /\ canc' \in [Cancellers -> CancelRecord]
           /\ \A u \in Cancellers : u # t => canc'[u] = canc[u]
           /\ canc'[t].pc # "idle" => canc'[t].op = canc[t].op
<1>1. CASE CancelGoto(t, pc)
  BY <1>1 DEF CancelGoto, CancelRecord
<1>2. CASE CancelEnd(t)
  BY <1>2 DEF CancelEnd, CancelRecord
<1> QED
  BY <1>1, <1>2

\* Answering a waiter touches no other waiter.
LEMMA WaitMoves ==
    ASSUME wait \in [Waiters -> WaitRecord], NEW t \in Waiters, NEW s \in Statuses,
           wait' = [wait EXCEPT ![t].pc = "told", ![t].saw = s]
    PROVE  /\ wait' \in [Waiters -> WaitRecord]
           /\ wait'[t].pc = "told"
           /\ \A u \in Waiters : u # t => wait'[u] = wait[u]
BY DEF WaitRecord

\* Waking a waiter touches no other waiter.
LEMMA WaitGoes ==
    ASSUME wait \in [Waiters -> WaitRecord], NEW t \in Waiters,
           wait' = [wait EXCEPT ![t].pc = "render"]
    PROVE  /\ wait' \in [Waiters -> WaitRecord]
           /\ wait'[t].op = wait[t].op
           /\ \A u \in Waiters : u # t => wait'[u] = wait[u]
BY DEF WaitRecord

\* Steps of the operation's own goroutine, its creation and its removal.
LEMMA RunnerInv ==
    ASSUME Inv, NEW o \in Ops,
           \/ operationCreate(o) \/ Run(o) \/ Download(o) \/ UpdateCheck(o)
           \/ RunSteps(o) \/ Forget(o)
    PROVE  Inv'
<1> USE DEF Inv, TypeOK, Statuses, Final, DonePcs
<1>1. CASE operationCreate(o)
  BY <1>1 DEF operationCreate, Behind, Left, Waiting, Updating, ListedUntilDone
<1>2. CASE Run(o)
  BY <1>2 DEF Run, Behind, Left, Waiting, Updating, ListedUntilDone
<1>3. CASE Download(o)
  BY <1>3 DEF Download, Behind, Left, Waiting, Updating, ListedUntilDone
<1>4. CASE UpdateCheck(o)
  BY <1>4 DEF UpdateCheck, opVars, Behind, Left, Waiting, Updating, ListedUntilDone
<1>5. CASE UpdateWrite(o)
  <2>1. /\ MaxUpdates \in Nat /\ updates \in [Ops -> 0 .. MaxUpdates]
        /\ runner[o] = "update" /\ updates' = [updates EXCEPT ![o] = @ + 1]
    BY <1>5, OperationsAssumption DEF UpdateWrite
  <2>2. updates[o] + 1 \in 0 .. MaxUpdates
    <3>1. updates[o] \in 0 .. MaxUpdates
      BY <2>1
    <3>2. updates[o] < MaxUpdates
      BY <2>1 DEF Updating
    <3> QED
      BY <2>1, <3>1, <3>2, OneMore
  <2>3. updates' \in [Ops -> 0 .. MaxUpdates] /\ \A x \in Ops : x # o => updates'[x] = updates[x]
    BY <2>1, <2>2
  <2>4. runner' = [runner EXCEPT ![o] = "body"] /\ runner[o] = "update"
        /\ UNCHANGED <<listed, status, readonly, closed, transfer, used, canc, conn, wait, panic>>
    BY <1>5 DEF UpdateWrite
  <2>5. TypeOK'
    BY <2>3, <2>4
  <2>6. Updating'
    BY <2>3, <2>4 DEF Updating
  <2>7. Behind'
    BY <2>4 DEF Behind, Left
  <2> QED
    BY <2>4, <2>5, <2>6, <2>7 DEF Waiting, ListedUntilDone
<1>6. CASE RunReturn(o)
  <2>1. PICK s \in {"Success", "Failure"} : status' = [status EXCEPT ![o] = s]
    BY <1>6 DEF RunReturn
  <2>2. runner' = [runner EXCEPT ![o] = "done"]
        /\ UNCHANGED <<listed, readonly, closed, transfer, updates, used, canc, conn, wait, panic>>
    BY <1>6 DEF RunReturn
  <2>3. TypeOK'
    BY <2>1, <2>2
  <2>4. Behind'
    BY <2>1, <2>2 DEF Behind, Left
  <2>5. Waiting' /\ Updating' /\ ListedUntilDone'
    BY <1>6, <2>1, <2>2 DEF RunReturn, Behind, Waiting, Updating, ListedUntilDone
  <2> QED
    BY <2>3, <2>4, <2>5
<1>7. CASE RunDone(o)
  BY <1>7 DEF RunDone, opVars, Behind, Left, Waiting, Updating, ListedUntilDone
<1>8. CASE RunClose(o)
  BY <1>8 DEF RunClose, CloseChanDone, Behind, Left, Waiting, Updating, ListedUntilDone
<1>9. CASE Forget(o)
  BY <1>9 DEF Forget, Behind, Left, Waiting, Updating, ListedUntilDone
<1> QED
  BY <1>1, <1>2, <1>3, <1>4, <1>5, <1>6, <1>7, <1>8, <1>9 DEF RunSteps

\* Steps of a caller of Cancel.
LEMMA CancelInv ==
    ASSUME Inv, NEW t \in Cancellers,
           CancelSteps(t) \/ \E o \in Ops : CancelCheck(t, o) \/ ValidSecret(t, o)
    PROVE  Inv'
<1> USE DEF Inv, TypeOK, Statuses, Final, DonePcs
<1>1. ASSUME NEW o \in Ops, CancelCheck(t, o)
      PROVE  Inv'
  BY <1>1 DEF CancelCheck, CancelAt, opVars, Behind, Left, Waiting, Updating, ListedUntilDone
<1>2. ASSUME NEW o \in Ops, ValidSecret(t, o)
      PROVE  Inv'
  BY <1>2 DEF ValidSecret, CancelAt, Behind, Left, Waiting, Updating, ListedUntilDone
<1>3. CASE CancelMark(t)
  <2>1. /\ canc[t].pc = "mark" /\ canc[t].op \in Ops
        /\ status' = [status EXCEPT ![canc[t].op] = "Cancelling"]
        /\ UNCHANGED <<listed, readonly, closed, transfer, updates, used, runner, conn, wait, panic>>
    BY <1>3 DEF CancelMark, CancelAt, Behind
  <2>2. /\ canc' \in [Cancellers -> CancelRecord]
        /\ \A u \in Cancellers : u # t => canc'[u] = canc[u]
        /\ canc'[t].pc # "idle" => canc'[t].op = canc[t].op
    <3>1. CancelGoto(t, "cut")
      BY <1>3 DEF CancelMark
    <3>2. canc \in [Cancellers -> CancelRecord]
      BY DEF CancelRecord
    <3> QED
      BY <3>1, <3>2, CancelMoves
  <2>3. TypeOK'
    BY <2>1, <2>2 DEF CancelRecord
  <2>4. Behind'
    BY <2>1, <2>2 DEF Behind, Left
  <2>5. status[canc[t].op] # "none"
    BY <2>1 DEF Behind
  <2>6. \A x \in Ops : status'[x] # "none" => status[x] # "none"
    BY <2>1, <2>5
  <2>7. ListedUntilDone'
    BY <2>1, <2>6 DEF ListedUntilDone
  <2>8. Waiting' /\ Updating'
    BY <2>1 DEF Waiting, Updating
  <2> QED
    BY <2>3, <2>4, <2>7, <2>8
<1>4. CASE CancelCut(t)
  <2>1. canc[t].op \in Ops
    BY <1>4 DEF CancelCut, CancelAt, Behind
  <2>2. transfer' \in [Ops -> {"none", "on", "cut", "over"}]
    BY <1>4, <2>1 DEF CancelCut
  <2>3. /\ canc' \in [Cancellers -> [pc : {"idle", "mark", "cut", "finish"} \cup DonePcs,
                                    op : Ops \cup {NoOperation}]]
        /\ \A u \in Cancellers : u # t => canc'[u] = canc[u]
        /\ canc'[t].pc # "idle" => canc'[t].op = canc[t].op
    BY <1>4, CancelMoves DEF CancelCut, CancelRecord
  <2>4. /\ canc[t].pc = "cut"
        /\ UNCHANGED <<listed, status, readonly, closed, updates, used, runner, conn, wait, panic>>
    BY <1>4 DEF CancelCut, CancelAt
  <2>5. TypeOK'
    BY <2>2, <2>3, <2>4
  <2>6. Behind'
    BY <2>3, <2>4 DEF Behind, Left
  <2> QED
    BY <2>4, <2>5, <2>6 DEF Waiting, Updating, ListedUntilDone
<1>5. CASE CancelFinish(t)
  <2>1. /\ canc[t].pc = "finish" /\ canc[t].op \in Ops
        /\ status' = [status EXCEPT ![canc[t].op] = "Cancelled"]
        /\ UNCHANGED <<listed, readonly, closed, transfer, updates, used, runner, conn, wait, panic>>
    BY <1>5 DEF CancelFinish, CancelAt, Behind
  <2>2. /\ canc' \in [Cancellers -> CancelRecord]
        /\ \A u \in Cancellers : u # t => canc'[u] = canc[u]
        /\ canc'[t].pc # "idle" => canc'[t].op = canc[t].op
    <3>1. CancelGoto(t, "done")
      BY <1>5 DEF CancelFinish
    <3>2. canc \in [Cancellers -> CancelRecord]
      BY DEF CancelRecord
    <3> QED
      BY <3>1, <3>2, CancelMoves
  <2>3. TypeOK'
    BY <2>1, <2>2 DEF CancelRecord
  <2>4. Behind'
    BY <2>1, <2>2 DEF Behind, Left
  <2>5. status[canc[t].op] # "none"
    BY <2>1 DEF Behind
  <2>6. \A x \in Ops : status'[x] # "none" => status[x] # "none"
    BY <2>1, <2>5
  <2>7. ListedUntilDone'
    BY <2>1, <2>6 DEF ListedUntilDone
  <2>8. Waiting' /\ Updating'
    BY <2>1 DEF Waiting, Updating
  <2> QED
    BY <2>3, <2>4, <2>7, <2>8
<1>6. CASE CancelDone(t)
  <2>1. /\ canc' \in [Cancellers -> [pc : {"idle", "mark", "cut", "finish"} \cup DonePcs,
                                    op : Ops \cup {NoOperation}]]
        /\ \A u \in Cancellers : u # t => canc'[u] = canc[u]
        /\ canc'[t].pc # "idle" => canc'[t].op = canc[t].op
    BY <1>6, CancelMoves DEF CancelDone, CancelRecord
  <2>2. canc[t].pc = "done" /\ UNCHANGED <<opVars, runner, conn, wait, panic>>
    BY <1>6 DEF CancelDone, CancelAt
  <2>3. TypeOK'
    BY <2>1, <2>2 DEF opVars
  <2>4. Behind'
    BY <2>1, <2>2 DEF Behind, Left, opVars
  <2> QED
    BY <2>2, <2>3, <2>4 DEF Waiting, Updating, ListedUntilDone, opVars
<1>7. CASE CancelClose(t)
  BY <1>7 DEF CancelClose, CancelAt, CancelEnd, CloseChanDone, Behind, Left, Waiting,
              Updating, ListedUntilDone
<1> QED
  BY <1>1, <1>2, <1>3, <1>4, <1>5, <1>6, <1>7 DEF CancelSteps

\* Connections and waiters only look at operations.
LEMMA ClientInv ==
    ASSUME Inv,
           \/ \E t \in Connectors : ConnectCall(t)
           \/ \E t \in Connectors, o \in Ops : ConnectCheck(t, o)
           \/ \E t \in Waiters : WaitSteps(t)
           \/ \E t \in Waiters, o \in Ops : WaitFinal(t, o)
    PROVE  Inv'
<1> USE DEF Inv, TypeOK, Statuses, Final, DonePcs
<1>1. ASSUME NEW t \in Connectors, ConnectCall(t)
      PROVE  Inv'
  BY <1>1 DEF ConnectCall, opVars, Behind, Left, Waiting, Updating, ListedUntilDone
<1>2. ASSUME NEW t \in Connectors, NEW o \in Ops, ConnectCheck(t, o)
      PROVE  Inv'
  BY <1>2 DEF ConnectCheck, opVars, Behind, Left, Waiting, Updating, ListedUntilDone
<1>3. ASSUME NEW t \in Waiters, WaitDone(t)
      PROVE  Inv'
  <2>1. /\ wait[t].op \in Ops
        /\ UNCHANGED <<opVars, runner, canc, conn, panic>>
    BY <1>3 DEF WaitDone
  <2>2. /\ wait' \in [Waiters -> WaitRecord]
        /\ wait'[t].op = wait[t].op
        /\ \A u \in Waiters : u # t => wait'[u] = wait[u]
    BY <1>3, WaitGoes DEF WaitDone, WaitRecord
  <2>3. TypeOK'
    BY <2>1, <2>2 DEF WaitRecord, opVars
  <2>4. Behind'
    BY <2>1 DEF Behind, Left, opVars
  <2> QED
    BY <2>1, <2>2, <2>3, <2>4 DEF Waiting, Updating, ListedUntilDone, opVars
<1>4. ASSUME NEW t \in Waiters, WaitRender(t)
      PROVE  Inv'
  <2>1. wait[t].op \in Ops /\ status[wait[t].op] \in Statuses
    BY <1>4 DEF WaitRender, Waiting
  <2>2. wait' = [wait EXCEPT ![t].pc = "told", ![t].saw = status[wait[t].op]]
    BY <1>4 DEF WaitRender
  <2>3. /\ wait' \in [Waiters -> WaitRecord]
        /\ wait'[t].pc = "told"
        /\ \A u \in Waiters : u # t => wait'[u] = wait[u]
    BY <2>1, <2>2, WaitMoves DEF WaitRecord
  <2>4. UNCHANGED <<opVars, runner, canc, conn, panic>>
    BY <1>4 DEF WaitRender
  <2> QED
    BY <2>3, <2>4 DEF WaitRecord, opVars, Behind, Left, Waiting, Updating, ListedUntilDone
<1>5. ASSUME NEW t \in Waiters, NEW o \in Ops, WaitFinal(t, o)
      PROVE  Inv'
  <2>1. PICK pc \in {"render", "wait"} :
            wait' = [wait EXCEPT ![t] = [pc |-> pc, op |-> o, saw |-> "none"]]
    BY <1>5 DEF WaitFinal
  <2>2. UNCHANGED <<opVars, runner, canc, conn, panic>>
    BY <1>5 DEF WaitFinal
  <2> QED
    BY <2>1, <2>2 DEF opVars, Behind, Left, Waiting, Updating, ListedUntilDone
<1> QED
  BY <1>1, <1>2, <1>3, <1>4, <1>5 DEF WaitSteps

\* The inductive invariant holds in every reachable state.
THEOREM OperationsInvariant == Spec => []Inv
<1>1. Init => Inv
  BY OperationsAssumption DEF Init, Inv, TypeOK, Statuses, Final, DonePcs, Behind, Left, Waiting, Updating, ListedUntilDone
<1>2. Inv /\ [Next]_vars => Inv'
  <2> SUFFICES ASSUME Inv, [Next]_vars PROVE Inv'
    OBVIOUS
  <2>1. CASE UNCHANGED vars
    BY <2>1 DEF vars, opVars, Inv, TypeOK, Behind, Left, Waiting, Updating, ListedUntilDone
  <2>2. CASE Next
    BY <2>2, RunnerInv, CancelInv, ClientInv DEF Next
  <2> QED
    BY <2>1, <2>2
<1> QED
  BY <1>1, <1>2, PTL DEF Spec

\* Every variable of the operations keeps its type.
THEOREM TypeCorrect == Spec => []TypeOK
<1>1. Inv => TypeOK
  BY DEF Inv
<1> QED
  BY <1>1, OperationsInvariant, PTL

\* No interleaving of Run's goroutine with any number of Cancel calls makes a
\* finished operation Pending or Running again.
THEOREM NeverRevived == Spec => []DoneNotRunning
<1>1. Inv => DoneNotRunning
  BY DEF Inv, Behind, Left, DoneNotRunning, TypeOK
<1> QED
  BY <1>1, OperationsInvariant, PTL

\* An operation that is not done can be found in the map.
THEOREM NeverLost == Spec => []ListedUntilDone
<1>1. Inv => ListedUntilDone
  BY DEF Inv
<1> QED
  BY <1>1, OperationsInvariant, PTL

\* Both together, for any number of operations and of concurrent Cancel calls.
THEOREM StaysDone == Spec => []DoneIsFinal
<1>1. DoneNotRunning /\ ListedUntilDone => DoneIsFinal
  BY DEF DoneIsFinal
<1> QED
  BY <1>1, NeverRevived, NeverLost, PTL

---------------------------------------------------------------------------

\* Only a task has a download; the goroutine of a token is over as soon as it runs;
\* an operation is done only when its goroutine is over or its download was cut.
OpOver(o) ==
    /\ transfer[o] # "none" => o \in Tasks
    /\ o \in Tokens /\ status[o] \in {"none", "Pending"} => runner[o] = "none"
    /\ o \in Tokens /\ status[o] \notin {"none", "Pending"} => runner[o] = "over"
    /\ o \in closed /\ transfer[o] # "cut" => runner[o] = "over"

\* Only a token or a task is cancelled, and a task only by cutting its download.
CancelsRightly(t) ==
    canc[t].pc # "idle" =>
        /\ canc[t].op \in Tasks \cup Tokens
        /\ canc[t].pc \in {"finish"} \cup DonePcs => canc[t].op \in Tokens \/ transfer[canc[t].op] = "cut"

\* The answer of /wait is taken from an operation that is past Running.
AnswersRightly(t) ==
    /\ wait[t].pc = "render" => Left(wait[t].op)
    /\ wait[t].pc = "told" => wait[t].saw \in Final \cup {"Cancelling"}

OverInv ==
    /\ \A o \in Ops : OpOver(o)
    /\ \A t \in Cancellers : CancelsRightly(t)
    /\ \A t \in Waiters : AnswersRightly(t)

\* What the lemmas below use of the types.
LEMMA OverTypes ==
    ASSUME Inv
    PROVE  /\ status \in [Ops -> Statuses] /\ runner \in [Ops -> {"none", "body", "update", "over"} \cup DonePcs]
           /\ transfer \in [Ops -> {"none", "on", "cut", "over"}]
           /\ canc \in [Cancellers -> CancelRecord] /\ wait \in [Waiters -> WaitRecord]
           /\ closed \subseteq Ops
           /\ Tasks \subseteq Ops /\ Tokens \subseteq Ops /\ Tasks \cap Tokens = {}
BY OperationsAssumption DEF Inv, TypeOK, CancelRecord, WaitRecord, Ops, OperationsAssumption

\* A step of the goroutine of o, its creation or its removal.
LEMMA RunnerFrame ==
    ASSUME Inv, OverInv, NEW o \in Ops, UNCHANGED <<canc, wait>>,
           \A x \in Ops : x # o => status'[x] = status[x] /\ runner'[x] = runner[x] /\ transfer'[x] = transfer[x],
           closed' \subseteq closed \cup {o},
           transfer[o] = "cut" => transfer'[o] = "cut",
           Left(o) => Left(o)',
           OpOver(o)'
    PROVE  OverInv'
<1> USE OverTypes
<1>1. ASSUME NEW x \in Ops PROVE OpOver(x)'
  <2>1. CASE x = o
    BY <2>1
  <2>2. CASE x # o
    BY <2>2 DEF OverInv, OpOver
  <2> QED
    BY <2>1, <2>2
<1>2. ASSUME NEW t \in Cancellers PROVE CancelsRightly(t)'
  <2>1. CancelsRightly(t)
    BY DEF OverInv
  <2>2. ASSUME NEW x \in Tasks \cup Tokens, transfer[x] = "cut" PROVE transfer'[x] = "cut"
    BY <2>2
  <2> QED
    BY <2>1, <2>2 DEF CancelsRightly
<1>3. ASSUME NEW t \in Waiters PROVE AnswersRightly(t)'
  <2>1. AnswersRightly(t)
    BY DEF OverInv
  <2>2. wait[t].pc = "render" => wait[t].op \in Ops
    BY DEF Inv, Waiting
  <2>3. ASSUME NEW x \in Ops, Left(x) PROVE Left(x)'
    BY <2>3 DEF Left
  <2> QED
    BY <2>1, <2>2, <2>3 DEF AnswersRightly
<1> QED
  BY <1>1, <1>2, <1>3 DEF OverInv

\* The goroutine declares its operation done only when it is over.
LEMMA RunnerOver ==
    ASSUME Inv, OverInv, NEW o \in Ops,
           \/ operationCreate(o) \/ Run(o) \/ Download(o) \/ UpdateCheck(o)
           \/ RunSteps(o) \/ Forget(o)
    PROVE  OverInv'
<1> USE OverTypes
<1>0. OpOver(o) /\ (o \in closed => Left(o)) /\ (runner[o] # "none" => status[o] \notin {"none", "Pending"})
  BY DEF OverInv, Inv, Behind
<1>1. CASE operationCreate(o)
  <2>1. /\ status' = [status EXCEPT ![o] = "Pending"] /\ status[o] = "none"
        /\ UNCHANGED <<closed, transfer, runner, canc, wait>>
    BY <1>1 DEF operationCreate
  <2>2. OpOver(o)' /\ ~Left(o)
    BY <1>0, <2>1 DEF OpOver, Left
  <2> QED
    BY <2>1, <2>2, RunnerFrame
<1>2. CASE Run(o)
  <2>1. /\ status' = [status EXCEPT ![o] = "Running"] /\ status[o] = "Pending"
        /\ runner' = [runner EXCEPT ![o] = IF o \in Tokens THEN "over" ELSE "body"]
        /\ UNCHANGED <<closed, transfer, canc, wait>>
    BY <1>2 DEF Run
  <2>2. ~Left(o)
    BY <2>1 DEF Left
  <2>3. OpOver(o)'
    BY <1>0, <2>1, <2>2 DEF OpOver
  <2> QED
    BY <2>1, <2>2, <2>3, RunnerFrame
<1>3. CASE Download(o)
  <2>1. /\ UNCHANGED <<status, closed, runner, canc, wait>> /\ o \in Tasks /\ transfer[o] \in {"none", "on"}
        /\ transfer' = [transfer EXCEPT ![o] = transfer'[o]] /\ transfer'[o] \in {"on", "over"}
    BY <1>3 DEF Download
  <2>2. OpOver(o)'
    BY <1>0, <2>1 DEF OpOver
  <2> QED
    BY <2>1, <2>2, RunnerFrame DEF Left
<1>4. CASE UpdateCheck(o) \/ UpdateWrite(o) \/ RunDone(o)
  <2>1. /\ UNCHANGED <<status, closed, transfer, canc, wait>>
        /\ runner[o] \notin {"none", "over"} /\ runner' = [runner EXCEPT ![o] = runner'[o]]
        /\ runner'[o] # "none"
    BY <1>4 DEF UpdateCheck, UpdateWrite, RunDone, opVars
  <2>2. OpOver(o)'
    BY <1>0, <2>1 DEF OpOver
  <2> QED
    BY <2>1, <2>2, RunnerFrame DEF Left
<1>5. CASE RunReturn(o)
  <2>1. PICK s \in {"Success", "Failure"} : status' = [status EXCEPT ![o] = s]
    BY <1>5 DEF RunReturn
  <2>2. /\ runner' = [runner EXCEPT ![o] = "done"] /\ runner[o] = "body"
        /\ UNCHANGED <<closed, transfer, canc, wait>>
    BY <1>5 DEF RunReturn
  <2>3. OpOver(o)' /\ Left(o)'
    BY <1>0, <2>1, <2>2 DEF OpOver, Left
  <2> QED
    BY <2>1, <2>2, <2>3, RunnerFrame
<1>6. CASE RunClose(o)
  <2>1. /\ UNCHANGED <<status, transfer, canc, wait>> /\ closed' = closed \cup {o}
        /\ runner[o] = "close" /\ runner' = [runner EXCEPT ![o] = "over"]
    BY <1>6 DEF RunClose, CloseChanDone
  <2>2. OpOver(o)'
    BY <1>0, <2>1 DEF OpOver
  <2> QED
    BY <2>1, <2>2, RunnerFrame DEF Left
<1>7. CASE Forget(o)
  <2>1. UNCHANGED <<status, closed, transfer, runner, canc, wait>>
    BY <1>7 DEF Forget
  <2> QED
    BY <1>0, <2>1, RunnerFrame DEF Left, OpOver
<1> QED
  BY <1>1, <1>2, <1>3, <1>4, <1>5, <1>6, <1>7 DEF RunSteps

\* A step of a caller of Cancel in an operation c that has been run.
LEMMA CancelFrame ==
    ASSUME Inv, OverInv, NEW t \in Cancellers, NEW c \in Ops,
           status[c] \notin {"none", "Pending"},
           UNCHANGED <<runner, wait>>,
           \A u \in Cancellers : u # t => canc'[u] = canc[u],
           \A x \in Ops : x # c => status'[x] = status[x] /\ transfer'[x] = transfer[x],
           status'[c] \in {status[c], "Cancelling", "Cancelled"},
           transfer'[c] = transfer[c] \/ (transfer'[c] = "cut" /\ c \in Tasks),
           closed' \subseteq closed \cup {c},
           closed' = closed \/ c \in Tokens \/ transfer[c] = "cut",
           CancelsRightly(t)'
    PROVE  OverInv'
<1> USE OverTypes
<1>1. ASSUME NEW x \in Ops PROVE OpOver(x)'
  <2>0. OpOver(x)
    BY DEF OverInv
  <2>1. CASE x = c
    BY <2>0, <2>1 DEF OpOver
  <2>2. CASE x # c
    BY <2>0, <2>2 DEF OpOver
  <2> QED
    BY <2>1, <2>2
<1>2. ASSUME NEW u \in Cancellers PROVE CancelsRightly(u)'
  <2>1. CASE u = t
    BY <2>1
  <2>2. CASE u # t
    <3>1. CancelsRightly(u)
      BY DEF OverInv
    <3>2. ASSUME NEW x \in Tasks \cup Tokens, transfer[x] = "cut" PROVE transfer'[x] = "cut"
      BY <3>2
    <3> QED
      BY <2>2, <3>1, <3>2 DEF CancelsRightly
  <2> QED
    BY <2>1, <2>2
<1>3. ASSUME NEW w \in Waiters PROVE AnswersRightly(w)'
  <2>1. AnswersRightly(w)
    BY DEF OverInv
  <2>2. wait[w].pc = "render" => wait[w].op \in Ops
    BY DEF Inv, Waiting
  <2>3. ASSUME NEW x \in Ops, Left(x) PROVE Left(x)'
    <3>1. CASE x = c
      BY <2>3, <3>1 DEF Left
    <3>2. CASE x # c
      BY <2>3, <3>2 DEF Left
    <3> QED
      BY <3>1, <3>2
  <2> QED
    BY <2>1, <2>2, <2>3 DEF AnswersRightly
<1> QED
  BY <1>1, <1>2, <1>3 DEF OverInv

\* A cancellation gets to done() only with a token, whose goroutine is over, or
\* with a download that it has cut.
LEMMA CancelOver ==
    ASSUME Inv, OverInv, NEW t \in Cancellers,
           CancelSteps(t) \/ \E o \in Ops : CancelCheck(t, o) \/ ValidSecret(t, o)
    PROVE  OverInv'
<1> USE OverTypes
<1> DEFINE c == canc[t].op
<1>0. /\ CancelsRightly(t)
      /\ canc[t].pc # "idle" => c \in Ops /\ status[c] \notin {"none", "Pending"}
  BY DEF OverInv, Inv, Behind
<1>1. ASSUME NEW o \in Ops, CancelCheck(t, o) \/ ValidSecret(t, o)
      PROVE  OverInv'
  <2>1. /\ UNCHANGED <<status, closed, transfer, runner, wait>> /\ canc[t].pc = "idle"
        /\ \/ canc' = canc
           \/ /\ canc' = [canc EXCEPT ![t] = [pc |-> "mark", op |-> o]]
              /\ status[o] = "Running" /\ (o \in Tokens \/ transfer[o] = "on")
    BY <1>1 DEF CancelCheck, ValidSecret, CancelAt, mayCancel, opVars
  <2>2. CASE canc' = canc
    BY <2>1, <2>2 DEF OverInv, OpOver, CancelsRightly, AnswersRightly, Left
  <2>3. CASE canc' # canc
    <3>1. OpOver(o)
      BY DEF OverInv
    <3>2. CancelsRightly(t)'
      BY <2>1, <2>3, <3>1 DEF CancelsRightly, OpOver, DonePcs
    <3> QED
      BY <2>1, <2>3, <3>2, CancelFrame
  <2> QED
    BY <2>2, <2>3
<1>2. CASE CancelMark(t)
  <2>1. /\ canc[t].pc = "mark" /\ CancelGoto(t, "cut")
        /\ status' = [status EXCEPT ![c] = "Cancelling"]
        /\ UNCHANGED <<closed, transfer, runner, wait>>
    BY <1>2 DEF CancelMark, CancelAt
  <2>2. /\ canc'[t].pc = "cut" /\ canc'[t].op = c /\ \A u \in Cancellers : u # t => canc'[u] = canc[u]
    BY <2>1 DEF CancelGoto, CancelRecord
  <2>3. CancelsRightly(t)'
    BY <1>0, <2>1, <2>2 DEF CancelsRightly, DonePcs
  <2> QED
    BY <1>0, <2>1, <2>2, <2>3, CancelFrame
<1>3. CASE CancelCut(t)
  <2>1. /\ canc[t].pc = "cut" /\ UNCHANGED <<status, closed, runner, wait>>
        /\ IF c \in Tasks /\ transfer[c] # "on" THEN CancelEnd(t) ELSE CancelGoto(t, "finish")
        /\ transfer' = IF c \in Tasks /\ transfer[c] = "on" THEN [transfer EXCEPT ![c] = "cut"] ELSE transfer
    BY <1>3 DEF CancelCut, CancelAt
  <2>2. /\ \A u \in Cancellers : u # t => canc'[u] = canc[u]
        /\ canc'[t].pc # "idle" => canc'[t].op = c /\ (c \in Tasks => transfer[c] = "on")
    <3>1. CASE CancelEnd(t)
      BY <3>1 DEF CancelEnd
    <3>2. CASE CancelGoto(t, "finish") /\ ~(c \in Tasks /\ transfer[c] # "on")
      BY <3>2 DEF CancelGoto, CancelRecord
    <3> QED
      BY <2>1, <3>1, <3>2
  <2>3. c \in Tasks \cup Tokens /\ c \in Ops
    BY <1>0, <2>1 DEF CancelsRightly
  <2>4. CancelsRightly(t)'
    BY <2>1, <2>2, <2>3 DEF CancelsRightly
  <2>5. /\ \A x \in Ops : x # c => transfer'[x] = transfer[x]
        /\ transfer'[c] = transfer[c] \/ (transfer'[c] = "cut" /\ c \in Tasks)
    BY <2>1, <2>3
  <2> QED
    BY <1>0, <2>1, <2>2, <2>3, <2>4, <2>5, CancelFrame
<1>4. CASE CancelFinish(t)
  <2>1. /\ canc[t].pc = "finish" /\ CancelGoto(t, "done")
        /\ status' = [status EXCEPT ![c] = "Cancelled"]
        /\ UNCHANGED <<closed, transfer, runner, wait>>
    BY <1>4 DEF CancelFinish, CancelAt
  <2>2. /\ canc'[t].pc = "done" /\ canc'[t].op = c /\ \A u \in Cancellers : u # t => canc'[u] = canc[u]
    BY <2>1 DEF CancelGoto, CancelRecord
  <2>3. CancelsRightly(t)'
    BY <1>0, <2>1, <2>2 DEF CancelsRightly
  <2> QED
    BY <1>0, <2>1, <2>2, <2>3, CancelFrame
<1>5. CASE CancelDone(t)
  <2>1. /\ canc[t].pc = "done" /\ (CancelEnd(t) \/ CancelGoto(t, "close"))
        /\ UNCHANGED <<status, closed, transfer, runner, wait>>
    BY <1>5 DEF CancelDone, CancelAt, opVars
  <2>2. /\ \A u \in Cancellers : u # t => canc'[u] = canc[u]
        /\ canc'[t].pc # "idle" => canc'[t].op = c
    BY <2>1, CancelMoves DEF DonePcs
  <2>3. CancelsRightly(t)'
    BY <1>0, <2>1, <2>2 DEF CancelsRightly, DonePcs
  <2> QED
    BY <1>0, <2>1, <2>2, <2>3, CancelFrame
<1>6. CASE CancelClose(t)
  <2>1. /\ canc[t].pc = "close" /\ CancelEnd(t) /\ closed' = closed \cup {c}
        /\ UNCHANGED <<status, transfer, runner, wait>>
    BY <1>6 DEF CancelClose, CancelAt, CloseChanDone
  <2>2. canc'[t].pc = "idle" /\ \A u \in Cancellers : u # t => canc'[u] = canc[u]
    BY <2>1 DEF CancelEnd
  <2>3. CancelsRightly(t)' /\ (c \in Tokens \/ transfer[c] = "cut")
    BY <1>0, <2>1, <2>2 DEF CancelsRightly, DonePcs
  <2> QED
    BY <1>0, <2>1, <2>2, <2>3, CancelFrame
<1> QED
  BY <1>1, <1>2, <1>3, <1>4, <1>5, <1>6 DEF CancelSteps

\* A waiter is sent to render when the status is final or chanDone is closed, and
\* either way it has left Running for good.
LEMMA ClientOver ==
    ASSUME Inv, OverInv,
           \/ \E t \in Connectors : ConnectCall(t)
           \/ \E t \in Connectors, o \in Ops : ConnectCheck(t, o)
           \/ \E t \in Waiters : WaitSteps(t)
           \/ \E t \in Waiters, o \in Ops : WaitFinal(t, o)
    PROVE  OverInv'
<1> USE OverTypes
<1>1. UNCHANGED <<status, closed, transfer, runner, canc>>
  BY DEF ConnectCall, ConnectCheck, WaitSteps, WaitDone, WaitRender, WaitFinal, opVars
<1>2. (\A o \in Ops : OpOver(o)') /\ (\A t \in Cancellers : CancelsRightly(t)')
  BY <1>1 DEF OverInv, OpOver, CancelsRightly
<1>3. ASSUME NEW t \in Waiters, AnswersRightly(t)', \A u \in Waiters : u # t => wait'[u] = wait[u]
      PROVE  OverInv'
  <2>1. ASSUME NEW u \in Waiters PROVE AnswersRightly(u)'
    <3>1. CASE u = t
      BY <1>3, <3>1
    <3>2. CASE u # t
      BY <1>1, <1>3, <3>2 DEF OverInv, AnswersRightly, Left
    <3> QED
      BY <3>1, <3>2
  <2> QED
    BY <1>2, <2>1 DEF OverInv
<1>4. CASE UNCHANGED wait
  BY <1>1, <1>2, <1>4 DEF OverInv, AnswersRightly, Left
<1>5. ASSUME NEW t \in Waiters, WaitDone(t) PROVE OverInv'
  <2>1. /\ wait[t].op \in closed /\ wait' = [wait EXCEPT ![t].pc = "render"]
    BY <1>5 DEF WaitDone
  <2>2. wait'[t].pc = "render" /\ wait'[t].op = wait[t].op /\ \A u \in Waiters : u # t => wait'[u] = wait[u]
    BY <2>1 DEF WaitRecord
  <2>3. Left(wait[t].op)
    BY <2>1 DEF Inv, Behind
  <2>4. AnswersRightly(t)'
    BY <1>1, <2>2, <2>3 DEF AnswersRightly, Left
  <2> QED
    BY <1>3, <2>2, <2>4
<1>6. ASSUME NEW t \in Waiters, WaitRender(t) PROVE OverInv'
  <2>1. /\ wait[t].pc = "render" /\ wait' = [wait EXCEPT ![t].pc = "told", ![t].saw = status[wait[t].op]]
    BY <1>6 DEF WaitRender
  <2>2. /\ wait'[t].pc = "told" /\ wait'[t].saw = status[wait[t].op]
        /\ \A u \in Waiters : u # t => wait'[u] = wait[u]
    BY <2>1 DEF WaitRecord
  <2>3. wait[t].op \in Ops /\ Left(wait[t].op)
    BY <2>1 DEF OverInv, AnswersRightly, Inv, Waiting
  <2>4. status[wait[t].op] \in Final \cup {"Cancelling"}
    BY <2>3 DEF Left, Statuses
  <2>5. AnswersRightly(t)'
    BY <2>2, <2>4 DEF AnswersRightly
  <2> QED
    BY <1>3, <2>2, <2>5
<1>7. ASSUME NEW t \in Waiters, NEW o \in Ops, WaitFinal(t, o) PROVE OverInv'
  <2>1. wait' = [wait EXCEPT ![t] = [pc |-> IF status[o] \in Final THEN "render" ELSE "wait",
                                     op |-> o, saw |-> "none"]]
    BY <1>7 DEF WaitFinal
  <2>2. /\ wait'[t].pc = (IF status[o] \in Final THEN "render" ELSE "wait") /\ wait'[t].op = o
        /\ \A u \in Waiters : u # t => wait'[u] = wait[u]
    BY <2>1
  <2>3. AnswersRightly(t)'
    BY <1>1, <2>2 DEF AnswersRightly, Left, Final
  <2> QED
    BY <1>3, <2>2, <2>3
<1> QED
  BY <1>4, <1>5, <1>6, <1>7 DEF ConnectCall, ConnectCheck, WaitSteps

\* Unless its download was cut, an operation is done only when the goroutine of its
\* hook is over, and a client that waits is told how it ended, not that it runs:
\* for any number of operations, of concurrent Cancel calls and of waiters.
THEOREM DoneIsOver == Spec => []DoneMeansOver
<1>1. Init => OverInv
  BY OperationsAssumption DEF Init, OverInv, OpOver, CancelsRightly, AnswersRightly
<1>2. Inv /\ OverInv /\ [Next]_vars => OverInv'
  <2> SUFFICES ASSUME Inv, OverInv, [Next]_vars PROVE OverInv'
    OBVIOUS
  <2>1. CASE UNCHANGED vars
    BY <2>1 DEF vars, opVars, OverInv, OpOver, CancelsRightly, AnswersRightly, Left
  <2>2. CASE Next
    BY <2>2, RunnerOver, CancelOver, ClientOver DEF Next
  <2> QED
    BY <2>1, <2>2
<1>3. Inv /\ OverInv => DoneMeansOver
  BY OverTypes DEF OverInv, OpOver, AnswersRightly, DoneMeansOver, DoneAfterHook, WaitAnswersEnd
<1> QED
  BY <1>1, <1>2, <1>3, OperationsInvariant, PTL DEF Spec
=============================================================================
