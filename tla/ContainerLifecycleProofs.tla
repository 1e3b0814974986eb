--------------------- MODULE ContainerLifecycleProofs ---------------------
(***************************************************************************)
(* Proofs about the operation lock, and about a container's life for any   *)
(* number of clients and goroutines, any supply of operations and any      *)
(* workload: the daemon uses the lock as ContainerOps allows, and what a   *)
(* running container, a successful stop and the host can rely on.          *)
(***************************************************************************)
EXTENDS ContainerLifecycle, FiniteSetTheorems, TLAPS

---------------------------------------------------------------------------
(* Types                                                                   *)

\* Done on an operation that was allocated, however it finds the map.
LEMMA CompleteFacts ==
    ASSUME LockTypeOK, NEW o \in DOMAIN op, NEW e \in {"nil", "timeout", "error"},
           Complete(o, e)
    PROVE  /\ DOMAIN op' = DOMAIN op
           /\ op' \in [DOMAIN op -> OpRecord]
           /\ registered' \in [Containers -> DOMAIN op \cup {NoOp}]
           /\ closed' \subseteq DOMAIN op
           /\ \A x \in DOMAIN op : /\ op'[x].action = op[x].action
                                   /\ op'[x].reusable = op[x].reusable
                                   /\ x # o => op'[x] = op[x] /\ (x \in closed' => x \in closed)
           /\ o \in closed' /\ op'[o].err = "nil" /\ e # "nil"
                 => o \in closed /\ op[o].err = "nil"
<1> USE DEF LockTypeOK, created, OpRecord, Errors
<1>1. CASE registered[op[o].id] = o
  <2>1. /\ op' = [op EXCEPT ![o].err = e]
        /\ closed' = closed \cup {o}
        /\ registered' = [registered EXCEPT ![op[o].id] = NoOp]
    BY <1>1 DEF Complete
  <2>2. DOMAIN op' = DOMAIN op /\ op' \in [DOMAIN op -> OpRecord]
    BY <2>1
  <2>3. registered' \in [Containers -> DOMAIN op \cup {NoOp}] /\ closed' \subseteq DOMAIN op
    BY <2>1
  <2>4. op'[o].err = e
    BY <2>1
  <2>5. \A x \in DOMAIN op : /\ op'[x].action = op[x].action
                             /\ op'[x].reusable = op[x].reusable
                             /\ x # o => op'[x] = op[x] /\ (x \in closed' => x \in closed)
    BY <2>1
  <2> QED
    BY <2>2, <2>3, <2>4, <2>5
<1>2. CASE registered[op[o].id] # o
  BY <1>2 DEF Complete
<1> QED
  BY <1>1, <1>2

\* The lock keeps its type when an operation is completed.
LEMMA DoneType ==
    ASSUME LockTypeOK, NEW o, NEW e \in {"nil", "error"}, Done(o, e)
    PROVE  LockTypeOK'
<1>1. o \in DOMAIN op /\ Complete(o, e) /\ timers' = timers
  BY DEF Done, created
<1>2. /\ DOMAIN op' = DOMAIN op
      /\ op' \in [DOMAIN op -> OpRecord]
      /\ registered' \in [Containers -> DOMAIN op \cup {NoOp}]
      /\ closed' \subseteq DOMAIN op
  BY <1>1, CompleteFacts
<1> QED
  BY <1>1, <1>2 DEF LockTypeOK, created

\* The lock keeps its type when an operation is allocated.
LEMMA CreateType ==
    ASSUME LockTypeOK, NEW a \in {"start", "stop"}, NEW r \in BOOLEAN, NEW o,
           Create(Self, a, r, o)
    PROVE  LockTypeOK' /\ DOMAIN op' = DOMAIN op \cup {o} /\ o \in OpIds
<1> DEFINE rec == [id |-> Self, action |-> a, reusable |-> r, err |-> "nil"]
<1>1. rec \in OpRecord
  BY LifecycleAssumption DEF OpRecord, Errors, Actions
<1>2. DOMAIN op' = DOMAIN op \cup {o} /\ o \in OpIds
  BY DEF Create, created
<1>3. op' \in [DOMAIN op' -> OpRecord]
  BY <1>1, <1>2 DEF LockTypeOK, Create, created
<1>4. registered' \in [Containers -> DOMAIN op' \cup {NoOp}]
  BY <1>2, LifecycleAssumption DEF LockTypeOK, Create, created
<1> QED
  BY <1>2, <1>3, <1>4 DEF LockTypeOK, Create, created

\* The ways a thread moves on, within a function or out of one.
LEMMA ThreadMoves ==
    ASSUME NEW r \in Thread, NEW pc \in Pcs
    PROVE  /\ [r EXCEPT !.pc = pc] \in Thread
           /\ \A proc \in {"Start", "Stop", "Shutdown"} :
                  [r EXCEPT !.proc = proc, !.pc = pc] \in Thread
           /\ \A res \in {"none", "ok", "error"} : [r EXCEPT !.pc = pc, !.res = res] \in Thread
<1>1. [r EXCEPT !.pc = pc] \in Thread
  BY DEF Thread
<1>2. ASSUME NEW proc \in {"Start", "Stop", "Shutdown"}
      PROVE  [r EXCEPT !.proc = proc, !.pc = pc] \in Thread
  BY DEF Thread
<1>3. ASSUME NEW res \in {"none", "ok", "error"}
      PROVE  [r EXCEPT !.pc = pc, !.res = res] \in Thread
  BY DEF Thread
<1> QED
  BY <1>1, <1>2, <1>3

\* Leaving Start, Stop or Shutdown moves one thread and leaves it a thread.
LEMMA LeaveType ==
    ASSUME thr \in [Threads -> Thread], NEW t \in Threads,
           NEW res \in {"none", "ok", "error"}, Leave(t, res)
    PROVE  thr' \in [Threads -> Thread]
<1>1. {"unlock", "get", "check", "keep", "return"} \subseteq Pcs
  BY DEF Pcs
<1>2. /\ [thr[t] EXCEPT !.pc = "unlock"] \in Thread
      /\ [thr[t] EXCEPT !.proc = "Start", !.pc = "get"] \in Thread
      /\ [thr[t] EXCEPT !.proc = "Stop", !.pc = "check"] \in Thread
      /\ [thr[t] EXCEPT !.pc = "keep", !.res = "ok"] \in Thread
      /\ [thr[t] EXCEPT !.pc = "return", !.res = res] \in Thread
  BY <1>1, ThreadMoves
<1>3. \E n \in Thread : thr' = [thr EXCEPT ![t] = n]
  BY <1>2 DEF Leave
<1> QED
  BY <1>3

\* Moving a thread leaves it a thread.
LEMMA GotoType ==
    ASSUME thr \in [Threads -> Thread], NEW t \in Threads, NEW pc \in Pcs, Goto(t, pc)
    PROVE  thr' \in [Threads -> Thread]
BY DEF Goto, Thread

\* A step that leaves the lock alone leaves its type alone.
LEMMA LockSame ==
    ASSUME LockTypeOK, UNCHANGED lockVars
    PROVE  LockTypeOK'
BY DEF lockVars, LockTypeOK, created

\* A thread at rest, as it is after a request, and as OnStop and Request leave it.
LEMMA IdleTypes ==
    /\ Idle \in Thread
    /\ \A r \in RequestKinds, p \in Powers, e \in BOOLEAN :
          [Idle EXCEPT !.pc = "begin", !.req = r, !.power = p, !.eph = e] \in Thread
    /\ \A r \in {"stop", "reboot"}, o \in OpIds \cup {NoOp}, p \in Powers, e \in BOOLEAN :
          [Idle EXCEPT !.pc = "settle", !.req = r, !.caught = o, !.power = p, !.eph = e]
              \in Thread
<1>1. Idle \in Thread
  BY DEF Idle, Thread, Pcs, Powers
<1>2. ASSUME NEW r \in RequestKinds, NEW p \in Powers, NEW e \in BOOLEAN
      PROVE  [Idle EXCEPT !.pc = "begin", !.req = r, !.power = p, !.eph = e] \in Thread
  BY DEF Idle, Thread, Pcs, Powers
<1>3. ASSUME NEW r \in {"stop", "reboot"}, NEW o \in OpIds \cup {NoOp}, NEW p \in Powers,
             NEW e \in BOOLEAN
      PROVE  [Idle EXCEPT !.pc = "settle", !.req = r, !.caught = o, !.power = p, !.eph = e]
                 \in Thread
  BY DEF Idle, Thread, Pcs, Powers, RequestKinds
<1> QED
  BY <1>1, <1>2, <1>3

\* The requests: Request, Begin, KeepPower and Return keep the types.
LEMMA RequestTypes ==
    ASSUME TypeOK, NEW t \in Threads,
           (t \in Clients /\ Request(t)) \/ Begin(t) \/ KeepPower(t) \/ Return(t)
    PROVE  TypeOK'
<1> USE DEF TypeOK
<1>0. /\ thr[t] \in Thread /\ thr[t].power \in Powers /\ thr[t].eph \in BOOLEAN
      /\ LxcStates \subseteq Powers /\ "" \in Powers
  BY DEF Thread, Powers
<1>1. CASE t \in Clients /\ Request(t)
  <2>1. PICK r \in load.requests :
            thr' = [thr EXCEPT ![t] =
                       [Idle EXCEPT !.pc = "begin", !.req = r, !.power = power, !.eph = ephemeral]]
    BY <1>1 DEF Request
  <2>2. r \in RequestKinds /\ load.max \in Nat
    BY LifecycleAssumption DEF Workload
  <2>3. thr' \in [Threads -> Thread]
    BY <2>1, <2>2, IdleTypes
  <2>4. sent' = [sent EXCEPT ![t] = sent[t] + 1] /\ sent[t] < load.max /\ t \in Clients
    BY <1>1 DEF Request
  <2>5. sent[t] + 1 \in 0 .. load.max
    BY <2>2, <2>4
  <2>6. sent' \in [Clients -> 0 .. load.max]
    BY <2>4, <2>5
  <2> QED
    BY <1>1, <2>3, <2>6, LockSame DEF Request, hostVars, dbVars
<1>2. CASE BeginStart(t)
  <2>1. thr' = [thr EXCEPT ![t] = [thr[t] EXCEPT !.proc = "Start", !.pc = "get"]]
    BY <1>2 DEF BeginStart, Enter
  <2>2. thr' \in [Threads -> Thread]
    BY <1>0, <2>1, ThreadMoves DEF Pcs
  <2> QED
    BY <1>2, <2>2, LockSame DEF BeginStart, hostVars, dbVars, lxcVars, callVars
<1>3. CASE BeginStop(t)
  <2>1. thr' = [thr EXCEPT ![t] =
            [thr[t] EXCEPT !.proc = IF thr[t].req = "stop" THEN "Stop" ELSE "Shutdown",
                           !.pc = "check"]]
    BY <1>3 DEF BeginStop, Enter
  <2>2. thr' \in [Threads -> Thread]
    BY <1>0, <2>1, ThreadMoves DEF Pcs
  <2> QED
    BY <1>3, <2>2, LockSame DEF BeginStop, hostVars, dbVars, callVars, LxcStates
<1>4. CASE BeginRestart(t)
  <2> DEFINE r == [thr[t] EXCEPT !.resetEph = thr[t].eph, !.eph = FALSE]
  <2>1. r \in Thread
    BY <1>0 DEF Thread
  <2> HIDE DEF r
  <2>2. /\ [r EXCEPT !.proc = "Stop", !.pc = "check"] \in Thread
        /\ [r EXCEPT !.pc = "return", !.res = "error"] \in Thread
        /\ [r EXCEPT !.proc = "Shutdown", !.pc = "check"] \in Thread
    BY <2>1, ThreadMoves DEF Pcs
  <2>3. thr' = [thr EXCEPT ![t] =
                  CASE r.req = "restart" -> [r EXCEPT !.proc = "Stop", !.pc = "check"]
                    [] r.req # "restart" /\ lxc = "FROZEN" ->
                          [r EXCEPT !.pc = "return", !.res = "error"]
                    [] OTHER -> [r EXCEPT !.proc = "Shutdown", !.pc = "check"]]
    BY <1>4 DEF BeginRestart, r
  <2>4. thr' \in [Threads -> Thread]
    BY <2>2, <2>3
  <2>5. power' \in Powers /\ ephemeral' \in BOOLEAN /\ exists' = exists
    BY <1>0, <1>4 DEF BeginRestart, WriteBack, dbVars
  <2> QED
    BY <1>4, <2>4, <2>5, LockSame DEF BeginRestart, hostVars, lxcVars, callVars
<1>5. CASE BeginFreeze(t)
  <2>1. PICK res \in {"ok", "error"} :
            thr' = [thr EXCEPT ![t] = [thr[t] EXCEPT !.pc = "return", !.res = res]]
    BY <1>5 DEF BeginFreeze
  <2>2. thr' \in [Threads -> Thread]
    BY <1>0, <2>1, ThreadMoves DEF Pcs
  <2> QED
    BY <1>5, <2>2, LockSame DEF BeginFreeze, hostVars, dbVars, callVars, LxcStates
<1>6. CASE BeginHostShutdown(t)
  <2>1. thr' = [thr EXCEPT ![t] =
            [thr[t] EXCEPT !.power = lxc, !.eph = ephemeral,
                           !.proc = IF IsRunning THEN "Shutdown" ELSE "none",
                           !.pc = IF IsRunning THEN "check" ELSE "keep"]]
    BY <1>6 DEF BeginHostShutdown
  <2>2. ASSUME NEW p \in {"none", "Shutdown"}, NEW c \in {"check", "keep"}
        PROVE  [thr[t] EXCEPT !.power = lxc, !.eph = ephemeral, !.proc = p, !.pc = c] \in Thread
    BY <1>0 DEF Thread, Pcs
  <2>3. thr' \in [Threads -> Thread]
    BY <2>1, <2>2
  <2> QED
    BY <1>0, <1>6, <2>3, LockSame DEF BeginHostShutdown, hostVars, lxcVars, callVars
<1>7. CASE KeepPower(t)
  <2>1. thr' \in [Threads -> Thread]
    BY <1>7, GotoType DEF KeepPower, Pcs
  <2> QED
    BY <1>0, <1>7, <2>1, LockSame DEF KeepPower, WriteBack, hostVars, lxcVars, callVars
<1>8. CASE Return(t)
  <2>1. thr' \in [Threads -> Thread]
    BY <1>8, GotoType, IdleTypes DEF Return, Pcs
  <2>2. power' \in Powers /\ ephemeral' \in BOOLEAN /\ exists' = exists
    BY <1>0, <1>8 DEF Return, WriteBack, dbVars
  <2> QED
    BY <1>8, <2>1, <2>2, LockSame DEF Return, hostVars, lxcVars, callVars
<1> QED
  BY <1>1, <1>2, <1>3, <1>4, <1>5, <1>6, <1>7, <1>8 DEF Begin

\* createOperation, Start, Stop and Shutdown keep the types.
LEMMA ServeTypes ==
    ASSUME TypeOK, NEW t \in Threads, CreateOperation(t) \/ Start(t) \/ Stop(t) \/ Shutdown(t)
    PROVE  TypeOK'
<1> USE DEF TypeOK
<1>0. /\ thr[t] \in Thread /\ thr[t].power \in Powers /\ thr[t].eph \in BOOLEAN
      /\ thr[t].res \in {"none", "ok", "error"}
  BY DEF Thread
<1>a. [thr[t] EXCEPT !.pc = "release", !.res = "error"] \in Thread
  BY <1>0, ThreadMoves DEF Pcs
<1>1. CASE GetOperation(t)
  <2>1. registered[Self] \in OpIds \cup {NoOp}
    BY LifecycleAssumption DEF LockTypeOK, created
  <2>2. [thr[t] EXCEPT !.op = registered[Self], !.pc = "reset"] \in Thread
    BY <1>0, <2>1 DEF Thread, Pcs
  <2>3. thr' \in [Threads -> Thread]
    BY <1>0, <1>1, <2>2, GotoType, LeaveType DEF GetOperation, Pcs
  <2> QED
    BY <1>1, <2>3, LockSame DEF GetOperation, hostVars, dbVars, lxcVars, callVars
<1>2. CASE InsertOperation(t)
  <2>1. PICK o \in FreshOps :
          /\ Create(Self, IF thr[t].proc = "Start" THEN "start" ELSE "stop",
                         thr[t].proc = "Shutdown", o)
          /\ thr' = [thr EXCEPT ![t].op = o,
                                ![t].pc = IF thr[t].proc = "Start" THEN "common" ELSE "act"]
    BY <1>2 DEF InsertOperation
  <2>2. LockTypeOK' /\ o \in OpIds
    BY <2>1, CreateType
  <2>3. ASSUME NEW pc \in {"common", "act"}
        PROVE  [thr[t] EXCEPT !.op = o, !.pc = pc] \in Thread
    BY <1>0, <2>2 DEF Thread, Pcs
  <2>4. thr' \in [Threads -> Thread]
    BY <2>1, <2>3
  <2> QED
    BY <1>2, <2>2, <2>4 DEF InsertOperation, hostVars, dbVars, lxcVars, callVars
<1>3. CASE ResetOperation(t)
  <2>1. thr' \in [Threads -> Thread] /\ UNCHANGED lockVars
    BY <1>3, GotoType DEF ResetOperation, Pcs, Reset, lockVars
  <2> QED
    BY <1>3, <2>1, LockSame DEF ResetOperation, hostVars, dbVars, lxcVars, callVars
<1>4. CASE StartCommon(t)
  <2>1. thr' \in [Threads -> Thread]
    BY <1>a, <1>4, GotoType DEF StartCommon, Pcs
  <2>2. power' \in Powers /\ ephemeral' \in BOOLEAN /\ exists' = exists /\ devices' \in BOOLEAN
    BY <1>0, <1>4 DEF StartCommon, WriteBack, dbVars
  <2> QED
    BY <1>4, <2>1, <2>2, LockSame DEF StartCommon, lxcVars, callVars
<1>5. CASE Forkstart(t)
  <2>1. thr' \in [Threads -> Thread]
    BY <1>a, <1>5, GotoType DEF Forkstart, Pcs
  <2>2. lxc' \in LxcStates
        /\ hook' \in [step : {"none", "start", "started", "stop", "storage"},
                      target : {"stop", "reboot"}, op : OpIds \cup {NoOp}]
    BY <1>5 DEF Forkstart, LxcStates, NoHook
  <2> QED
    BY <1>5, <2>1, <2>2, LockSame DEF Forkstart, hostVars, dbVars, callVars
<1>6. CASE ReleaseStart(t)
  <2>1. thr' \in [Threads -> Thread] /\ LockTypeOK'
    BY <1>0, <1>6, LeaveType, DoneType DEF ReleaseStart
  <2> QED
    BY <1>6, <2>1 DEF ReleaseStart, hostVars, dbVars, lxcVars, callVars
<1>7. CASE CheckRunning(t)
  <2>1. thr' \in [Threads -> Thread]
    BY <1>7, GotoType, LeaveType DEF CheckRunning, Pcs
  <2> QED
    BY <1>7, <2>1, LockSame DEF CheckRunning, hostVars, dbVars, lxcVars, callVars
<1>8. CASE FreezeToStop(t)
  <2>1. thr' \in [Threads -> Thread] /\ lxc' \in LxcStates
    BY <1>8, GotoType DEF FreezeToStop, Pcs, LxcStates
  <2> QED
    BY <1>8, <2>1, LockSame DEF FreezeToStop, hostVars, dbVars, callVars
<1>9. CASE KillContainer(t)
  <2>1. thr' \in [Threads -> Thread] /\ LockTypeOK'
    BY <1>9, GotoType, LeaveType, DoneType, LockSame DEF KillContainer, Pcs
  <2>2. lxc' \in LxcStates
        /\ hook' \in [step : {"none", "start", "started", "stop", "storage"},
                      target : {"stop", "reboot"}, op : OpIds \cup {NoOp}]
    BY <1>9 DEF KillContainer, LxcStates, NoHook
  <2> QED
    BY <1>9, <2>1, <2>2 DEF KillContainer, hostVars, dbVars, callVars
<1>10. CASE WaitOperation(t)
  <2>1. thr' \in [Threads -> Thread]
    BY <1>10, LeaveType DEF WaitOperation
  <2> QED
    BY <1>10, <2>1, LockSame DEF WaitOperation, hostVars, dbVars, lxcVars, callVars
<1>11. CASE SignalHalt(t)
  <2>1. thr' \in [Threads -> Thread] /\ LockTypeOK' /\ halting' \in BOOLEAN
    BY <1>11, GotoType, LeaveType, DoneType, LockSame DEF SignalHalt, Pcs
  <2> QED
    BY <1>11, <2>1 DEF SignalHalt, hostVars, dbVars, callVars
<1>12. CASE AwaitHalt(t)
  <2>1. thr' \in [Threads -> Thread] /\ LockTypeOK'
    BY <1>12, GotoType, LeaveType, DoneType, LockSame DEF AwaitHalt, Pcs
  <2> QED
    BY <1>12, <2>1 DEF AwaitHalt, hostVars, dbVars, lxcVars, callVars
<1> QED
  BY <1>1, <1>2, <1>3, <1>4, <1>5, <1>6, <1>7, <1>8, <1>9, <1>10, <1>11, <1>12
     DEF CreateOperation, Start, Stop, Shutdown

\* The container reaching STOPPED, which ends every pending forkstart.
LEMMA StoppedTypes ==
    ASSUME TypeOK, Stopped
    PROVE  /\ lxc' \in LxcStates /\ halting' \in BOOLEAN /\ down' \subseteq Threads
           /\ hook' \in [step : {"none", "start", "started", "stop", "storage"},
                         target : {"stop", "reboot"}, op : OpIds \cup {NoOp}]
           /\ thr' \in [Threads -> Thread]
<1>1. \A t \in Threads : [thr[t] EXCEPT !.pc = "release", !.res = "error"] \in Thread
  BY ThreadMoves DEF TypeOK, Pcs
<1>2. thr' \in [Threads -> Thread]
  BY <1>1 DEF Stopped, TypeOK
<1> QED
  BY <1>2 DEF Stopped, TypeOK, LxcStates, NoHook

\* The goroutine of OnStop, the hooks, LXC, the guest and the timers keep the types.
LEMMA BackgroundTypes ==
    ASSUME TypeOK,
           \/ \E t \in Threads : Cleanup(t)
           \/ Hooks \/ Lxc \/ Guest
           \/ \E o \in OpIds : Timeout(o)
    PROVE  TypeOK'
<1> USE DEF TypeOK
<1>0. NoHook \in [step : {"none", "start", "started", "stop", "storage"},
                  target : {"stop", "reboot"}, op : OpIds \cup {NoOp}]
  BY DEF NoHook
<1>1. ASSUME NEW t \in Threads, Cleanup(t)
      PROVE  TypeOK'
  <2>1. CASE Settle(t)
    <3>1. thr' \in [Threads -> Thread]
      BY <2>1, GotoType DEF Settle, Pcs
    <3> QED
      BY <2>1, <3>1, LockSame DEF Settle, hostVars, dbVars, lxcVars, callVars
  <2>2. CASE Clean(t)
    <3>1. ASSUME NEW pc \in {"get", "record"}, NEW proc \in {"none", "Start"}
          PROVE  [thr[t] EXCEPT !.pc = pc, !.proc = proc] \in Thread
      <4>1. thr[t] \in Thread
        OBVIOUS
      <4> QED
        BY <4>1 DEF Thread, Pcs
    <3>2. thr' \in [Threads -> Thread]
      BY <2>2, <3>1 DEF Clean
    <3> QED
      BY <2>2, <3>2, LockSame DEF Clean, dbVars, lxcVars, callVars
  <2>3. CASE RecordStopped(t)
    <3>1. thr' \in [Threads -> Thread]
      BY <2>3, GotoType DEF RecordStopped, Pcs
    <3> QED
      BY <2>3, <3>1, LockSame DEF RecordStopped, hostVars, lxcVars, callVars, Powers, LxcStates
  <2>4. CASE DeleteEphemeral(t)
    <3>1. thr' \in [Threads -> Thread]
      BY <2>4, GotoType DEF DeleteEphemeral, Pcs
    <3> QED
      BY <2>4, <3>1, LockSame DEF DeleteEphemeral, hostVars, lxcVars, callVars
  <2>5. CASE Unlock(t)
    <3>1. thr' \in [Threads -> Thread] /\ LockTypeOK'
      BY <2>5, IdleTypes, DoneType, LockSame DEF Unlock
    <3> QED
      BY <2>5, <3>1 DEF Unlock, hostVars, dbVars, lxcVars, callVars
  <2> QED
    BY <1>1, <2>1, <2>2, <2>3, <2>4, <2>5 DEF Cleanup
<1>2. CASE OnStart
  <2>1. CASE Stopped
    BY <1>2, <2>1, StoppedTypes, LockSame DEF OnStart, dbVars, callVars
  <2>2. CASE ~Stopped
    BY <1>2, <2>2, LockSame DEF OnStart, dbVars, callVars
  <2> QED
    BY <2>1, <2>2
<1>3. CASE OnStartRecord
  <2>1. CASE Stopped
    BY <1>3, <2>1, StoppedTypes, LockSame
       DEF OnStartRecord, hostVars, callVars, Powers, LxcStates
  <2>2. CASE ~Stopped
    BY <1>0, <1>3, <2>2, LockSame DEF OnStartRecord, hostVars, callVars, Powers, LxcStates
  <2> QED
    BY <2>1, <2>2
<1>4. CASE OnStop
  <2>1. registered[Self] \in OpIds \cup {NoOp}
    BY LifecycleAssumption DEF LockTypeOK, created
  <2>2. CASE Stopped
    BY <1>4, <2>2, StoppedTypes, LockSame
       DEF OnStop, hostVars, dbVars, callVars
  <2>3. CASE ~Stopped
    BY <1>4, <2>1, <2>3, LockSame DEF OnStop, hostVars, dbVars, callVars
  <2> QED
    BY <2>2, <2>3
<1>5. CASE OnStopStorage
  <2>1. CASE Stopped
    <3>1. LockTypeOK'
      BY <1>5, <2>1, DoneType, LockSame DEF OnStopStorage
    <3> QED
      BY <1>5, <2>1, <3>1, StoppedTypes DEF OnStopStorage, dbVars, callVars
  <2>2. CASE ~Stopped
    <3>1. PICK t \in Cleaners :
             thr' = [thr EXCEPT ![t] =
                      [Idle EXCEPT !.pc = "settle", !.req = hook.target,
                                   !.caught = hook.op, !.power = power, !.eph = ephemeral]]
      BY <1>5, <2>2 DEF OnStopStorage
    <3>2. thr' \in [Threads -> Thread]
      BY <3>1, IdleTypes
    <3> QED
      BY <1>0, <1>5, <2>2, <3>2, LockSame DEF OnStopStorage, dbVars, callVars
  <2> QED
    BY <2>1, <2>2
<1>6. CASE LxcRunning
  <2>1. \A t \in Threads : [thr[t] EXCEPT !.pc = "release", !.res = "ok"] \in Thread
    BY ThreadMoves DEF Pcs
  <2>2. thr' \in [Threads -> Thread]
    BY <1>6, <2>1 DEF LxcRunning
  <2> QED
    BY <1>6, <2>2, LockSame DEF LxcRunning, hostVars, dbVars, callVars, LxcStates
<1>7. CASE LxcStopped
  BY <1>7, StoppedTypes, LockSame DEF LxcStopped, hostVars, dbVars, callVars
<1>8. ASSUME NEW target \in {"stop", "reboot"}, GoDown(target)
      PROVE  TypeOK'
  BY <1>8, LockSame DEF GoDown, hostVars, dbVars, callVars, LxcStates, NoHook
<1>9. ASSUME NEW o \in OpIds, Timeout(o)
      PROVE  TypeOK'
  <2>1. o \in DOMAIN op /\ Complete(o, "timeout") /\ timers' = timers \ {o}
    BY <1>9 DEF Timeout, TimedOut, LockTypeOK, created
  <2>2. LockTypeOK'
    BY <2>1, CompleteFacts DEF LockTypeOK, created
  <2> QED
    BY <1>9, <2>2 DEF Timeout, hostVars, dbVars, lxcVars, callVars
<1> QED
  BY <1>1, <1>2, <1>3, <1>4, <1>5, <1>6, <1>7, <1>8, <1>9
     DEF Hooks, Lxc, Guest, LxcCrash, GuestHalt, GuestPoweroff, GuestReboot

\* The initial states are typed.
LEMMA TypeInit == Init => TypeOK
<1> SUFFICES ASSUME Init PROVE TypeOK
  OBVIOUS
<1>1. LockTypeOK
  BY DEF Init, LockInit, LockTypeOK, created
<1>2. load \in Workload
  BY LifecycleAssumption DEF Init
<1>3. thr \in [Threads -> Thread]
  BY IdleTypes DEF Init
<1>4. ephemeral \in BOOLEAN /\ sent \in [Clients -> 0 .. load.max]
  BY <1>2 DEF Init, Workload
<1>5. hook \in [step : {"none", "start", "started", "stop", "storage"},
                target : {"stop", "reboot"}, op : OpIds \cup {NoOp}]
  BY DEF Init, NoHook
<1> QED
  BY <1>1, <1>3, <1>4, <1>5 DEF Init, TypeOK, LxcStates, Powers

\* Every step keeps the types.
LEMMA TypeStep == TypeOK /\ [Next]_vars => TypeOK'
<1> SUFFICES ASSUME TypeOK, [Next]_vars PROVE TypeOK'
  OBVIOUS
<1>1. CASE Next
  BY <1>1, RequestTypes, ServeTypes, BackgroundTypes DEF Next, Run, Threads
<1>2. CASE UNCHANGED vars
  BY <1>2, LockSame DEF vars, hostVars, dbVars, lxcVars, callVars, TypeOK
<1> QED
  BY <1>1, <1>2

\* Every variable has its type in every reachable state.
THEOREM TypeCorrect == Spec => []TypeOK
BY TypeInit, TypeStep, PTL DEF Spec

---------------------------------------------------------------------------
(* The daemon implements the operation lock                                *)

\* An operation that a caller completes is one the lock knows.
LEMMA DoneIsLockStep ==
    ASSUME TypeOK, NEW o, NEW e \in {"nil", "error"}, Done(o, e)
    PROVE  LockNext
<1>1. o \in OpIds
  BY DEF TypeOK, LockTypeOK, Done, created
<1> QED
  BY <1>1 DEF LockNext, DoneAny

\* Every step of the daemon is a step of the lock or leaves the lock alone.
LEMMA LockStep ==
    ASSUME TypeOK, Next
    PROVE  [LockNext]_(lockVars)
<1> USE DEF lockVars
<1>1. ASSUME NEW t \in Threads, Run(t)
      PROVE  LockNext \/ UNCHANGED lockVars
  <2>1. CASE Begin(t) \/ KeepPower(t) \/ Return(t)
    BY <2>1 DEF Begin, BeginStart, BeginStop, BeginRestart, BeginFreeze, BeginHostShutdown,
                KeepPower, Return
  <2>2. CASE GetOperation(t) \/ ResetOperation(t)
    BY <2>2 DEF GetOperation, ResetOperation, Reset
  <2>3. CASE InsertOperation(t)
    <3>1. PICK o : Create(Self, IF thr[t].proc = "Start" THEN "start" ELSE "stop",
                               thr[t].proc = "Shutdown", o)
      BY <2>3 DEF InsertOperation
    <3>2. o \in OpIds
      BY <3>1 DEF Create
    <3> QED
      BY <3>1, <3>2, LifecycleAssumption DEF LockNext, CreateAny, Actions
  <2>4. CASE StartCommon(t) \/ Forkstart(t) \/ CheckRunning(t) \/ FreezeToStop(t) \/ WaitOperation(t)
    BY <2>4 DEF StartCommon, Forkstart, CheckRunning, FreezeToStop, WaitOperation
  <2>5. CASE ReleaseStart(t) \/ KillContainer(t) \/ SignalHalt(t) \/ AwaitHalt(t)
    BY <2>5, DoneIsLockStep DEF ReleaseStart, KillContainer, SignalHalt, AwaitHalt
  <2>6. CASE Settle(t) \/ Clean(t) \/ RecordStopped(t) \/ DeleteEphemeral(t)
    BY <2>6 DEF Settle, Clean, RecordStopped, DeleteEphemeral
  <2>7. CASE Unlock(t)
    BY <2>7, DoneIsLockStep DEF Unlock
  <2> QED
    BY <1>1, <2>1, <2>2, <2>3, <2>4, <2>5, <2>6, <2>7
       DEF Run, CreateOperation, Start, Stop, Shutdown, Cleanup
<1>2. CASE \E t \in Clients : Request(t)
  BY <1>2 DEF Request
<1>3. CASE Hooks \/ Lxc \/ Guest
  BY <1>3, DoneIsLockStep
     DEF Hooks, OnStart, OnStartRecord, OnStop, OnStopStorage, Lxc, LxcRunning, LxcStopped,
         LxcCrash, Guest, GuestHalt, GuestPoweroff, GuestReboot, GoDown
<1>4. CASE \E o \in OpIds : Timeout(o)
  BY <1>4 DEF Timeout, LockNext, TimeoutAny
<1> QED
  BY <1>1, <1>2, <1>3, <1>4 DEF Next

\* The requests, hooks, goroutines and timers of the daemon implement the
\* operation lock of ContainerOps: what is proved of the lock holds of them.
THEOREM ImplementsTheLock == Spec => ImplementsLock
<1>1. Init => LockInit
  BY DEF Init
<1>2. TypeOK /\ [Next]_vars => [LockNext]_(lockVars)
  <2>1. TypeOK /\ Next => [LockNext]_(lockVars)
    BY LockStep
  <2>2. UNCHANGED vars => UNCHANGED lockVars
    BY DEF vars, lockVars
  <2> QED
    BY <2>1, <2>2
<1> QED
  BY <1>1, <1>2, TypeCorrect, PTL DEF Spec, ImplementsLock, LockSpec

---------------------------------------------------------------------------
(* The operation lock itself, for any set of containers, any supply of     *)
(* operations and any behaviour of the callers.                            *)

\* Storing a fresh operation preserves the invariant, whatever the entry it
\* overwrites.
LEMMA LockCreateInv ==
    ASSUME LockInv, NEW c \in Containers, NEW a \in Actions, NEW r \in BOOLEAN,
           NEW o \in OpIds, Create(c, a, r, o)
    PROVE  LockInv'
<1> DEFINE rec == [id |-> c, action |-> a, reusable |-> r, err |-> "nil"]
<1>1. rec \in OpRecord
  BY DEF OpRecord, Errors
<1>2. /\ created' = created \cup {o}
      /\ op'[o] = rec
      /\ \A x \in created : op'[x] = op[x]
  BY DEF Create, created
<1>3. LockTypeOK'
  <2>1. op' \in [created' -> OpRecord]
    BY <1>1, <1>2 DEF LockInv, LockTypeOK, Create, created
  <2>2. registered' \in [Containers -> created' \cup {NoOp}]
    BY <1>2 DEF LockInv, LockTypeOK, Create
  <2> QED
    BY <1>2, <2>1, <2>2 DEF LockInv, LockTypeOK, Create
<1>4. RegisteredIsOpen'
  <2> SUFFICES ASSUME NEW d \in Containers, registered'[d] # NoOp
               PROVE  registered'[d] \notin closed' /\ op'[registered'[d]].id = d
    BY DEF RegisteredIsOpen
  <2>1. CASE d = c
    BY <1>2, <2>1 DEF LockInv, LockTypeOK, Create
  <2>2. CASE d # c
    <3>1. registered'[d] = registered[d] /\ registered[d] \in created
      BY <2>2 DEF LockInv, LockTypeOK, Create
    <3> QED
      BY <1>2, <3>1 DEF LockInv, RegisteredIsOpen, Create
  <2> QED
    BY <2>1, <2>2
<1>5. RegisteredHasTimer'
  BY DEF LockInv, LockTypeOK, RegisteredHasTimer, Create
<1> QED
  BY <1>3, <1>4, <1>5 DEF LockInv

\* Completing an operation, or finding that it is not the registered one,
\* preserves all of the invariant that does not mention the timers, and leaves
\* the operation unregistered.
LEMMA LockCompleteInv ==
    ASSUME LockInv, NEW o \in created, NEW e \in Errors, Complete(o, e)
    PROVE  /\ created' = created
           /\ op' \in [created -> OpRecord]
           /\ registered' \in [Containers -> created \cup {NoOp}]
           /\ closed' \subseteq created
           /\ RegisteredIsOpen'
           /\ \A c \in Containers : registered'[c] # NoOp =>
                  registered'[c] = registered[c] /\ registered[c] # o
<1> USE DEF LockInv, LockTypeOK
<1>1. o \in OpIds /\ op[o].id \in Containers /\ o # NoOp
  BY LifecycleAssumption, NoOpAssumption DEF OpRecord
<1>2. CASE registered[op[o].id] = o
  <2>1. /\ op' = [op EXCEPT ![o].err = e]
        /\ closed' = closed \cup {o}
        /\ registered' = [registered EXCEPT ![op[o].id] = NoOp]
    BY <1>2 DEF Complete
  <2>2. created' = created
    BY <2>1 DEF created
  <2>3. op' \in [created -> OpRecord] /\ \A x \in created : op'[x].id = op[x].id
    BY <2>1 DEF OpRecord
  <2>4. registered' \in [Containers -> created \cup {NoOp}]
    BY <2>1
  <2>5. \A c \in Containers : registered'[c] # NoOp =>
            registered'[c] = registered[c] /\ registered[c] # o
    BY <1>1, <2>1 DEF RegisteredIsOpen
  <2>6. RegisteredIsOpen'
    BY <2>1, <2>3, <2>4, <2>5 DEF RegisteredIsOpen
  <2> QED
    BY <2>1, <2>2, <2>3, <2>4, <2>5, <2>6
<1>3. CASE registered[op[o].id] # o
  <2>1. UNCHANGED <<op, closed, registered>>
    BY <1>3 DEF Complete
  <2>2. \A c \in Containers : registered[c] # o
    BY <1>1, <1>3 DEF RegisteredIsOpen
  <2> QED
    BY <2>1, <2>2 DEF RegisteredIsOpen, created
<1> QED
  BY <1>2, <1>3

\* Every step of the lock preserves the invariant.
LEMMA LockNextInv ==
    ASSUME LockInv, [LockNext]_(lockVars)
    PROVE  LockInv'
<1>1. CASE CreateAny
  BY <1>1, LockCreateInv DEF CreateAny
<1>2. CASE DoneAny
  <2>1. PICK o \in OpIds, e \in {"nil", "error"} : Done(o, e)
    BY <1>2 DEF DoneAny
  <2>2. o \in created /\ e \in Errors /\ Complete(o, e) /\ timers' = timers
    BY <2>1 DEF Done, Errors
  <2> QED
    BY <2>2, LockCompleteInv DEF LockInv, LockTypeOK, RegisteredHasTimer
<1>3. CASE ResetAny
  BY <1>3 DEF ResetAny, Reset, lockVars, LockInv, LockTypeOK, created,
              RegisteredIsOpen, RegisteredHasTimer
<1>4. CASE TimeoutAny
  <2>1. PICK o \in OpIds : TimedOut(o)
    BY <1>4 DEF TimeoutAny
  <2>2. o \in created /\ "timeout" \in Errors /\ Complete(o, "timeout")
        /\ timers' = timers \ {o}
    BY <2>1 DEF TimedOut, Errors, LockInv, LockTypeOK
  <2> QED
    BY <2>2, LockCompleteInv DEF LockInv, LockTypeOK, RegisteredHasTimer
<1>5. CASE UNCHANGED lockVars
  BY <1>5 DEF lockVars, LockInv, LockTypeOK, created, RegisteredIsOpen, RegisteredHasTimer
<1> QED
  BY <1>1, <1>2, <1>3, <1>4, <1>5 DEF LockNext

\* The inductive invariant holds in every reachable state of the lock.
THEOREM LockInvariant == LockSpec => []LockInv
<1>1. LockInit => LockInv
  BY DEF LockInit, LockInv, LockTypeOK, created, RegisteredIsOpen, RegisteredHasTimer, OpRecord
<1>2. LockInv /\ [LockNext]_(lockVars) => LockInv'
  BY LockNextInv
<1> QED
  BY <1>1, <1>2, PTL DEF LockSpec

\* Type correctness of the operation lock of container_lxc.go.
THEOREM LockTypeCorrect == LockSpec => []LockTypeOK
<1>1. LockInv => LockTypeOK
  BY DEF LockInv
<1> QED
  BY <1>1, LockInvariant, PTL

\* Done never closes a closed chanDone, and a container's entry is always an
\* operation of that container.
THEOREM NeverDoubleClose == LockSpec => []RegisteredIsOpen
<1>1. LockInv => RegisteredIsOpen
  BY DEF LockInv
<1> QED
  BY <1>1, LockInvariant, PTL

\* An operation that is registered is never without the timer that will free it.
THEOREM TimerAlways == LockSpec => []RegisteredHasTimer
<1>1. LockInv => RegisteredHasTimer
  BY DEF LockInv
<1> QED
  BY <1>1, LockInvariant, PTL

\* A completed operation keeps its result and stays completed.
THEOREM DoneIsFinal == LockSpec => CompletedOnce
<1> DEFINE Step == \A o \in closed : o \in closed' /\ op'[o] = op[o]
<1>1. ASSUME LockInv, [LockNext]_(lockVars)
      PROVE  Step
  <2>1. ASSUME NEW o \in created, NEW e \in Errors, Complete(o, e)
        PROVE  Step
    <3>1. CASE registered[op[o].id] = o
      <4>1. o \notin closed
        BY <1>1, <3>1, LifecycleAssumption, NoOpAssumption
           DEF LockInv, LockTypeOK, RegisteredIsOpen, OpRecord
      <4>2. closed' = closed \cup {o} /\ \A x \in created : x # o => op'[x] = op[x]
        BY <1>1, <2>1, <3>1 DEF Complete, LockInv, LockTypeOK
      <4> QED
        BY <1>1, <4>1, <4>2 DEF LockInv, LockTypeOK
    <3>2. CASE registered[op[o].id] # o
      BY <2>1, <3>2 DEF Complete
    <3> QED
      BY <3>1, <3>2
  <2>2. CASE CreateAny
    BY <1>1, <2>2 DEF CreateAny, Create, created, LockInv, LockTypeOK
  <2>3. CASE DoneAny
    BY <2>1, <2>3 DEF DoneAny, Done, Errors
  <2>4. CASE ResetAny
    BY <2>4 DEF ResetAny, Reset, lockVars
  <2>5. CASE TimeoutAny
    BY <1>1, <2>1, <2>5 DEF TimeoutAny, TimedOut, Errors, LockInv, LockTypeOK
  <2>6. CASE UNCHANGED lockVars
    BY <2>6 DEF lockVars
  <2> QED
    BY <1>1, <2>2, <2>3, <2>4, <2>5, <2>6 DEF LockNext
<1>2. LockInv /\ [LockNext]_(lockVars) => [Step]_lockVars
  BY <1>1
<1> QED
  BY <1>2, LockInvariant, PTL DEF LockSpec, CompletedOnce

\* Only completing the operation that holds a container frees the container.
THEOREM OnlyOwnerFrees == LockSpec => FreedByItsOwner
<1> DEFINE Step == \A c \in Containers :
                      registered[c] # NoOp /\ registered'[c] = NoOp
                          => registered[c] \in closed' \ closed
<1>1. ASSUME LockInv, [LockNext]_(lockVars)
      PROVE  Step
  <2>1. ASSUME NEW o \in created, NEW e \in Errors, Complete(o, e)
        PROVE  Step
    BY <1>1, <2>1 DEF Complete, LockInv, LockTypeOK, RegisteredIsOpen, OpRecord
  <2>2. CASE CreateAny
    BY <1>1, <2>2, NoOpAssumption DEF CreateAny, Create, LockInv, LockTypeOK
  <2>3. CASE DoneAny
    BY <2>1, <2>3 DEF DoneAny, Done, Errors
  <2>4. CASE ResetAny
    BY <2>4 DEF ResetAny, Reset, lockVars
  <2>5. CASE TimeoutAny
    BY <1>1, <2>1, <2>5 DEF TimeoutAny, TimedOut, Errors, LockInv, LockTypeOK
  <2>6. CASE UNCHANGED lockVars
    BY <2>6 DEF lockVars
  <2> QED
    BY <1>1, <2>2, <2>3, <2>4, <2>5, <2>6 DEF LockNext
<1>2. LockInv /\ [LockNext]_(lockVars) => [Step]_lockVars
  BY <1>1
<1> QED
  BY <1>2, LockInvariant, PTL DEF LockSpec, FreedByItsOwner

---------------------------------------------------------------------------

\* The container's entry in the map always is an operation of that container that
\* is open and has its timer, and only completing it frees the container, whatever
\* requests, hooks and goroutines the daemon runs.
THEOREM LockSafe == Spec => []LockInv /\ FreedByItsOwner
<1> QED
  BY ImplementsTheLock, LockInvariant, OnlyOwnerFrees, PTL DEF ImplementsLock

---------------------------------------------------------------------------
(* The inductive invariant behind LifecycleInv                             *)

StartPcs == {"common", "fork", "forked", "release"}
StopPcs  == {"reset", "act", "kill", "await", "wait"}

\* A hook runs only while LXC brings the container up or down, and the storage is
\* mounted from the end of OnStart to the end of OnStop.
HookInv ==
    /\ hook.step \in {"start", "started"} => lxc = "STARTING"
    /\ hook.step \in {"stop", "storage"} => lxc = "STOPPING"
    /\ lxc = "STARTING" /\ hook.step # "start" => mounted
    /\ MountedWhileRunning
    /\ hook.op \in DOMAIN op \cup {NoOp}

\* Only Shutdown makes its operation reusable.
ReusableStops == \A o \in DOMAIN op : op[o].reusable => op[o].action = "stop"

\* A forced stop under way with an operation of its own.
Killing(t) ==
    /\ thr[t].pc \in {"act", "kill", "wait"} /\ thr[t].proc = "Stop"
    /\ ~op[thr[t].op].reusable

\* The thread has seen the container down, or need not have.
Excused(t) == t \in down \/ "hang" \in load.events

\* A thread in createOperation or beyond knows which function it is in, and holds
\* an operation of that function once it has one.
HoldsOp(t) ==
    /\ thr[t].pc \in StartPcs =>
          thr[t].proc = "Start" /\ thr[t].op \in DOMAIN op /\ op[thr[t].op].action = "start"
    /\ thr[t].pc \in StopPcs =>
          /\ thr[t].proc \in {"Stop", "Shutdown"}
          /\ thr[t].op \in DOMAIN op /\ op[thr[t].op].action = "stop"
    /\ thr[t].pc = "await" => thr[t].proc = "Shutdown"
    /\ thr[t].pc = "kill" => thr[t].proc = "Stop"
    /\ thr[t].pc = "check" => thr[t].proc \in {"Stop", "Shutdown"}
    /\ thr[t].pc \in {"get", "insert"} => thr[t].proc # "none"
    /\ thr[t].pc = "keep" => thr[t].req = "host shutdown"
    /\ thr[t].pc \in {"settle", "clean", "record", "delete", "unlock"} => t \in Cleaners
    /\ thr[t].req = "stop" => thr[t].proc \in {"none", "Stop"}
    /\ thr[t].req = "shutdown" => thr[t].proc \in {"none", "Shutdown"}
    /\ thr[t].pc = "return" /\ thr[t].req = "stop" /\ thr[t].res = "ok" => thr[t].op \in DOMAIN op
    /\ thr[t].caught \in DOMAIN op \cup {NoOp}
    /\ thr[t].pc = "idle" => thr[t].req = "none"

\* Who is at work while the container is stopped has seen it down, and so has a
\* Shutdown that waits for its operation, a stop whose own operation was completed
\* without an error, and whoever returns success.
SawDown(t) ==
    /\ lxc = "STOPPED" /\ thr[t].pc # "idle" => t \in down
    /\ thr[t].pc = "wait" /\ thr[t].proc = "Shutdown" => t \in down
    /\ Killing(t) /\ thr[t].op \in closed /\ op[thr[t].op].err = "nil" => Excused(t)
    /\ (thr[t].pc = "return" /\ thr[t].req \in {"stop", "shutdown"} /\ thr[t].res = "ok")
          => t \in down \/ (thr[t].req = "stop" /\ (Joined(t) \/ "hang" \in load.events))

\* The goroutine of OnStop is past its wait for LXC only when the stop whose
\* operation it holds has seen the container down.
CaughtSawDown(k, t) ==
    (Killing(t) /\ thr[t].op = thr[k].caught)
        => Excused(t) \/ (thr[k].pc = "settle" /\ lxc = "STOPPING")

ThreadsInv == \A t \in Threads : HoldsOp(t)
DownInv    == \A t \in Clients : SawDown(t)
CaughtInv  == \A k \in Cleaners, t \in Clients : CaughtSawDown(k, t)

LifecycleIInv == TypeOK /\ HookInv /\ ReusableStops /\ ThreadsInv /\ DownInv /\ CaughtInv

\* Operations stay what they are while the lock runs.
OpsKept ==
    /\ DOMAIN op \subseteq DOMAIN op'
    /\ \A x \in DOMAIN op : op'[x].action = op[x].action /\ op'[x].reusable = op[x].reusable

\* No stop's own operation is completed without an error unless the stop has seen
\* the container down.
NilKept(u) ==
    (Killing(u) /\ thr[u].op \in closed' /\ op'[thr[u].op].err = "nil")
        => Excused(u) \/ (thr[u].op \in closed /\ op[thr[u].op].err = "nil")

\* A thread that does not move keeps what it holds.
LEMMA HoldsKept ==
    ASSUME LifecycleIInv, OpsKept, NEW u \in Threads, thr'[u] = thr[u]
    PROVE  HoldsOp(u)'
<1>1. HoldsOp(u)
  BY DEF LifecycleIInv, ThreadsInv
<1> QED
  BY <1>1 DEF HoldsOp, OpsKept

\* A client that does not move keeps what it has seen.
LEMMA SawKept ==
    ASSUME LifecycleIInv, OpsKept, NEW u \in Clients, NilKept(u), thr'[u] = thr[u],
           load' = load, u \in down => u \in down',
           lxc' = "STOPPED" /\ thr[u].pc # "idle" => lxc = "STOPPED" \/ u \in down'
    PROVE  SawDown(u)'
<1>1. SawDown(u) /\ HoldsOp(u)
  BY DEF LifecycleIInv, DownInv, ThreadsInv, Threads
<1>2. Excused(u) => Excused(u)'
  BY DEF Excused
<1>3. Killing(u)' => Killing(u)
  BY <1>1 DEF Killing, OpsKept, HoldsOp, StopPcs
<1>4. (Killing(u) /\ thr[u].op \in closed /\ op[thr[u].op].err = "nil") => Excused(u)
  BY <1>1 DEF SawDown
<1>5. (Killing(u) /\ thr[u].op \in closed /\ op[thr[u].op].err = "nil")' => Excused(u)'
  BY <1>2, <1>3, <1>4 DEF NilKept
<1>6. (thr[u].pc = "return" /\ thr[u].req \in {"stop", "shutdown"} /\ thr[u].res = "ok")
          => u \in down' \/ (thr[u].req = "stop" /\ (Joined(u)' \/ "hang" \in load.events))
  BY <1>1 DEF SawDown, HoldsOp, Joined, OpsKept
<1> QED
  BY <1>1, <1>5, <1>6 DEF SawDown

\* One thread moves and the container does not reach STOPPED: the invariant is
\* kept if the thread's own part of it is.
LEMMA MoveOne ==
    ASSUME LifecycleIInv, TypeOK', HookInv', ReusableStops',
           OpsKept, \A u \in Clients : NilKept(u),
           load' = load, down' = down,
           lxc' = "STOPPED" => lxc = "STOPPED", lxc = "STOPPING" => lxc' = "STOPPING",
           NEW t \in Threads, \A u \in Threads \ {t} : thr'[u] = thr[u],
           HoldsOp(t)', t \in Clients => SawDown(t)',
           \/ thr'[t].caught = NoOp
           \/ thr'[t].pc = "settle" /\ lxc' = "STOPPING"
           \/ /\ thr'[t].caught = thr[t].caught
              /\ thr[t].pc = "settle" => lxc # "STOPPING" \/ "hang" \in load.events,
           Killing(t)' => \/ Killing(t) /\ thr'[t].op = thr[t].op
                          \/ thr'[t].op \notin DOMAIN op
    PROVE  LifecycleIInv'
<1>1. ThreadsInv'
  BY HoldsKept DEF ThreadsInv
<1>2. DownInv'
  <2> SUFFICES ASSUME NEW u \in Clients PROVE SawDown(u)'
    BY DEF DownInv
  <2>1. CASE u = t
    BY <2>1
  <2>2. CASE u # t
    BY <2>2, SawKept DEF Threads
  <2> QED
    BY <2>1, <2>2
<1>3. CaughtInv'
  <2> SUFFICES ASSUME NEW k \in Cleaners, NEW u \in Clients,
                      Killing(u)', thr'[u].op = thr'[k].caught
               PROVE  Excused(u)' \/ (thr'[k].pc = "settle" /\ lxc' = "STOPPING")
    BY DEF CaughtInv, CaughtSawDown
  <2>0. k \in Threads /\ u \in Threads /\ k # u
    BY LifecycleAssumption DEF Threads
  <2>1. thr'[u].op \in DOMAIN op' /\ DOMAIN op' \subseteq OpIds
    BY <1>1, <2>0 DEF ThreadsInv, HoldsOp, Killing, StopPcs, TypeOK, LockTypeOK, created
  <2>2. thr'[k].caught # NoOp
    BY <2>1, LifecycleAssumption, NoOpAssumption
  <2>3. CASE thr'[k].pc = "settle" /\ lxc' = "STOPPING"
    BY <2>3
  <2>4. CASE ~(thr'[k].pc = "settle" /\ lxc' = "STOPPING")
    <3>1. thr'[k].caught = thr[k].caught /\ thr[k].caught \in DOMAIN op
      BY <2>0, <2>2, <2>4 DEF LifecycleIInv, ThreadsInv, HoldsOp
    <3>2. thr[k].pc = "settle" => lxc # "STOPPING" \/ "hang" \in load.events
      BY <2>0, <2>2, <2>4
    <3>3. Killing(u) /\ thr'[u].op = thr[u].op
      <4>1. CASE u = t
        BY <3>1, <4>1
      <4>2. CASE u # t
        <5>1. thr'[u] = thr[u] /\ HoldsOp(u)
          BY <2>0, <4>2 DEF LifecycleIInv, ThreadsInv
        <5> QED
          BY <5>1 DEF Killing, OpsKept, HoldsOp, StopPcs
      <4> QED
        BY <4>1, <4>2
    <3>4. CaughtSawDown(k, u)
      BY DEF LifecycleIInv, CaughtInv
    <3> QED
      BY <3>1, <3>2, <3>3, <3>4 DEF CaughtSawDown, Excused
  <2> QED
    BY <2>3, <2>4
<1> QED
  BY <1>1, <1>2, <1>3 DEF LifecycleIInv

\* A step that leaves the lock alone leaves the operations alone.
LEMMA LockQuiet ==
    ASSUME LifecycleIInv, UNCHANGED lockVars
    PROVE  OpsKept /\ ReusableStops' /\ \A u \in Clients : NilKept(u)
BY DEF LifecycleIInv, lockVars, OpsKept, ReusableStops, NilKept

\* The hook's part of the invariant, when LXC, its hook and the mount stay.
LEMMA HookSame ==
    ASSUME LifecycleIInv, OpsKept, UNCHANGED <<lxc, hook, mounted>>
    PROVE  HookInv'
BY DEF LifecycleIInv, HookInv, OpsKept, MountedWhileRunning

\* A client that moves on, and not to the end of a stop.
LEMMA SawMove ==
    ASSUME LifecycleIInv, NEW t \in Clients, thr[t].pc # "idle",
           lxc' = "STOPPED" => lxc = "STOPPED", down' = down,
           thr'[t].pc \notin {"act", "kill", "wait"},
           thr'[t].pc = "return" => thr'[t].res # "ok" \/ thr'[t].req \notin {"stop", "shutdown"}
    PROVE  SawDown(t)'
<1>1. SawDown(t)
  BY DEF LifecycleIInv, DownInv
<1> QED
  BY <1>1 DEF SawDown, Killing

\* Where Leave takes a thread.
LEMMA LeaveFacts ==
    ASSUME thr \in [Threads -> Thread], NEW t \in Threads, NEW res, Leave(t, res)
    PROVE  /\ \A u \in Threads \ {t} : thr'[u] = thr[u]
           /\ thr'[t].caught = thr[t].caught /\ thr'[t].op = thr[t].op
           /\ thr'[t].req = thr[t].req
           /\ \/ t \in Cleaners /\ thr'[t].pc = "unlock" /\ thr'[t].proc = thr[t].proc
              \/ thr[t].req \in Restarts /\ thr'[t].pc = "get" /\ thr'[t].proc = "Start"
              \/ thr[t].req = "host shutdown" /\ thr'[t].pc = "check" /\ thr'[t].proc = "Stop"
              \/ thr[t].req = "host shutdown" /\ thr'[t].pc = "keep" /\ thr'[t].proc = thr[t].proc
              \/ /\ t \notin Cleaners
                 /\ thr'[t].pc = "return" /\ thr'[t].res = res /\ thr'[t].proc = thr[t].proc
<1> DEFINE r == thr[t]
           n1 == [r EXCEPT !.pc = "unlock"]
           n2 == [r EXCEPT !.proc = "Start", !.pc = "get"]
           n3 == [r EXCEPT !.proc = "Stop", !.pc = "check"]
           n4 == [r EXCEPT !.pc = "keep", !.res = "ok"]
           n5 == [r EXCEPT !.pc = "return", !.res = res]
<1>1. r \in Thread
  OBVIOUS
<1>2. /\ n1.pc = "unlock" /\ n1.proc = r.proc
      /\ n1.caught = r.caught /\ n1.op = r.op /\ n1.req = r.req
  BY <1>1 DEF Thread
<1>3. /\ n2.pc = "get" /\ n2.proc = "Start"
      /\ n2.caught = r.caught /\ n2.op = r.op /\ n2.req = r.req
  BY <1>1 DEF Thread
<1>4. /\ n3.pc = "check" /\ n3.proc = "Stop"
      /\ n3.caught = r.caught /\ n3.op = r.op /\ n3.req = r.req
  BY <1>1 DEF Thread
<1>5. /\ n4.pc = "keep" /\ n4.proc = r.proc
      /\ n4.caught = r.caught /\ n4.op = r.op /\ n4.req = r.req
  BY <1>1 DEF Thread
<1>6. /\ n5.pc = "return" /\ n5.proc = r.proc /\ n5.res = res
      /\ n5.caught = r.caught /\ n5.op = r.op /\ n5.req = r.req
  BY <1>1 DEF Thread
<1>7. /\ thr'[t] = (CASE t \in Cleaners -> n1
                      [] r.req \in Restarts /\ r.proc # "Start" /\ res = "ok" -> n2
                      [] r.req = "host shutdown" /\ r.proc = "Shutdown" -> n3
                      [] r.req = "host shutdown" /\ r.proc = "Stop" -> n4
                      [] OTHER -> n5)
      /\ \A u \in Threads \ {t} : thr'[u] = thr[u]
  BY DEF Leave
<1> HIDE DEF n1, n2, n3, n4, n5, r
<1>8. \/ t \in Cleaners /\ thr'[t] = n1
      \/ r.req \in Restarts /\ thr'[t] = n2
      \/ r.req = "host shutdown" /\ thr'[t] = n3
      \/ r.req = "host shutdown" /\ thr'[t] = n4
      \/ t \notin Cleaners /\ thr'[t] = n5
  BY <1>7
<1> QED
  BY <1>2, <1>3, <1>4, <1>5, <1>6, <1>7, <1>8 DEF r

\* Leaving Start, Stop or Shutdown keeps the thread's part of the invariant, if a
\* stop that succeeds has seen the container down or has an excuse.
LEMMA LeaveKeeps ==
    ASSUME LifecycleIInv, OpsKept, NEW t \in Threads, thr[t].pc \notin {"idle", "settle"},
           NEW res, Leave(t, res), lxc' = lxc, down' = down, load' = load,
           (t \in Clients /\ res = "ok" /\ thr[t].req \in {"stop", "shutdown"}) =>
               /\ thr[t].op \in DOMAIN op
               /\ \/ t \in down
                  \/ thr[t].req = "stop" /\ (Joined(t) \/ "hang" \in load.events)
    PROVE  /\ \A u \in Threads \ {t} : thr'[u] = thr[u]
           /\ HoldsOp(t)' /\ (t \in Clients => SawDown(t)')
           /\ thr'[t].caught = thr[t].caught /\ ~Killing(t)'
<1>1. thr \in [Threads -> Thread]
  BY DEF LifecycleIInv, TypeOK
<1>2. /\ \A u \in Threads \ {t} : thr'[u] = thr[u]
      /\ thr'[t].caught = thr[t].caught /\ thr'[t].op = thr[t].op
      /\ thr'[t].req = thr[t].req
      /\ \/ t \in Cleaners /\ thr'[t].pc = "unlock" /\ thr'[t].proc = thr[t].proc
         \/ thr[t].req \in Restarts /\ thr'[t].pc = "get" /\ thr'[t].proc = "Start"
         \/ thr[t].req = "host shutdown" /\ thr'[t].pc = "check" /\ thr'[t].proc = "Stop"
         \/ thr[t].req = "host shutdown" /\ thr'[t].pc = "keep" /\ thr'[t].proc = thr[t].proc
         \/ /\ t \notin Cleaners
            /\ thr'[t].pc = "return" /\ thr'[t].res = res /\ thr'[t].proc = thr[t].proc
  BY <1>1, LeaveFacts
<1>3. ~Killing(t)' /\ thr'[t].pc \notin {"act", "kill", "wait", "idle"}
  BY <1>2 DEF Killing
<1>4. HoldsOp(t)
  BY DEF LifecycleIInv, ThreadsInv
<1>5. t \in Cleaners => t \notin Clients
  BY LifecycleAssumption
<1>6. thr'[t].caught \in DOMAIN op' \cup {NoOp}
  BY <1>2, <1>4 DEF HoldsOp, OpsKept
<1>7. HoldsOp(t)'
  <2>1. CASE t \in Cleaners /\ thr'[t].pc = "unlock" /\ thr'[t].proc = thr[t].proc
    BY <1>2, <1>4, <1>6, <2>1 DEF HoldsOp, StartPcs, StopPcs
  <2>2. CASE thr[t].req \in Restarts /\ thr'[t].pc = "get" /\ thr'[t].proc = "Start"
    BY <1>2, <1>6, <2>2 DEF HoldsOp, StartPcs, StopPcs, Restarts
  <2>3. CASE thr[t].req = "host shutdown" /\ thr'[t].pc = "check" /\ thr'[t].proc = "Stop"
    BY <1>2, <1>6, <2>3 DEF HoldsOp, StartPcs, StopPcs
  <2>4. CASE thr[t].req = "host shutdown" /\ thr'[t].pc = "keep" /\ thr'[t].proc = thr[t].proc
    BY <1>2, <1>6, <2>4 DEF HoldsOp, StartPcs, StopPcs
  <2>5. CASE /\ t \notin Cleaners
             /\ thr'[t].pc = "return" /\ thr'[t].res = res /\ thr'[t].proc = thr[t].proc
    <3>1. (thr'[t].req = "stop" /\ thr'[t].res = "ok") => thr'[t].op \in DOMAIN op'
      BY <1>2, <2>5 DEF OpsKept, Threads
    <3> QED
      BY <1>2, <1>4, <1>6, <2>5, <3>1 DEF HoldsOp, StartPcs, StopPcs
  <2> QED
    BY <1>2, <2>1, <2>2, <2>3, <2>4, <2>5
<1>8. ASSUME t \in Clients
      PROVE  SawDown(t)'
  <2>1. lxc' = "STOPPED" => t \in down'
    BY <1>8 DEF LifecycleIInv, DownInv, SawDown
  <2>2. Joined(t) /\ thr[t].op \in DOMAIN op => Joined(t)'
    BY <1>2 DEF Joined, OpsKept
  <2>3. (thr'[t].pc = "return" /\ thr'[t].req \in {"stop", "shutdown"} /\ thr'[t].res = "ok")
          => t \in down' \/ (thr'[t].req = "stop" /\ (Joined(t)' \/ "hang" \in load'.events))
    BY <1>2, <1>5, <1>8, <2>2
  <2> QED
    BY <1>3, <2>1, <2>3 DEF SawDown
<1> QED
  BY <1>2, <1>3, <1>7, <1>8

\* One thread moves on, the lock and LXC stay, and no stop ends or begins to wait.
LEMMA QuietMove ==
    ASSUME LifecycleIInv, TypeOK', UNCHANGED <<lockVars, lxc, hook, mounted, down, load>>,
           NEW t \in Threads, \A u \in Threads \ {t} : thr'[u] = thr[u],
           thr[t].pc # "idle", thr'[t].pc \notin {"act", "kill", "wait"}, HoldsOp(t)',
           thr'[t].pc = "return" => thr'[t].res # "ok" \/ thr'[t].req \notin {"stop", "shutdown"},
           \/ thr'[t].caught = NoOp
           \/ /\ thr'[t].caught = thr[t].caught
              /\ thr[t].pc = "settle" => lxc # "STOPPING" \/ "hang" \in load.events
    PROVE  LifecycleIInv'
<1>1. OpsKept /\ ReusableStops' /\ \A u \in Clients : NilKept(u)
  BY LockQuiet
<1>2. HookInv'
  BY <1>1, HookSame
<1>3. t \in Clients => SawDown(t)'
  BY SawMove
<1>4. ~Killing(t)'
  BY DEF Killing
<1> QED
  BY <1>1, <1>2, <1>3, <1>4, MoveOne

\* A request begins: the client has seen the container as it is.
LEMMA RequestKeeps ==
    ASSUME LifecycleIInv, TypeOK', NEW t \in Clients, Request(t)
    PROVE  LifecycleIInv'
<1>1. PICK r \in load.requests :
          thr' = [thr EXCEPT ![t] =
                     [Idle EXCEPT !.pc = "begin", !.req = r, !.power = power, !.eph = ephemeral]]
  BY DEF Request
<1>2. thr \in [Threads -> Thread] /\ t \in Threads
  BY DEF LifecycleIInv, TypeOK, Threads
<1>3. /\ \A u \in Threads \ {t} : thr'[u] = thr[u]
      /\ thr'[t].pc = "begin" /\ thr'[t].proc = "none" /\ thr'[t].caught = NoOp
  BY <1>1, <1>2 DEF Idle
<1>4. UNCHANGED <<lockVars, lxc, hook, mounted, load>>
      /\ down' = IF lxc # "STOPPED" THEN down \ {t} ELSE down \cup {t}
  BY DEF Request, hostVars, IsRunning
<1>5. OpsKept /\ ReusableStops' /\ \A u \in Clients : NilKept(u)
  BY <1>4, LockQuiet
<1>6. HookInv'
  BY <1>4, <1>5, HookSame
<1>7. HoldsOp(t)'
  BY <1>3 DEF HoldsOp, StartPcs, StopPcs
<1>8. ThreadsInv'
  BY <1>3, <1>5, <1>7, HoldsKept DEF ThreadsInv
<1>9. SawDown(t)'
  BY <1>3, <1>4 DEF SawDown, Killing
<1>10. DownInv'
  <2> SUFFICES ASSUME NEW u \in Clients, u # t PROVE SawDown(u)'
    BY <1>9 DEF DownInv
  <2> QED
    BY <1>3, <1>4, <1>5, SawKept DEF Threads
<1>11. CaughtInv'
  <2> SUFFICES ASSUME NEW k \in Cleaners, NEW u \in Clients PROVE CaughtSawDown(k, u)'
    BY DEF CaughtInv
  <2>1. k # t /\ thr'[k] = thr[k] /\ CaughtSawDown(k, u)
    BY <1>3, LifecycleAssumption DEF Threads, LifecycleIInv, CaughtInv
  <2>2. u = t => ~Killing(u)'
    BY <1>3 DEF Killing
  <2>3. u # t => (u \in down <=> u \in down') /\ thr'[u] = thr[u]
    BY <1>3, <1>4 DEF Threads
  <2> QED
    BY <1>4, <2>1, <2>2, <2>3 DEF CaughtSawDown, Killing, Excused, lockVars
<1> QED
  BY <1>5, <1>6, <1>8, <1>10, <1>11 DEF LifecycleIInv

\* The first steps of a request, KeepPower and Return keep the invariant.
LEMMA BeginKeeps ==
    ASSUME LifecycleIInv, TypeOK', NEW t \in Threads, Begin(t) \/ KeepPower(t) \/ Return(t)
    PROVE  LifecycleIInv'
<1>0. thr \in [Threads -> Thread] /\ thr[t] \in Thread /\ HoldsOp(t)
  BY DEF LifecycleIInv, TypeOK, ThreadsInv
<1>1. CASE BeginStart(t)
  <2>1. /\ \A u \in Threads \ {t} : thr'[u] = thr[u]
        /\ thr'[t].pc = "get" /\ thr'[t].proc = "Start" /\ thr'[t].caught = thr[t].caught
        /\ thr'[t].req = "start" /\ thr[t].pc = "begin"
    BY <1>0, <1>1 DEF BeginStart, Enter, At, Thread
  <2>2. UNCHANGED <<lockVars, lxc, hook, mounted, down, load>>
    BY <1>1 DEF BeginStart, hostVars, lxcVars, callVars
  <2>3. HoldsOp(t)'
    BY <1>0, <2>1, <2>2 DEF HoldsOp, StartPcs, StopPcs, lockVars
  <2> QED
    BY <2>1, <2>2, <2>3, QuietMove
<1>2. CASE BeginStop(t)
  <2>1. /\ \A u \in Threads \ {t} : thr'[u] = thr[u]
        /\ thr'[t].pc = "check" /\ thr'[t].caught = thr[t].caught /\ thr[t].pc = "begin"
        /\ thr'[t].proc = (IF thr'[t].req = "stop" THEN "Stop" ELSE "Shutdown")
        /\ thr'[t].req \in {"stop", "shutdown"}
    BY <1>0, <1>2 DEF BeginStop, Enter, At, Thread
  <2>2. UNCHANGED <<lockVars, hook, mounted, down, load>>
        /\ (lxc' = lxc \/ (lxc = "FROZEN" /\ lxc' = "RUNNING"))
    BY <1>2 DEF BeginStop, hostVars, callVars
  <2>3. HoldsOp(t)'
    BY <1>0, <2>1, <2>2 DEF HoldsOp, StartPcs, StopPcs, lockVars
  <2>4. OpsKept /\ ReusableStops' /\ \A u \in Clients : NilKept(u)
    BY <2>2, LockQuiet
  <2>5. HookInv'
    BY <2>2 DEF LifecycleIInv, HookInv, MountedWhileRunning, lockVars
  <2>6. t \in Clients => SawDown(t)'
    BY <2>1, <2>2, SawMove
  <2>7. ~Killing(t)'
    BY <2>1 DEF Killing
  <2> QED
    BY <2>1, <2>2, <2>3, <2>4, <2>5, <2>6, <2>7, MoveOne
<1>3. CASE BeginRestart(t)
  <2> DEFINE r == [thr[t] EXCEPT !.resetEph = thr[t].eph, !.eph = FALSE]
             n == CASE r.req = "restart" -> [r EXCEPT !.proc = "Stop", !.pc = "check"]
                    [] r.req # "restart" /\ lxc = "FROZEN" ->
                          [r EXCEPT !.pc = "return", !.res = "error"]
                    [] OTHER -> [r EXCEPT !.proc = "Shutdown", !.pc = "check"]
  <2>1. thr[t].pc = "begin" /\ thr[t].req \in Restarts /\ thr' = [thr EXCEPT ![t] = n]
    BY <1>3 DEF BeginRestart, At
  <2>2. r \in Thread /\ r.req = thr[t].req /\ r.caught = thr[t].caught /\ r.proc = thr[t].proc
    BY <1>0 DEF Thread
  <2>3. /\ n.req = thr[t].req /\ n.caught = thr[t].caught
        /\ \/ n.pc = "check" /\ n.proc \in {"Stop", "Shutdown"}
           \/ n.pc = "return" /\ n.res = "error"
    <3> HIDE DEF r
    <3>1. CASE r.req = "restart"
      BY <2>2, <3>1 DEF Thread
    <3>2. CASE r.req # "restart" /\ lxc = "FROZEN"
      BY <2>2, <3>2 DEF Thread
    <3>3. CASE r.req # "restart" /\ lxc # "FROZEN"
      BY <2>2, <3>3 DEF Thread
    <3> QED
      BY <3>1, <3>2, <3>3
  <2> HIDE DEF n
  <2>4. thr'[t] = n /\ \A u \in Threads \ {t} : thr'[u] = thr[u]
    BY <1>0, <2>1
  <2>5. UNCHANGED <<lockVars, lxc, hook, mounted, down, load>>
    BY <1>3 DEF BeginRestart, hostVars, lxcVars, callVars
  <2>6. HoldsOp(t)'
    BY <1>0, <2>1, <2>3, <2>4, <2>5 DEF HoldsOp, StartPcs, StopPcs, lockVars, Restarts
  <2> QED
    BY <2>1, <2>3, <2>4, <2>5, <2>6, QuietMove
<1>4. CASE BeginFreeze(t)
  <2>1. /\ \A u \in Threads \ {t} : thr'[u] = thr[u]
        /\ thr'[t].pc = "return" /\ thr'[t].caught = thr[t].caught /\ thr[t].pc = "begin"
        /\ thr'[t].req \in {"freeze", "unfreeze"}
    BY <1>0, <1>4 DEF BeginFreeze, At, Thread
  <2>2. UNCHANGED <<lockVars, hook, mounted, down, load>>
        /\ (lxc' = lxc \/ {lxc, lxc'} = {"FROZEN", "RUNNING"})
    BY <1>4 DEF BeginFreeze, hostVars, callVars
  <2>3. HoldsOp(t)'
    BY <1>0, <2>1, <2>2 DEF HoldsOp, StartPcs, StopPcs, lockVars
  <2>4. OpsKept /\ ReusableStops' /\ \A u \in Clients : NilKept(u)
    BY <2>2, LockQuiet
  <2>5. HookInv'
    BY <2>2 DEF LifecycleIInv, HookInv, MountedWhileRunning, lockVars
  <2>6. t \in Clients => SawDown(t)'
    BY <2>1, <2>2, SawMove
  <2>7. ~Killing(t)'
    BY <2>1 DEF Killing
  <2> QED
    BY <2>1, <2>2, <2>3, <2>4, <2>5, <2>6, <2>7, MoveOne
<1>5. CASE BeginHostShutdown(t)
  <2>1. /\ \A u \in Threads \ {t} : thr'[u] = thr[u]
        /\ thr[t].pc = "begin" /\ thr'[t].req = "host shutdown"
        /\ thr'[t].caught = thr[t].caught
        /\ (thr'[t].pc = "check" /\ thr'[t].proc = "Shutdown") \/ thr'[t].pc = "keep"
    BY <1>0, <1>5 DEF BeginHostShutdown, At, Thread
  <2>2. UNCHANGED <<lockVars, lxc, hook, mounted, down, load>>
    BY <1>5 DEF BeginHostShutdown, hostVars, lxcVars, callVars
  <2>3. HoldsOp(t)'
    BY <1>0, <2>1, <2>2 DEF HoldsOp, StartPcs, StopPcs, lockVars
  <2> QED
    BY <2>1, <2>2, <2>3, QuietMove
<1>6. CASE KeepPower(t)
  <2>1. /\ \A u \in Threads \ {t} : thr'[u] = thr[u]
        /\ thr[t].pc = "keep" /\ thr'[t].pc = "return" /\ thr'[t].caught = thr[t].caught
        /\ thr'[t].req = "host shutdown"
    BY <1>0, <1>6 DEF KeepPower, At, Goto, Thread, HoldsOp
  <2>2. UNCHANGED <<lockVars, lxc, hook, mounted, down, load>>
    BY <1>6 DEF KeepPower, hostVars, lxcVars, callVars
  <2>3. HoldsOp(t)'
    BY <1>0, <2>1, <2>2 DEF HoldsOp, StartPcs, StopPcs, lockVars
  <2> QED
    BY <2>1, <2>2, <2>3, QuietMove
<1>7. CASE Return(t)
  <2>1. /\ \A u \in Threads \ {t} : thr'[u] = thr[u]
        /\ thr[t].pc = "return"
        /\ \/ /\ thr'[t].pc = "idle" /\ thr'[t].caught = NoOp
              /\ thr'[t].req = "none" /\ thr'[t].proc = "none"
           \/ /\ thr'[t].pc = "exit" /\ thr'[t].caught = thr[t].caught
              /\ thr'[t].req = thr[t].req /\ thr'[t].proc = thr[t].proc
    <3>1. CASE thr[t].req = "host shutdown"
      BY <1>0, <1>7, <3>1 DEF Return, At, Goto, Thread
    <3>2. CASE thr[t].req # "host shutdown"
      <4>1. thr' = [thr EXCEPT ![t] = Idle] /\ thr[t].pc = "return"
        BY <1>7, <3>2 DEF Return, At
      <4> QED
        BY <1>0, <4>1 DEF Idle
    <3> QED
      BY <3>1, <3>2
  <2>2. UNCHANGED <<lockVars, lxc, hook, mounted, down, load>>
    BY <1>7 DEF Return, hostVars, lxcVars, callVars
  <2>3. HoldsOp(t)'
    BY <1>0, <2>1, <2>2 DEF HoldsOp, StartPcs, StopPcs, lockVars
  <2> QED
    BY <2>1, <2>2, <2>3, QuietMove
<1> QED
  BY <1>1, <1>2, <1>3, <1>4, <1>5, <1>6, <1>7 DEF Begin

\* createOperation keeps the invariant.
LEMMA CreateKeeps ==
    ASSUME LifecycleIInv, TypeOK', NEW t \in Threads, CreateOperation(t)
    PROVE  LifecycleIInv'
<1>0. /\ thr \in [Threads -> Thread] /\ thr[t] \in Thread /\ HoldsOp(t)
      /\ LockTypeOK /\ registered[Self] \in DOMAIN op \cup {NoOp}
  BY LifecycleAssumption DEF LifecycleIInv, TypeOK, ThreadsInv, LockTypeOK, created
<1>1. CASE GetOperation(t)
  <2>1. UNCHANGED <<lockVars, lxc, hook, mounted, down, load>> /\ thr[t].pc = "get"
    BY <1>1 DEF GetOperation, hostVars, lxcVars, callVars, At
  <2>2. OpsKept /\ ReusableStops' /\ \A u \in Clients : NilKept(u)
    BY <2>1, LockQuiet
  <2>3. CASE Goto(t, "insert")
    <3>1. /\ \A u \in Threads \ {t} : thr'[u] = thr[u]
          /\ thr'[t].pc = "insert" /\ thr'[t].proc = thr[t].proc
          /\ thr'[t].req = thr[t].req /\ thr'[t].caught = thr[t].caught
      BY <1>0, <2>3 DEF Goto, Thread
    <3>2. HoldsOp(t)'
      BY <1>0, <2>1, <3>1 DEF HoldsOp, StartPcs, StopPcs, lockVars
    <3> QED
      BY <2>1, <3>1, <3>2, QuietMove
  <2>4. CASE /\ registered[Self] # NoOp /\ thr[t].proc # "Start" /\ op[registered[Self]].reusable
             /\ thr' = [thr EXCEPT ![t].op = registered[Self], ![t].pc = "reset"]
    <3>1. /\ \A u \in Threads \ {t} : thr'[u] = thr[u]
          /\ thr'[t].pc = "reset" /\ thr'[t].proc = thr[t].proc /\ thr'[t].op = registered[Self]
          /\ thr'[t].req = thr[t].req /\ thr'[t].caught = thr[t].caught
      BY <1>0, <2>4 DEF Thread
    <3>2. registered[Self] \in DOMAIN op /\ op[registered[Self]].action = "stop"
      BY <1>0, <2>4 DEF LifecycleIInv, ReusableStops
    <3>3. thr[t].proc \in {"Stop", "Shutdown"}
      BY <1>0, <2>1, <2>4 DEF HoldsOp, Thread
    <3>4. HoldsOp(t)'
      BY <1>0, <2>1, <3>1, <3>2, <3>3 DEF HoldsOp, StartPcs, StopPcs, lockVars
    <3> QED
      BY <2>1, <3>1, <3>4, QuietMove
  <2>5. CASE Leave(t, "error")
    <3>1. /\ \A u \in Threads \ {t} : thr'[u] = thr[u]
          /\ HoldsOp(t)' /\ (t \in Clients => SawDown(t)')
          /\ thr'[t].caught = thr[t].caught /\ ~Killing(t)'
      BY <2>1, <2>2, <2>5, LeaveKeeps
    <3>2. HookInv'
      BY <2>1, <2>2, HookSame
    <3> QED
      BY <2>1, <2>2, <3>1, <3>2, MoveOne
  <2> QED
    BY <1>1, <2>3, <2>4, <2>5 DEF GetOperation
<1>2. CASE InsertOperation(t)
  <2>1. PICK o \in FreshOps :
          /\ Create(Self, IF thr[t].proc = "Start" THEN "start" ELSE "stop",
                         thr[t].proc = "Shutdown", o)
          /\ thr' = [thr EXCEPT ![t].op = o,
                                ![t].pc = IF thr[t].proc = "Start" THEN "common" ELSE "act"]
    BY <1>2 DEF InsertOperation
  <2>2. /\ o \notin DOMAIN op /\ DOMAIN op' = DOMAIN op \cup {o}
        /\ \A x \in DOMAIN op : op'[x] = op[x]
        /\ op'[o].action = (IF thr[t].proc = "Start" THEN "start" ELSE "stop")
        /\ op'[o].reusable = (thr[t].proc = "Shutdown")
        /\ closed' = closed
    BY <2>1 DEF Create, created
  <2>3. UNCHANGED <<lxc, hook, mounted, down, load>> /\ thr[t].pc = "insert"
    BY <1>2 DEF InsertOperation, hostVars, lxcVars, callVars, At
  <2>4. OpsKept /\ ReusableStops'
    BY <2>2 DEF OpsKept, LifecycleIInv, ReusableStops
  <2>5. \A u \in Clients : NilKept(u)
    <3> SUFFICES ASSUME NEW u \in Clients, Killing(u) PROVE thr[u].op \in DOMAIN op
      BY <2>2 DEF NilKept
    <3> QED
      BY DEF LifecycleIInv, ThreadsInv, HoldsOp, Killing, StopPcs, Threads
  <2>6. HookInv'
    BY <2>3, <2>4, HookSame
  <2>7. /\ \A u \in Threads \ {t} : thr'[u] = thr[u]
        /\ thr'[t].pc = (IF thr[t].proc = "Start" THEN "common" ELSE "act")
        /\ thr'[t].proc = thr[t].proc /\ thr'[t].op = o
        /\ thr'[t].req = thr[t].req /\ thr'[t].caught = thr[t].caught
    BY <1>0, <2>1 DEF Thread
  <2>8. thr[t].proc \in {"Start", "Stop", "Shutdown"}
    BY <1>0, <2>3 DEF HoldsOp, Thread
  <2>9. HoldsOp(t)'
    BY <1>0, <2>2, <2>7, <2>8 DEF HoldsOp, StartPcs, StopPcs
  <2>10. ASSUME t \in Clients
         PROVE  SawDown(t)'
    <3>1. lxc' = "STOPPED" => t \in down'
      BY <2>3, <2>10 DEF LifecycleIInv, DownInv, SawDown
    <3>2. thr'[t].op \notin closed'
      BY <1>0, <2>2, <2>7 DEF LockTypeOK, created
    <3> QED
      BY <2>7, <3>1, <3>2 DEF SawDown
  <2> QED
    BY <2>2, <2>3, <2>4, <2>5, <2>6, <2>7, <2>9, <2>10, MoveOne
<1>3. CASE ResetOperation(t)
  <2>1. UNCHANGED <<lockVars, lxc, hook, mounted, down, load>> /\ thr[t].pc = "reset"
        /\ op[thr[t].op].reusable
    BY <1>3 DEF ResetOperation, Reset, lockVars, hostVars, lxcVars, callVars, At
  <2>2. /\ \A u \in Threads \ {t} : thr'[u] = thr[u]
        /\ thr'[t].pc = "act" /\ thr'[t].proc = thr[t].proc /\ thr'[t].op = thr[t].op
        /\ thr'[t].req = thr[t].req /\ thr'[t].caught = thr[t].caught
    BY <1>0, <1>3 DEF ResetOperation, Goto, Thread
  <2>3. OpsKept /\ ReusableStops' /\ \A u \in Clients : NilKept(u)
    BY <2>1, LockQuiet
  <2>4. HookInv'
    BY <2>1, <2>3, HookSame
  <2>5. HoldsOp(t)'
    BY <1>0, <2>1, <2>2 DEF HoldsOp, StartPcs, StopPcs, lockVars
  <2>6. ~Killing(t)'
    BY <2>1, <2>2 DEF Killing, lockVars
  <2>7. ASSUME t \in Clients
        PROVE  SawDown(t)'
    <3>1. lxc' = "STOPPED" => t \in down'
      BY <2>1, <2>7 DEF LifecycleIInv, DownInv, SawDown
    <3> QED
      BY <2>2, <2>6, <3>1 DEF SawDown
  <2> QED
    BY <2>1, <2>2, <2>3, <2>4, <2>5, <2>6, <2>7, MoveOne
<1> QED
  BY <1>1, <1>2, <1>3 DEF CreateOperation

\* Completing an operation, with an error or when every stop that owns it has an
\* excuse, keeps the operations.
LEMMA CompleteKept ==
    ASSUME LifecycleIInv, NEW o \in DOMAIN op, NEW e \in {"nil", "timeout", "error"},
           Complete(o, e),
           e = "nil" => \A u \in Clients : Killing(u) /\ thr[u].op = o => Excused(u)
    PROVE  OpsKept /\ ReusableStops' /\ \A u \in Clients : NilKept(u)
<1>1. LockTypeOK
  BY DEF LifecycleIInv, TypeOK
<1>2. /\ DOMAIN op' = DOMAIN op
      /\ \A x \in DOMAIN op : /\ op'[x].action = op[x].action
                              /\ op'[x].reusable = op[x].reusable
                              /\ x # o => op'[x] = op[x] /\ (x \in closed' => x \in closed)
      /\ o \in closed' /\ op'[o].err = "nil" /\ e # "nil"
            => o \in closed /\ op[o].err = "nil"
  BY <1>1, CompleteFacts
<1>3. OpsKept /\ ReusableStops'
  BY <1>2 DEF OpsKept, LifecycleIInv, ReusableStops
<1>4. ASSUME NEW u \in Clients, Killing(u), thr[u].op \in closed', op'[thr[u].op].err = "nil"
      PROVE  Excused(u) \/ (thr[u].op \in closed /\ op[thr[u].op].err = "nil")
  <2>1. thr[u].op \in DOMAIN op
    BY <1>4 DEF LifecycleIInv, ThreadsInv, HoldsOp, Killing, StopPcs, Threads
  <2>2. CASE thr[u].op = o
    BY <1>2, <1>4, <2>2
  <2>3. CASE thr[u].op # o
    BY <1>2, <1>4, <2>1, <2>3
  <2> QED
    BY <2>2, <2>3
<1> QED
  BY <1>3, <1>4 DEF NilKept

\* Start keeps the invariant.
LEMMA StartKeeps ==
    ASSUME LifecycleIInv, TypeOK', NEW t \in Threads, Start(t)
    PROVE  LifecycleIInv'
<1>0. thr \in [Threads -> Thread] /\ thr[t] \in Thread /\ HoldsOp(t)
  BY DEF LifecycleIInv, TypeOK, ThreadsInv
<1>1. CASE StartCommon(t)
  <2>1. /\ \A u \in Threads \ {t} : thr'[u] = thr[u]
        /\ thr[t].pc = "common" /\ thr'[t].pc \in {"release", "fork"}
        /\ thr'[t].proc = thr[t].proc /\ thr'[t].op = thr[t].op
        /\ thr'[t].req = thr[t].req /\ thr'[t].caught = thr[t].caught
    BY <1>0, <1>1 DEF StartCommon, At, Goto, Thread
  <2>2. UNCHANGED <<lockVars, lxc, hook, mounted, down, load>>
    BY <1>1 DEF StartCommon, lxcVars, callVars
  <2>3. HoldsOp(t)'
    BY <1>0, <2>1, <2>2 DEF HoldsOp, StartPcs, StopPcs, lockVars
  <2> QED
    BY <2>1, <2>2, <2>3, QuietMove
<1>2. CASE Forkstart(t)
  <2>1. /\ \A u \in Threads \ {t} : thr'[u] = thr[u]
        /\ thr[t].pc = "fork" /\ thr'[t].pc \in {"release", "forked"}
        /\ thr'[t].proc = thr[t].proc /\ thr'[t].op = thr[t].op
        /\ thr'[t].req = thr[t].req /\ thr'[t].caught = thr[t].caught
    BY <1>0, <1>2 DEF Forkstart, At, Goto, Thread
  <2>2. /\ UNCHANGED <<lockVars, mounted, down, load>>
        /\ \/ UNCHANGED <<lxc, hook>>
           \/ /\ lxc = "STOPPED" /\ lxc' = "STARTING"
              /\ hook' = [NoHook EXCEPT !.step = "start"]
    BY <1>2 DEF Forkstart, hostVars, callVars, IsRunning
  <2>3. OpsKept /\ ReusableStops' /\ \A u \in Clients : NilKept(u)
    BY <2>2, LockQuiet
  <2>4. HoldsOp(t)'
    BY <1>0, <2>1, <2>2 DEF HoldsOp, StartPcs, StopPcs, lockVars
  <2>5. HookInv'
    <3>1. CASE UNCHANGED <<lxc, hook>>
      BY <2>2, <2>3, <3>1, HookSame
    <3>2. CASE lxc' = "STARTING" /\ hook' = [NoHook EXCEPT !.step = "start"]
      BY <3>2 DEF HookInv, NoHook, MountedWhileRunning
    <3> QED
      BY <2>2, <3>1, <3>2
  <2>6. t \in Clients => SawDown(t)'
    BY <2>1, <2>2, SawMove
  <2>7. ~Killing(t)'
    BY <2>1 DEF Killing
  <2> QED
    BY <2>1, <2>2, <2>3, <2>4, <2>5, <2>6, <2>7, MoveOne
<1>3. CASE ReleaseStart(t)
  <2>1. /\ UNCHANGED <<lxc, hook, mounted, down, load>> /\ thr[t].pc = "release"
        /\ Done(thr[t].op, "nil") /\ Leave(t, thr[t].res)
    BY <1>3 DEF ReleaseStart, hostVars, lxcVars, callVars, At
  <2>2. thr[t].op \in DOMAIN op /\ Complete(thr[t].op, "nil") /\ op[thr[t].op].action = "start"
        /\ thr[t].proc = "Start"
    BY <1>0, <2>1 DEF Done, created, HoldsOp, StartPcs
  <2>3. \A u \in Clients : Killing(u) => thr[u].op # thr[t].op
    BY <2>2 DEF LifecycleIInv, ThreadsInv, HoldsOp, Killing, StopPcs, Threads
  <2>4. OpsKept /\ ReusableStops' /\ \A u \in Clients : NilKept(u)
    BY <2>2, <2>3, CompleteKept
  <2>5. thr[t].req \notin {"stop", "shutdown"}
    BY <1>0, <2>2 DEF HoldsOp
  <2>6. /\ \A u \in Threads \ {t} : thr'[u] = thr[u]
        /\ HoldsOp(t)' /\ (t \in Clients => SawDown(t)')
        /\ thr'[t].caught = thr[t].caught /\ ~Killing(t)'
    BY <2>1, <2>4, <2>5, LeaveKeeps
  <2>7. HookInv'
    BY <2>1, <2>4, HookSame
  <2> QED
    BY <2>1, <2>4, <2>6, <2>7, MoveOne
<1> QED
  BY <1>1, <1>2, <1>3 DEF Start

\* A Stop or Shutdown that fails completes its operation with the error.
LEMMA FailKeeps ==
    ASSUME LifecycleIInv, TypeOK', NEW t \in Threads, thr[t].pc \notin {"idle", "settle"},
           UNCHANGED <<lxc, hook, mounted, down, load>>,
           Done(thr[t].op, "error"), Leave(t, "error")
    PROVE  LifecycleIInv'
<1>1. thr[t].op \in DOMAIN op /\ Complete(thr[t].op, "error")
  BY DEF Done, created
<1>2. OpsKept /\ ReusableStops' /\ \A u \in Clients : NilKept(u)
  BY <1>1, CompleteKept
<1>3. /\ \A u \in Threads \ {t} : thr'[u] = thr[u]
      /\ HoldsOp(t)' /\ (t \in Clients => SawDown(t)')
      /\ thr'[t].caught = thr[t].caught /\ ~Killing(t)'
  BY <1>2, LeaveKeeps
<1>4. HookInv'
  BY <1>2, HookSame
<1> QED
  BY <1>2, <1>3, <1>4, MoveOne

\* A Stop or Shutdown goes on with the operation it holds: LXC may change, but
\* does not reach STOPPED.
LEMMA GoOnKeeps ==
    ASSUME LifecycleIInv, TypeOK', HookInv', NEW t \in Threads, NEW pc \in StopPcs, Goto(t, pc),
           thr[t].pc \in {"act", "kill", "await"},
           UNCHANGED <<lockVars, down, load>>,
           lxc' = "STOPPED" => lxc = "STOPPED", lxc = "STOPPING" => lxc' = "STOPPING",
           pc = "kill" => thr[t].proc = "Stop", pc = "await" => thr[t].proc = "Shutdown",
           pc = "wait" /\ thr[t].proc = "Shutdown" /\ t \in Clients => t \in down,
           pc \in {"kill", "wait"} /\ thr[t].proc = "Stop" => thr[t].pc \in {"act", "kill"}
    PROVE  LifecycleIInv'
<1>1. thr \in [Threads -> Thread] /\ thr[t] \in Thread /\ HoldsOp(t)
  BY DEF LifecycleIInv, TypeOK, ThreadsInv
<1>2. /\ \A u \in Threads \ {t} : thr'[u] = thr[u]
      /\ thr'[t].pc = pc /\ thr'[t].proc = thr[t].proc /\ thr'[t].op = thr[t].op
      /\ thr'[t].req = thr[t].req /\ thr'[t].caught = thr[t].caught
  BY <1>1 DEF Goto, Thread
<1>3. OpsKept /\ ReusableStops' /\ \A u \in Clients : NilKept(u)
  BY LockQuiet
<1>4. HoldsOp(t)'
  BY <1>1, <1>2 DEF HoldsOp, StartPcs, StopPcs, lockVars
<1>5. Killing(t)' => Killing(t)
  BY <1>1, <1>2 DEF Killing, lockVars, HoldsOp, StopPcs
<1>6. ASSUME t \in Clients
      PROVE  SawDown(t)'
  <2>1. SawDown(t)
    BY <1>6 DEF LifecycleIInv, DownInv
  <2>2. Excused(t) => Excused(t)'
    BY DEF Excused
  <2>3. (Killing(t) /\ thr[t].op \in closed /\ op[thr[t].op].err = "nil")' => Excused(t)'
    BY <1>2, <1>5, <2>1, <2>2 DEF SawDown, lockVars
  <2> QED
    BY <1>2, <1>6, <2>1, <2>3 DEF SawDown, StopPcs
<1> QED
  BY <1>2, <1>3, <1>4, <1>5, <1>6, MoveOne DEF StopPcs

\* Stop and Shutdown keep the invariant.
LEMMA StopKeeps ==
    ASSUME LifecycleIInv, TypeOK', NEW t \in Threads, Stop(t) \/ Shutdown(t)
    PROVE  LifecycleIInv'
<1>0. thr \in [Threads -> Thread] /\ thr[t] \in Thread /\ HoldsOp(t)
  BY DEF LifecycleIInv, TypeOK, ThreadsInv
<1>1. CASE CheckRunning(t)
  <2>1. UNCHANGED <<lockVars, lxc, hook, mounted, down, load>> /\ thr[t].pc = "check"
    BY <1>1 DEF CheckRunning, hostVars, lxcVars, callVars, At
  <2>2. CASE Goto(t, "get")
    <3>1. /\ \A u \in Threads \ {t} : thr'[u] = thr[u]
          /\ thr'[t].pc = "get" /\ thr'[t].proc = thr[t].proc
          /\ thr'[t].req = thr[t].req /\ thr'[t].caught = thr[t].caught
      BY <1>0, <2>2 DEF Goto, Thread
    <3>2. HoldsOp(t)'
      BY <1>0, <2>1, <3>1 DEF HoldsOp, StartPcs, StopPcs, lockVars
    <3> QED
      BY <2>1, <3>1, <3>2, QuietMove
  <2>3. CASE Leave(t, "error")
    <3>1. OpsKept /\ ReusableStops' /\ \A u \in Clients : NilKept(u)
      BY <2>1, LockQuiet
    <3>2. /\ \A u \in Threads \ {t} : thr'[u] = thr[u]
          /\ HoldsOp(t)' /\ (t \in Clients => SawDown(t)')
          /\ thr'[t].caught = thr[t].caught /\ ~Killing(t)'
      BY <2>1, <2>3, <3>1, LeaveKeeps
    <3>3. HookInv'
      BY <2>1, <3>1, HookSame
    <3> QED
      BY <2>1, <3>1, <3>2, <3>3, MoveOne
  <2> QED
    BY <1>1, <2>2, <2>3 DEF CheckRunning
<1>2. CASE FreezeToStop(t)
  <2>1. /\ UNCHANGED <<lockVars, hook, mounted, down, load>> /\ Goto(t, "kill")
        /\ thr[t].pc = "act" /\ thr[t].proc = "Stop"
        /\ lxc' = lxc \/ {lxc, lxc'} \subseteq {"RUNNING", "FROZEN"}
    BY <1>2 DEF FreezeToStop, hostVars, callVars, At
  <2>2. HookInv'
    BY <2>1 DEF LifecycleIInv, HookInv, MountedWhileRunning, lockVars
  <2> QED
    BY <2>1, <2>2, GoOnKeeps DEF StopPcs
<1>3. CASE KillContainer(t)
  <2>1. UNCHANGED <<mounted, down, load>> /\ thr[t].pc = "kill" /\ thr[t].proc = "Stop"
    BY <1>0, <1>3 DEF KillContainer, hostVars, callVars, At, HoldsOp
  <2>2. CASE Done(thr[t].op, "error") /\ Leave(t, "error") /\ UNCHANGED <<lxc, hook>>
    BY <2>1, <2>2, FailKeeps
  <2>3. CASE lxc = "STOPPING" /\ Goto(t, "wait") /\ UNCHANGED <<lockVars, lxc, hook>>
    <3>1. HookInv'
      BY <2>1, <2>3, LockQuiet, HookSame
    <3> QED
      BY <2>1, <2>3, <3>1, GoOnKeeps DEF StopPcs
  <2>4. CASE /\ IsRunning /\ lxc # "STOPPING" /\ hook.step = "none"
             /\ lxc' = "STOPPING" /\ hook' = [NoHook EXCEPT !.step = "stop"]
             /\ Goto(t, "wait") /\ UNCHANGED lockVars
    <3>1. HookInv'
      BY <2>4 DEF HookInv, NoHook, MountedWhileRunning
    <3> QED
      BY <2>1, <2>4, <3>1, GoOnKeeps DEF StopPcs
  <2> QED
    BY <1>3, <2>2, <2>3, <2>4 DEF KillContainer
<1>4. CASE WaitOperation(t)
  <2>1. /\ UNCHANGED <<lockVars, lxc, hook, mounted, down, load>>
        /\ thr[t].pc = "wait" /\ thr[t].op \in closed
    BY <1>4 DEF WaitOperation, hostVars, lxcVars, callVars, At
  <2>2. PICK res : /\ Leave(t, res)
                   /\ res = IF op[thr[t].op].err # "nil" /\ IsRunning THEN "error" ELSE "ok"
    BY <1>4 DEF WaitOperation
  <2>3. OpsKept /\ ReusableStops' /\ \A u \in Clients : NilKept(u)
    BY <2>1, LockQuiet
  <2>4. ASSUME t \in Clients, res = "ok", thr[t].req \in {"stop", "shutdown"}
        PROVE  \/ t \in down
               \/ thr[t].req = "stop" /\ (Joined(t) \/ "hang" \in load.events)
    <3>1. SawDown(t)
      BY <2>4 DEF LifecycleIInv, DownInv
    <3>2. CASE lxc = "STOPPED"
      BY <2>1, <3>1, <3>2 DEF SawDown
    <3>3. CASE lxc # "STOPPED" /\ thr[t].proc = "Shutdown"
      BY <2>1, <3>1, <3>3 DEF SawDown
    <3>4. CASE lxc # "STOPPED" /\ thr[t].proc = "Stop"
      <4>1. op[thr[t].op].err = "nil"
        BY <2>2, <2>4, <3>4 DEF IsRunning
      <4>2. thr[t].req = "stop"
        BY <1>0, <2>4, <3>4 DEF HoldsOp
      <4> QED
        BY <2>1, <3>1, <3>4, <4>1, <4>2 DEF SawDown, Killing, Excused, Joined
    <3> QED
      BY <1>0, <2>1, <3>2, <3>3, <3>4 DEF HoldsOp, StopPcs
  <2>5. thr[t].op \in DOMAIN op
    BY <1>0, <2>1 DEF HoldsOp, StopPcs
  <2>6. /\ \A u \in Threads \ {t} : thr'[u] = thr[u]
        /\ HoldsOp(t)' /\ (t \in Clients => SawDown(t)')
        /\ thr'[t].caught = thr[t].caught /\ ~Killing(t)'
    BY <2>1, <2>2, <2>3, <2>4, <2>5, LeaveKeeps
  <2>7. HookInv'
    BY <2>1, <2>3, HookSame
  <2> QED
    BY <2>1, <2>3, <2>6, <2>7, MoveOne
<1>5. CASE SignalHalt(t)
  <2>1. UNCHANGED <<lxc, hook, mounted, down, load>> /\ thr[t].pc = "act" /\ thr[t].proc = "Shutdown"
    BY <1>5 DEF SignalHalt, hostVars, callVars, At
  <2>2. CASE Goto(t, "await") /\ UNCHANGED lockVars
    <3>1. HookInv'
      BY <2>1, <2>2, LockQuiet, HookSame
    <3> QED
      BY <2>1, <2>2, <3>1, GoOnKeeps DEF StopPcs
  <2>3. CASE Done(thr[t].op, "error") /\ Leave(t, "error")
    BY <2>1, <2>3, FailKeeps
  <2> QED
    BY <1>5, <2>2, <2>3 DEF SignalHalt
<1>6. CASE AwaitHalt(t)
  <2>1. /\ UNCHANGED <<lxc, hook, mounted, down, load>>
        /\ thr[t].pc = "await" /\ thr[t].proc = "Shutdown"
    BY <1>0, <1>6 DEF AwaitHalt, hostVars, lxcVars, callVars, At, HoldsOp
  <2>2. CASE ~IsRunning /\ Goto(t, "wait") /\ UNCHANGED lockVars
    <3>1. HookInv'
      BY <2>1, <2>2, LockQuiet, HookSame
    <3>2. t \in Clients => t \in down
      BY <2>1, <2>2 DEF LifecycleIInv, DownInv, SawDown, IsRunning
    <3> QED
      BY <2>1, <2>2, <3>1, <3>2, GoOnKeeps DEF StopPcs
  <2>3. CASE Done(thr[t].op, "error") /\ Leave(t, "error")
    BY <2>1, <2>3, FailKeeps
  <2> QED
    BY <1>6, <2>2, <2>3 DEF AwaitHalt
<1> QED
  BY <1>1, <1>2, <1>3, <1>4, <1>5, <1>6 DEF Stop, Shutdown

\* The goroutine of OnStop keeps the invariant.
LEMMA CleanupKeeps ==
    ASSUME LifecycleIInv, TypeOK', NEW t \in Threads, Cleanup(t)
    PROVE  LifecycleIInv'
<1>0. thr \in [Threads -> Thread] /\ thr[t] \in Thread /\ HoldsOp(t)
  BY DEF LifecycleIInv, TypeOK, ThreadsInv
<1>1. CASE Settle(t) \/ RecordStopped(t) \/ DeleteEphemeral(t)
  <2>1. /\ \A u \in Threads \ {t} : thr'[u] = thr[u]
        /\ thr[t].pc \in {"settle", "record", "delete"}
        /\ thr'[t].pc \in {"clean", "delete", "unlock"}
        /\ thr'[t].proc = thr[t].proc /\ thr'[t].op = thr[t].op
        /\ thr'[t].req = thr[t].req /\ thr'[t].caught = thr[t].caught
    BY <1>0, <1>1 DEF Settle, RecordStopped, DeleteEphemeral, At, Goto, Thread
  <2>2. /\ UNCHANGED <<lockVars, lxc, hook, mounted, down, load>>
        /\ thr[t].pc = "settle" => lxc # "STOPPING" \/ "hang" \in load.events
    BY <1>1 DEF Settle, RecordStopped, DeleteEphemeral, hostVars, lxcVars, callVars, At
  <2>3. HoldsOp(t)'
    BY <1>0, <2>1, <2>2 DEF HoldsOp, StartPcs, StopPcs, lockVars
  <2> QED
    BY <2>1, <2>2, <2>3, QuietMove
<1>2. CASE Clean(t)
  <2>1. /\ \A u \in Threads \ {t} : thr'[u] = thr[u]
        /\ thr[t].pc = "clean" /\ thr'[t].op = thr[t].op
        /\ \/ thr'[t].pc = "get" /\ thr'[t].proc = "Start" /\ thr[t].req = "reboot"
           \/ thr'[t].pc = "record" /\ thr'[t].proc = "none"
        /\ thr'[t].req = thr[t].req /\ thr'[t].caught = thr[t].caught
    BY <1>0, <1>2 DEF Clean, At, Thread
  <2>2. UNCHANGED <<lockVars, lxc, hook, mounted, down, load>>
    BY <1>2 DEF Clean, lxcVars, callVars
  <2>3. HoldsOp(t)'
    BY <1>0, <2>1, <2>2 DEF HoldsOp, StartPcs, StopPcs, lockVars
  <2> QED
    BY <2>1, <2>2, <2>3, QuietMove
<1>3. CASE Unlock(t)
  <2>1. /\ UNCHANGED <<lxc, hook, mounted, down, load>> /\ thr[t].pc = "unlock"
        /\ thr' = [thr EXCEPT ![t] = Idle]
    BY <1>3 DEF Unlock, hostVars, lxcVars, callVars, At
  <2>2. /\ \A u \in Threads \ {t} : thr'[u] = thr[u]
        /\ thr'[t].pc = "idle" /\ thr'[t].caught = NoOp
        /\ thr'[t].req = "none" /\ thr'[t].proc = "none"
    BY <1>0, <2>1 DEF Idle
  <2>3. t \in Cleaners
    BY <1>0, <2>1 DEF HoldsOp
  <2>4. OpsKept /\ ReusableStops' /\ \A u \in Clients : NilKept(u)
    <3>1. CASE thr[t].caught = NoOp
      BY <1>3, <3>1, LockQuiet DEF Unlock
    <3>2. CASE thr[t].caught # NoOp
      <4>1. thr[t].caught \in DOMAIN op /\ Complete(thr[t].caught, "nil")
        BY <1>3, <3>2 DEF Unlock, Done, created
      <4>2. ASSUME NEW u \in Clients, Killing(u), thr[u].op = thr[t].caught
            PROVE  Excused(u)
        BY <2>1, <2>3, <4>2 DEF LifecycleIInv, CaughtInv, CaughtSawDown
      <4> QED
        BY <4>1, <4>2, CompleteKept
    <3> QED
      BY <3>1, <3>2
  <2>5. HookInv'
    BY <2>1, <2>4, HookSame
  <2>6. HoldsOp(t)' /\ ~Killing(t)'
    BY <2>2 DEF HoldsOp, StartPcs, StopPcs, Killing
  <2>7. t \in Clients => SawDown(t)'
    BY <2>3, LifecycleAssumption
  <2> QED
    BY <2>1, <2>2, <2>4, <2>5, <2>6, <2>7, MoveOne
<1> QED
  BY <1>1, <1>2, <1>3 DEF Cleanup

\* No thread moves and the container does not reach STOPPED.
LEMMA NobodyMoves ==
    ASSUME LifecycleIInv, TypeOK', HookInv', ReusableStops',
           OpsKept, \A u \in Clients : NilKept(u),
           load' = load, down' = down, thr' = thr,
           lxc' = "STOPPED" => lxc = "STOPPED", lxc = "STOPPING" => lxc' = "STOPPING"
    PROVE  LifecycleIInv'
<1>1. ThreadsInv'
  BY HoldsKept DEF ThreadsInv
<1>2. DownInv'
  BY SawKept DEF DownInv, Threads
<1>3. CaughtInv'
  <2> SUFFICES ASSUME NEW k \in Cleaners, NEW u \in Clients, Killing(u)', thr[u].op = thr[k].caught
               PROVE  Excused(u)' \/ (thr[k].pc = "settle" /\ lxc' = "STOPPING")
    BY DEF CaughtInv, CaughtSawDown
  <2>1. HoldsOp(u) /\ CaughtSawDown(k, u)
    BY DEF LifecycleIInv, ThreadsInv, CaughtInv, Threads
  <2>2. Killing(u)
    BY <2>1 DEF Killing, OpsKept, HoldsOp, StopPcs
  <2> QED
    BY <2>1, <2>2 DEF CaughtSawDown, Excused
<1> QED
  BY <1>1, <1>2, <1>3 DEF LifecycleIInv

\* The container reaches STOPPED: everyone at work sees it down.
LEMMA StoppedKeeps ==
    ASSUME LifecycleIInv, TypeOK', Stopped, OpsKept, ReusableStops', load' = load
    PROVE  LifecycleIInv'
<1>0. thr \in [Threads -> Thread]
  BY DEF LifecycleIInv, TypeOK
<1>1. HookInv'
  BY DEF Stopped, HookInv, NoHook, MountedWhileRunning
<1>2. ASSUME NEW u \in Threads
      PROVE  HoldsOp(u)' /\ (thr'[u].pc # "idle" => u \in down')
  <2>1. CASE thr[u].pc = "forked"
    <3>1. thr'[u] = [thr[u] EXCEPT !.pc = "release", !.res = "error"] /\ thr[u] \in Thread
      BY <1>0, <2>1 DEF Stopped, At
    <3>2. /\ thr'[u].pc = "release" /\ thr'[u].op = thr[u].op /\ thr'[u].proc = thr[u].proc
          /\ thr'[u].req = thr[u].req /\ thr'[u].caught = thr[u].caught
      BY <3>1 DEF Thread
    <3>3. HoldsOp(u)
      BY DEF LifecycleIInv, ThreadsInv
    <3>4. HoldsOp(u)'
      BY <2>1, <3>2, <3>3 DEF HoldsOp, StartPcs, StopPcs, OpsKept
    <3> QED
      BY <2>1, <3>4 DEF Stopped
  <2>2. CASE thr[u].pc # "forked"
    <3>1. thr'[u] = thr[u]
      BY <2>2 DEF Stopped, At
    <3> QED
      BY <3>1, HoldsKept DEF Stopped
  <2> QED
    BY <2>1, <2>2
<1>3. ThreadsInv'
  BY <1>2 DEF ThreadsInv
<1>4. DownInv'
  BY <1>2 DEF DownInv, SawDown, Killing, Excused, Threads
<1>5. CaughtInv'
  BY <1>2 DEF CaughtInv, CaughtSawDown, Killing, Excused, Threads
<1> QED
  BY <1>1, <1>3, <1>4, <1>5 DEF LifecycleIInv

\* The hooks LXC calls keep the invariant.
LEMMA HooksKeep ==
    ASSUME LifecycleIInv, TypeOK', Hooks
    PROVE  LifecycleIInv'
<1>0. /\ HookInv /\ thr \in [Threads -> Thread] /\ registered[Self] \in DOMAIN op \cup {NoOp}
      /\ hook \in [step : {"none", "start", "started", "stop", "storage"},
                   target : {"stop", "reboot"}, op : OpIds \cup {NoOp}]
  BY LifecycleAssumption DEF LifecycleIInv, TypeOK, LockTypeOK, created
<1>1. CASE OnStart
  <2>1. UNCHANGED lockVars /\ load' = load
    BY <1>1 DEF OnStart, callVars
  <2>2. CASE Stopped
    BY <2>1, <2>2, LockQuiet, StoppedKeeps
  <2>3. CASE /\ hook.step = "start" /\ mounted' = TRUE /\ hook' = [hook EXCEPT !.step = "started"]
             /\ UNCHANGED <<lxc, halting, down, thr>>
    <3>1. hook'.step = "started" /\ hook'.op = hook.op
      BY <1>0, <2>3
    <3>2. HookInv'
      BY <1>0, <2>1, <2>3, <3>1 DEF HookInv, MountedWhileRunning, lockVars
    <3> QED
      BY <2>1, <2>3, <3>2, LockQuiet, NobodyMoves
  <2> QED
    BY <1>1, <2>2, <2>3 DEF OnStart
<1>2. CASE OnStartRecord
  <2>1. UNCHANGED <<lockVars, mounted>> /\ load' = load
    BY <1>2 DEF OnStartRecord, callVars, hostVars
  <2>2. CASE Stopped
    BY <2>1, <2>2, LockQuiet, StoppedKeeps
  <2>3. CASE hook.step = "started" /\ hook' = NoHook /\ UNCHANGED <<lxc, halting, down, thr>>
    <3>1. HookInv'
      BY <1>0, <2>1, <2>3 DEF HookInv, MountedWhileRunning, NoHook
    <3> QED
      BY <2>1, <2>3, <3>1, LockQuiet, NobodyMoves
  <2> QED
    BY <1>2, <2>2, <2>3 DEF OnStartRecord
<1>3. CASE OnStop
  <2>1. UNCHANGED <<lockVars, mounted>> /\ load' = load
    BY <1>3 DEF OnStop, callVars, hostVars
  <2>2. CASE Stopped
    BY <2>1, <2>2, LockQuiet, StoppedKeeps
  <2>3. CASE /\ hook.step = "stop" /\ hook' = [hook EXCEPT !.step = "storage", !.op = registered[Self]]
             /\ UNCHANGED <<lxc, halting, down, thr>>
    <3>1. hook'.step = "storage" /\ hook'.op = registered[Self]
      BY <1>0, <2>3
    <3>2. HookInv'
      BY <1>0, <2>1, <2>3, <3>1 DEF HookInv, MountedWhileRunning, lockVars
    <3> QED
      BY <2>1, <2>3, <3>2, LockQuiet, NobodyMoves
  <2> QED
    BY <1>3, <2>2, <2>3 DEF OnStop
<1>4. CASE OnStopStorage
  <2>1. hook.step = "storage" /\ load' = load /\ lxc = "STOPPING"
    BY <1>0, <1>4 DEF OnStopStorage, callVars, HookInv
  <2>2. CASE /\ Stopped
             /\ IF hook.op # NoOp THEN Done(hook.op, "error") ELSE UNCHANGED lockVars
    <3>1. OpsKept /\ ReusableStops'
      <4>1. CASE hook.op = NoOp
        BY <2>2, <4>1, LockQuiet
      <4>2. CASE hook.op # NoOp
        <5>1. hook.op \in DOMAIN op /\ Complete(hook.op, "error")
          BY <2>2, <4>2 DEF Done, created
        <5> QED
          BY <5>1, CompleteKept
      <4> QED
        BY <4>1, <4>2
    <3> QED
      BY <2>1, <2>2, <3>1, StoppedKeeps
  <2>3. CASE /\ mounted' = FALSE /\ hook' = NoHook
             /\ \E t \in Cleaners :
                   /\ At(t, "idle")
                   /\ thr' = [thr EXCEPT ![t] =
                         [Idle EXCEPT !.pc = "settle", !.req = hook.target,
                                      !.caught = hook.op, !.power = power, !.eph = ephemeral]]
             /\ UNCHANGED <<lockVars, lxc, halting, down>>
    <3>1. PICK t \in Cleaners :
             /\ At(t, "idle")
             /\ thr' = [thr EXCEPT ![t] =
                         [Idle EXCEPT !.pc = "settle", !.req = hook.target,
                                      !.caught = hook.op, !.power = power, !.eph = ephemeral]]
      BY <2>3
    <3>2. t \in Threads /\ t \notin Clients
      BY LifecycleAssumption DEF Threads
    <3>3. /\ \A u \in Threads \ {t} : thr'[u] = thr[u]
          /\ thr'[t].pc = "settle" /\ thr'[t].proc = "none" /\ thr'[t].caught = hook.op
      BY <1>0, <3>1, <3>2 DEF Idle
    <3>4. HookInv'
      BY <2>1, <2>3 DEF HookInv, MountedWhileRunning, NoHook
    <3>5. HoldsOp(t)'
      BY <1>0, <2>3, <3>1, <3>3 DEF HoldsOp, StartPcs, StopPcs, HookInv, lockVars
    <3>6. ~Killing(t)'
      BY <3>3 DEF Killing
    <3>7. OpsKept /\ ReusableStops' /\ \A u \in Clients : NilKept(u)
      BY <2>3, LockQuiet
    <3> QED
      BY <2>1, <2>3, <3>2, <3>3, <3>4, <3>5, <3>6, <3>7, MoveOne
  <2> QED
    BY <1>4, <2>2, <2>3 DEF OnStopStorage
<1> QED
  BY <1>1, <1>2, <1>3, <1>4 DEF Hooks

\* LXC, the guest and the timers keep the invariant.
LEMMA EnvironmentKeeps ==
    ASSUME LifecycleIInv, TypeOK', Lxc \/ Guest \/ \E o \in OpIds : Timeout(o)
    PROVE  LifecycleIInv'
<1>0. HookInv /\ thr \in [Threads -> Thread]
  BY DEF LifecycleIInv, TypeOK
<1>1. CASE LxcRunning
  <2>1. /\ UNCHANGED <<lockVars, mounted, hook, down, load>>
        /\ lxc = "STARTING" /\ hook.step = "none" /\ lxc' = "RUNNING"
    BY <1>1 DEF LxcRunning, hostVars, callVars
  <2>2. OpsKept /\ ReusableStops' /\ \A u \in Clients : NilKept(u)
    BY <2>1, LockQuiet
  <2>3. HookInv'
    BY <1>0, <2>1 DEF HookInv, MountedWhileRunning, lockVars
  <2>4. ASSUME NEW u \in Threads
        PROVE  /\ thr'[u].caught = thr[u].caught /\ HoldsOp(u)'
               /\ thr'[u] = thr[u] \/ thr'[u].pc = "release"
               /\ thr[u].pc = "settle" => thr'[u].pc = "settle"
    <3>1. CASE thr[u].pc = "forked"
      <4>1. thr'[u] = [thr[u] EXCEPT !.pc = "release", !.res = "ok"] /\ thr[u] \in Thread
        BY <1>0, <1>1, <3>1 DEF LxcRunning, At
      <4>2. /\ thr'[u].pc = "release" /\ thr'[u].op = thr[u].op /\ thr'[u].proc = thr[u].proc
            /\ thr'[u].req = thr[u].req /\ thr'[u].caught = thr[u].caught
        BY <4>1 DEF Thread
      <4>3. HoldsOp(u)
        BY DEF LifecycleIInv, ThreadsInv
      <4>4. HoldsOp(u)'
        BY <2>2, <3>1, <4>2, <4>3 DEF HoldsOp, StartPcs, StopPcs, OpsKept
      <4> QED
        BY <3>1, <4>2, <4>4
    <3>2. CASE thr[u].pc # "forked"
      <4>1. thr'[u] = thr[u]
        BY <1>1, <3>2 DEF LxcRunning, At
      <4> QED
        BY <2>2, <4>1, HoldsKept
    <3> QED
      BY <3>1, <3>2
  <2>5. ThreadsInv'
    BY <2>4 DEF ThreadsInv
  <2>6. ASSUME NEW u \in Clients
        PROVE  SawDown(u)'
    <3>1. CASE thr'[u] = thr[u]
      BY <2>1, <2>2, <3>1, SawKept
    <3>2. CASE thr'[u].pc = "release"
      BY <2>1, <3>2 DEF SawDown, Killing
    <3> QED
      BY <2>4, <3>1, <3>2 DEF Threads
  <2>7. CaughtInv'
    <3> SUFFICES ASSUME NEW k \in Cleaners, NEW u \in Clients, Killing(u)',
                        thr'[u].op = thr'[k].caught
                 PROVE  Excused(u)'
      BY DEF CaughtInv, CaughtSawDown
    <3>1. thr'[u] = thr[u] /\ thr'[k].caught = thr[k].caught
      BY <2>4 DEF Killing, Threads
    <3>2. Killing(u)
      BY <2>1, <3>1 DEF Killing, lockVars
    <3>3. CaughtSawDown(k, u)
      BY DEF LifecycleIInv, CaughtInv
    <3> QED
      BY <2>1, <3>1, <3>2, <3>3 DEF CaughtSawDown, Excused
  <2> QED
    BY <2>2, <2>3, <2>5, <2>6, <2>7 DEF LifecycleIInv, DownInv
<1>2. CASE LxcStopped
  <2>1. UNCHANGED lockVars /\ load' = load /\ Stopped
    BY <1>2 DEF LxcStopped, callVars
  <2> QED
    BY <2>1, LockQuiet, StoppedKeeps
<1>3. ASSUME NEW target, GoDown(target)
      PROVE  LifecycleIInv'
  <2>1. /\ UNCHANGED <<lockVars, mounted, down, load, thr>> /\ lxc' = "STOPPING"
        /\ hook'.step = "stop" /\ hook'.op = NoOp
    BY <1>3 DEF GoDown, hostVars, callVars, NoHook
  <2>2. HookInv'
    BY <2>1 DEF HookInv, MountedWhileRunning
  <2> QED
    BY <2>1, <2>2, LockQuiet, NobodyMoves
<1>4. ASSUME NEW o \in OpIds, Timeout(o)
      PROVE  LifecycleIInv'
  <2>1. o \in DOMAIN op /\ Complete(o, "timeout")
    BY <1>4 DEF Timeout, TimedOut, LifecycleIInv, TypeOK, LockTypeOK, created
  <2>2. OpsKept /\ ReusableStops' /\ \A u \in Clients : NilKept(u)
    BY <2>1, CompleteKept
  <2>3. UNCHANGED <<lxc, hook, mounted, down, load, thr>>
    BY <1>4 DEF Timeout, hostVars, lxcVars, callVars
  <2>4. HookInv'
    BY <2>2, <2>3, HookSame
  <2> QED
    BY <2>2, <2>3, <2>4, NobodyMoves
<1> QED
  BY <1>1, <1>2, <1>3, <1>4
     DEF Lxc, Guest, LxcCrash, GuestHalt, GuestPoweroff, GuestReboot

\* The initial states satisfy the invariant.
LEMMA LifecycleInit == Init => LifecycleIInv
<1> SUFFICES ASSUME Init, TypeOK PROVE LifecycleIInv
  BY TypeInit
<1>1. /\ \A t \in Threads : thr[t].pc = "idle" /\ thr[t].req = "none" /\ thr[t].caught = NoOp
      /\ DOMAIN op = {}
  BY DEF Init, Idle, LockInit
<1>2. HookInv /\ ReusableStops
  BY <1>1 DEF Init, HookInv, NoHook, MountedWhileRunning, ReusableStops
<1>3. ThreadsInv /\ DownInv /\ CaughtInv
  BY <1>1 DEF ThreadsInv, HoldsOp, StartPcs, StopPcs, DownInv, SawDown, CaughtInv,
              CaughtSawDown, Killing, Threads
<1> QED
  BY <1>2, <1>3 DEF LifecycleIInv

\* Every step keeps it.
LEMMA LifecycleStep == LifecycleIInv /\ [Next]_vars => LifecycleIInv'
<1> SUFFICES ASSUME LifecycleIInv, [Next]_vars PROVE LifecycleIInv'
  OBVIOUS
<1>1. TypeOK'
  BY TypeStep DEF LifecycleIInv
<1>2. CASE Next
  <2>1. ASSUME NEW t \in Threads, Run(t)
        PROVE  LifecycleIInv'
    BY <1>1, <2>1, BeginKeeps, CreateKeeps, StartKeeps, StopKeeps, CleanupKeeps DEF Run
  <2> QED
    BY <1>1, <1>2, <2>1, RequestKeeps, HooksKeep, EnvironmentKeeps DEF Next
<1>3. CASE UNCHANGED vars
  <2>1. UNCHANGED <<lockVars, lxc, hook, mounted, down, load, thr>>
    BY <1>3 DEF vars, hostVars, lxcVars, callVars
  <2>2. OpsKept /\ ReusableStops' /\ \A u \in Clients : NilKept(u)
    BY <2>1, LockQuiet
  <2>3. HookInv'
    BY <2>1, <2>2, HookSame
  <2> QED
    BY <1>1, <2>1, <2>2, <2>3, NobodyMoves
<1> QED
  BY <1>2, <1>3

\* However requests, hooks, goroutines, timers and the guest interleave: a
\* container that runs is mounted, and a stop or shutdown that reports success has
\* seen it down, with the exceptions StopMeansStopped names.
THEOREM LifecycleInvariant == Spec => []LifecycleInv
<1>1. LifecycleIInv => LifecycleInv
  BY DEF LifecycleIInv, LifecycleInv, HookInv, DownInv, SawDown, StopMeansStopped, At
<1> QED
  BY <1>1, LifecycleInit, LifecycleStep, PTL DEF Spec

---------------------------------------------------------------------------
(* The inductive invariant behind HostShutdownStops                        *)

CleanupPcs  == {"settle", "clean", "record", "delete", "unlock"}
HostPcs     == {"begin", "check", "get", "insert", "act", "await", "kill", "wait",
                "keep", "return", "exit"}

\* One client serves at a time, for only that one has been sent a request.
OneServes ==
    /\ \A u \in Clients : thr[u].pc # "idle" => sent[u] > 0
    /\ \A u, v \in Clients : sent[u] > 0 /\ sent[v] > 0 => u = v

\* Hooks and goroutines only ever stop the container.
OnlyStops ==
    /\ hook.target = "stop"
    /\ \A k \in Cleaners : thr[k].pc \in CleanupPcs \cup {"idle"} /\ thr[k].req # "reboot"

\* LXC starts the container only while a client waits for its forkstart.
StartAwaited == lxc = "STARTING" => \E u \in Clients : thr[u].pc = "forked"

\* The operation in the map is the one of the client that serves.
OpServed ==
    registered[Self] # NoOp =>
        \E u \in Clients : thr[u].pc \in StartPcs \cup StopPcs /\ thr[u].op = registered[Self]

\* The shutdown of the host shuts the container down, then stops it; past that, and
\* while the stop waits, the container is stopped or going down.
HostGoesDown(u) ==
    thr[u].req = "host shutdown" =>
        /\ thr[u].pc \in HostPcs
        /\ thr[u].pc \in HostPcs \ {"begin", "keep", "return", "exit"}
              => thr[u].proc \in {"Stop", "Shutdown"}
        /\ thr[u].pc \in {"keep", "return", "exit"} \/ (thr[u].pc = "wait" /\ thr[u].proc = "Stop")
              => lxc \in {"STOPPED", "STOPPING"}

AloneInv ==
    Alone => /\ OneServes /\ OnlyStops /\ StartAwaited /\ OpServed
             /\ \A u \in Clients : HostGoesDown(u)

AloneIInv == LifecycleIInv /\ RegisteredIsOpen /\ AloneInv

\* The thread moves to a place and a function, and everything else it knows, but
\* for the result of its request, stays; the other threads stay where they are.
Moves(t, pc, proc) ==
    /\ \A u \in Threads \ {t} : thr'[u] = thr[u]
    /\ thr'[t].pc = pc /\ thr'[t].proc = proc
    /\ thr'[t].req = thr[t].req /\ thr'[t].op = thr[t].op /\ thr'[t].caught = thr[t].caught
    /\ thr'[t].power = thr[t].power /\ thr'[t].eph = thr[t].eph
    /\ thr'[t].resetEph = thr[t].resetEph

\* The simple moves: Goto, Enter and a move with a result.
LEMMA SimpleMoves ==
    ASSUME thr \in [Threads -> Thread], NEW t \in Threads, NEW pc, NEW proc, NEW res
    PROVE  /\ Goto(t, pc) => Moves(t, pc, thr[t].proc)
           /\ Enter(t, proc, pc) => Moves(t, pc, proc)
           /\ thr' = [thr EXCEPT ![t].pc = pc, ![t].res = res] => Moves(t, pc, thr[t].proc)
<1>1. thr[t] \in Thread
  OBVIOUS
<1>2. Goto(t, pc) => Moves(t, pc, thr[t].proc)
  BY <1>1 DEF Goto, Moves, Thread
<1>3. Enter(t, proc, pc) => Moves(t, pc, proc)
  BY <1>1 DEF Enter, Moves, Thread
<1>4. thr' = [thr EXCEPT ![t].pc = pc, ![t].res = res] => Moves(t, pc, thr[t].proc)
  BY <1>1 DEF Moves, Thread
<1> QED
  BY <1>2, <1>3, <1>4

\* Where Leave takes a client.
LEMMA LeaveMoves ==
    ASSUME thr \in [Threads -> Thread], NEW t \in Clients, NEW res, Leave(t, res)
    PROVE  /\ thr[t].req \in Restarts /\ thr[t].proc # "Start" /\ res = "ok"
                 => Moves(t, "get", "Start")
           /\ thr[t].req \in Restarts /\ ~(thr[t].proc # "Start" /\ res = "ok")
                 => Moves(t, "return", thr[t].proc)
           /\ thr[t].req = "host shutdown" /\ thr[t].proc = "Shutdown" => Moves(t, "check", "Stop")
           /\ thr[t].req = "host shutdown" /\ thr[t].proc = "Stop" => Moves(t, "keep", "Stop")
           /\ thr[t].req \notin Restarts \cup {"host shutdown"} => Moves(t, "return", thr[t].proc)
<1> DEFINE r == thr[t]
           n2 == [r EXCEPT !.proc = "Start", !.pc = "get"]
           n3 == [r EXCEPT !.proc = "Stop", !.pc = "check"]
           n4 == [r EXCEPT !.pc = "keep", !.res = "ok"]
           n5 == [r EXCEPT !.pc = "return", !.res = res]
           Same(n) == /\ n.req = r.req /\ n.op = r.op /\ n.caught = r.caught
                      /\ n.power = r.power /\ n.eph = r.eph /\ n.resetEph = r.resetEph
<1>1. t \in Threads /\ t \notin Cleaners /\ r \in Thread
  BY LifecycleAssumption DEF Threads
<1>2. n2.pc = "get" /\ n2.proc = "Start" /\ Same(n2)
  BY <1>1 DEF Thread
<1>3. n3.pc = "check" /\ n3.proc = "Stop" /\ Same(n3)
  BY <1>1 DEF Thread
<1>4. n4.pc = "keep" /\ n4.proc = r.proc /\ Same(n4)
  BY <1>1 DEF Thread
<1>5. n5.pc = "return" /\ n5.proc = r.proc /\ Same(n5)
  BY <1>1 DEF Thread
<1>6. /\ thr'[t] = (CASE t \in Cleaners -> [r EXCEPT !.pc = "unlock"]
                      [] r.req \in Restarts /\ r.proc # "Start" /\ res = "ok" -> n2
                      [] r.req = "host shutdown" /\ r.proc = "Shutdown" -> n3
                      [] r.req = "host shutdown" /\ r.proc = "Stop" -> n4
                      [] OTHER -> n5)
      /\ \A u \in Threads \ {t} : thr'[u] = thr[u]
  BY <1>1 DEF Leave
<1> HIDE DEF n2, n3, n4, n5
<1>7. /\ r.req \in Restarts /\ r.proc # "Start" /\ res = "ok" => thr'[t] = n2
      /\ r.req \in Restarts /\ ~(r.proc # "Start" /\ res = "ok") => thr'[t] = n5
      /\ r.req = "host shutdown" /\ r.proc = "Shutdown" => thr'[t] = n3
      /\ r.req = "host shutdown" /\ r.proc = "Stop" => thr'[t] = n4
      /\ r.req \notin Restarts \cup {"host shutdown"} => thr'[t] = n5
  BY <1>1, <1>6 DEF Restarts
<1> QED
  BY <1>2, <1>3, <1>4, <1>5, <1>6, <1>7 DEF Moves

\* Completing the operation that holds the container frees it, and completing any
\* other leaves the container's entry in the map.
LEMMA CompleteFrees ==
    ASSUME TypeOK, NEW o \in DOMAIN op, NEW e, Complete(o, e), RegisteredIsOpen
    PROVE  /\ registered[Self] = o => registered'[Self] = NoOp
           /\ registered[Self] # o => registered'[Self] = registered[Self]
<1>1. Self \in Containers /\ o \in OpIds /\ NoOp \notin OpIds /\ registered \in [Containers -> DOMAIN op \cup {NoOp}]
  BY LifecycleAssumption, NoOpAssumption DEF TypeOK, LockTypeOK, created
<1>2. registered[Self] = o => op[o].id = Self
  BY <1>1 DEF RegisteredIsOpen
<1>3. \/ registered[op[o].id] = o /\ registered' = [registered EXCEPT ![op[o].id] = NoOp]
      \/ registered[op[o].id] # o /\ registered' = registered
  BY DEF Complete
<1> QED
  BY <1>1, <1>2, <1>3

\* The same for Done.
LEMMA DoneFrees ==
    ASSUME TypeOK, NEW o, NEW e, Done(o, e), RegisteredIsOpen
    PROVE  /\ registered[Self] = o => registered'[Self] = NoOp
           /\ registered[Self] # o => registered'[Self] = registered[Self]
BY CompleteFrees DEF Done, created

\* The client that serves is the one a start or an operation waits for.
LEMMA ServesAlone ==
    ASSUME AloneInv, Alone, NEW t \in Clients, thr[t].pc # "idle"
    PROVE  /\ \A u \in Clients \ {t} : thr[u].pc = "idle"
           /\ registered[Self] # NoOp =>
                 thr[t].pc \in StartPcs \cup StopPcs /\ thr[t].op = registered[Self]
           /\ lxc = "STARTING" => thr[t].pc = "forked"
BY DEF AloneInv, OneServes, OpServed, StartAwaited, StartPcs, StopPcs

\* One client moves on: the invariant is kept if that client's part of it is.
LEMMA AloneMove ==
    ASSUME AloneInv, load' = load, sent' = sent, NEW t \in Clients, thr[t].pc # "idle",
           \A u \in Threads \ {t} : thr'[u] = thr[u],
           hook'.target = "stop" \/ hook' = hook,
           Alone => /\ HostGoesDown(t)'
                    /\ lxc' = "STARTING" => thr'[t].pc = "forked"
                    /\ registered'[Self] # NoOp =>
                          thr'[t].pc \in StartPcs \cup StopPcs /\ thr'[t].op = registered'[Self]
    PROVE  AloneInv'
<1> SUFFICES ASSUME Alone
             PROVE  /\ OneServes' /\ OnlyStops' /\ StartAwaited' /\ OpServed'
                    /\ \A u \in Clients : HostGoesDown(u)'
  BY DEF AloneInv, Alone
<1>1. \A u \in Clients \ {t} : thr'[u] = thr[u] /\ thr[u].pc = "idle"
  BY ServesAlone DEF Threads
<1>2. OneServes' /\ StartAwaited' /\ OpServed'
  BY <1>1 DEF AloneInv, OneServes, StartAwaited, OpServed
<1>3. \A k \in Cleaners : thr'[k] = thr[k]
  BY LifecycleAssumption DEF Threads
<1>4. OnlyStops'
  BY <1>3 DEF AloneInv, OnlyStops
<1>5. \A u \in Clients \ {t} : HostGoesDown(u)'
  BY <1>1 DEF AloneInv, HostGoesDown, HostPcs
<1> QED
  BY <1>2, <1>4, <1>5

\* No client moves, or the clients that wait for a forkstart learn how it ended.
LEMMA AloneWatch ==
    ASSUME AloneInv, load' = load, sent' = sent,
           \A u \in Clients : \/ thr'[u] = thr[u]
                              \/ /\ thr[u].pc = "forked" /\ thr'[u].pc = "release"
                                 /\ thr'[u].req = thr[u].req /\ thr'[u].op = thr[u].op,
           Alone => /\ OnlyStops'
                    /\ lxc' = "STARTING" => lxc = "STARTING" /\ \A u \in Clients : thr'[u] = thr[u]
                    /\ lxc \in {"STOPPED", "STOPPING"} => lxc' \in {"STOPPED", "STOPPING"}
                    /\ registered'[Self] \in {registered[Self], NoOp}
    PROVE  AloneInv'
<1> SUFFICES ASSUME Alone
             PROVE  /\ OneServes' /\ OnlyStops' /\ StartAwaited' /\ OpServed'
                    /\ \A u \in Clients : HostGoesDown(u)'
  BY DEF AloneInv, Alone
<1>1. OneServes' /\ StartAwaited'
  BY DEF AloneInv, OneServes, StartAwaited
<1>2. OpServed'
  BY DEF AloneInv, OpServed, StartPcs, StopPcs
<1>3. \A u \in Clients : HostGoesDown(u)'
  BY DEF AloneInv, HostGoesDown, HostPcs
<1> QED
  BY <1>1, <1>2, <1>3

\* A request of the one client that is allowed any.
LEMMA RequestAlone ==
    ASSUME AloneIInv, NEW t \in Clients, Request(t)
    PROVE  AloneInv'
<1> SUFFICES ASSUME Alone
             PROVE  /\ OneServes' /\ OnlyStops' /\ StartAwaited' /\ OpServed'
                    /\ \A u \in Clients : HostGoesDown(u)'
  BY DEF AloneInv, Alone, Request
<1> USE DEF AloneIInv, AloneInv
<1>0. thr \in [Threads -> Thread] /\ t \in Threads /\ sent \in [Clients -> Nat] /\ thr[t].pc = "idle"
  <2>1. load \in Workload /\ sent \in [Clients -> 0 .. load.max] /\ thr \in [Threads -> Thread]
    BY LifecycleAssumption DEF LifecycleIInv, TypeOK
  <2>2. load.max \in Nat
    BY <2>1 DEF Workload
  <2>3. sent \in [Clients -> Nat]
    BY <2>1, <2>2
  <2> QED
    BY <2>1, <2>3 DEF Threads, Request, At
<1>1. /\ \A u \in Threads \ {t} : thr'[u] = thr[u]
      /\ thr'[t].pc = "begin" /\ sent' = [sent EXCEPT ![t] = sent[t] + 1]
      /\ UNCHANGED <<registered, lxc, hook>>
  BY <1>0 DEF Request, Idle, lockVars
<1>2. \A u \in Clients \ {t} : sent[u] = 0 /\ thr[u].pc = "idle"
  <2> SUFFICES ASSUME NEW u \in Clients \ {t}, sent[u] > 0 PROVE FALSE
    BY <1>0 DEF OneServes
  <2>1. {v \in Clients \ {t} : sent[v] > 0} = {u}
    BY DEF OneServes
  <2>2. Cardinality({v \in Clients \ {t} : sent[v] > 0}) < 1
    BY DEF Request, Alone
  <2>3. Cardinality({u}) = 1
    BY FS_Singleton
  <2> QED
    BY <2>1, <2>2, <2>3
<1>3. OneServes'
  BY <1>0, <1>1, <1>2 DEF OneServes, Threads
<1>4. \A u \in Clients : thr[u].pc \in {"idle", "begin"}
  BY <1>0, <1>2
<1>5. registered[Self] = NoOp /\ lxc # "STARTING"
  BY <1>4 DEF OpServed, StartAwaited, StartPcs, StopPcs
<1>6. StartAwaited' /\ OpServed'
  BY <1>1, <1>5 DEF StartAwaited, OpServed
<1>7. OnlyStops'
  BY <1>1, LifecycleAssumption DEF OnlyStops, Threads
<1>8. \A u \in Clients : HostGoesDown(u)'
  BY <1>1, <1>2 DEF HostGoesDown, HostPcs, Threads
<1> QED
  BY <1>3, <1>6, <1>7, <1>8

\* The facts about a client that serves which every step below starts from.
LEMMA ClientFacts ==
    ASSUME AloneIInv, NEW t \in Clients
    PROVE  /\ t \in Threads /\ t \notin Cleaners /\ TypeOK /\ RegisteredIsOpen
           /\ thr \in [Threads -> Thread] /\ thr[t] \in Thread /\ HoldsOp(t) /\ AloneInv
           /\ Alone => HostGoesDown(t)
BY LifecycleAssumption DEF AloneIInv, LifecycleIInv, TypeOK, ThreadsInv, Threads, AloneInv

\* The first steps of a request, KeepPower and Return.
LEMMA BeginAlone ==
    ASSUME AloneIInv, NEW t \in Clients, Begin(t) \/ KeepPower(t) \/ Return(t)
    PROVE  AloneInv'
<1>0. /\ t \in Threads /\ t \notin Cleaners /\ TypeOK
      /\ thr \in [Threads -> Thread] /\ thr[t] \in Thread /\ HoldsOp(t) /\ AloneInv
      /\ Alone => HostGoesDown(t)
  BY ClientFacts
<1>1. /\ load' = load /\ sent' = sent /\ hook' = hook /\ registered' = registered
      /\ lxc' = "STARTING" => lxc = "STARTING"
      /\ thr[t].pc \in {"begin", "keep", "return"}
  BY DEF Begin, BeginStart, BeginStop, BeginRestart, BeginFreeze, BeginHostShutdown, KeepPower,
         Return, callVars, lxcVars, lockVars, At
<1>2. Alone => registered'[Self] = NoOp /\ lxc' # "STARTING"
  BY <1>0, <1>1, ServesAlone DEF StartPcs, StopPcs
<1>3. CASE BeginStart(t) \/ BeginStop(t) \/ BeginFreeze(t)
  <2>1. (\A u \in Threads \ {t} : thr'[u] = thr[u]) /\ thr'[t].req # "host shutdown"
    <3>1. CASE BeginStart(t) \/ BeginStop(t)
      BY <1>0, <3>1, SimpleMoves DEF BeginStart, BeginStop, Moves
    <3>2. CASE BeginFreeze(t)
      BY <1>0, <3>2, SimpleMoves DEF BeginFreeze, Moves
    <3> QED
      BY <1>3, <3>1, <3>2
  <2> QED
    BY <1>0, <1>1, <1>2, <2>1, AloneMove DEF HostGoesDown
<1>4. CASE BeginRestart(t)
  <2> DEFINE r == [thr[t] EXCEPT !.resetEph = thr[t].eph, !.eph = FALSE]
             n == CASE r.req = "restart" -> [r EXCEPT !.proc = "Stop", !.pc = "check"]
                    [] r.req # "restart" /\ lxc = "FROZEN" ->
                          [r EXCEPT !.pc = "return", !.res = "error"]
                    [] OTHER -> [r EXCEPT !.proc = "Shutdown", !.pc = "check"]
  <2>1. r \in Thread /\ r.req = thr[t].req
    BY <1>0 DEF Thread
  <2>2. n.req = thr[t].req
    BY <2>1 DEF Thread
  <2>3. thr' = [thr EXCEPT ![t] = n] /\ thr[t].req # "host shutdown"
    BY <1>4 DEF BeginRestart, Restarts
  <2> HIDE DEF n
  <2>4. (\A u \in Threads \ {t} : thr'[u] = thr[u]) /\ thr'[t].req # "host shutdown"
    BY <1>0, <2>2, <2>3
  <2> QED
    BY <1>0, <1>1, <1>2, <2>4, AloneMove DEF HostGoesDown
<1>5. CASE BeginHostShutdown(t)
  <2>1. /\ \A u \in Threads \ {t} : thr'[u] = thr[u]
        /\ thr'[t].pc \in {"check", "keep"}
        /\ thr'[t].pc = "check" => thr'[t].proc = "Shutdown"
        /\ thr'[t].pc = "keep" => lxc' = "STOPPED"
    BY <1>0, <1>5 DEF BeginHostShutdown, IsRunning, Thread, lxcVars
  <2>2. HostGoesDown(t)'
    BY <2>1 DEF HostGoesDown, HostPcs
  <2> QED
    BY <1>0, <1>1, <1>2, <2>1, <2>2, AloneMove
<1>6. CASE KeepPower(t)
  <2>1. Moves(t, "return", thr[t].proc) /\ thr[t].pc = "keep" /\ lxc' = lxc
    BY <1>0, <1>6, SimpleMoves DEF KeepPower, At, lxcVars
  <2>2. Alone => HostGoesDown(t)'
    BY <1>0, <2>1 DEF HostGoesDown, HostPcs, Moves
  <2> QED
    BY <1>0, <1>1, <1>2, <2>1, <2>2, AloneMove DEF Moves
<1>7. CASE Return(t)
  <2>1. CASE thr[t].req = "host shutdown"
    <3>1. Moves(t, "exit", thr[t].proc) /\ thr[t].pc = "return" /\ lxc' = lxc
      BY <1>0, <1>7, <2>1, SimpleMoves DEF Return, At, lxcVars
    <3>2. Alone => HostGoesDown(t)'
      BY <1>0, <3>1 DEF HostGoesDown, HostPcs, Moves
    <3> QED
      BY <1>0, <1>1, <1>2, <3>1, <3>2, AloneMove DEF Moves
  <2>2. CASE thr[t].req # "host shutdown"
    <3>1. thr' = [thr EXCEPT ![t] = Idle]
      BY <1>7, <2>2 DEF Return
    <3>2. (\A u \in Threads \ {t} : thr'[u] = thr[u]) /\ thr'[t].req # "host shutdown"
      BY <1>0, <3>1 DEF Idle
    <3> QED
      BY <1>0, <1>1, <1>2, <3>2, AloneMove DEF HostGoesDown
  <2> QED
    BY <2>1, <2>2
<1> QED
  BY <1>3, <1>4, <1>5, <1>6, <1>7 DEF Begin

\* Leaving a function: the shutdown of the host has stopped the container, or tries
\* once more.
LEMMA LeaveAlone ==
    ASSUME AloneIInv, NEW t \in Clients, NEW res, Leave(t, res),
           thr[t].pc \notin {"idle", "begin", "keep", "return", "exit"},
           load' = load, sent' = sent, hook' = hook, lxc' = lxc,
           Alone => /\ registered'[Self] = NoOp /\ lxc # "STARTING"
                    /\ thr[t].req = "host shutdown" /\ thr[t].proc = "Stop"
                          => lxc \in {"STOPPED", "STOPPING"}
    PROVE  AloneInv'
<1>0. /\ t \in Threads /\ thr \in [Threads -> Thread] /\ thr[t] \in Thread /\ AloneInv
      /\ Alone => HostGoesDown(t)
  BY ClientFacts
<1>1. thr[t].req = "host shutdown" /\ Alone => HostGoesDown(t)'
  BY <1>0, LeaveMoves DEF HostGoesDown, HostPcs, Moves
<1>2. (\A u \in Threads \ {t} : thr'[u] = thr[u]) /\ thr'[t].req = thr[t].req
  BY <1>0, LeaveFacts
<1>3. Alone => HostGoesDown(t)'
  BY <1>1, <1>2 DEF HostGoesDown
<1> QED
  BY <1>0, <1>2, <1>3, AloneMove

\* createOperation.
LEMMA CreateAlone ==
    ASSUME AloneIInv, NEW t \in Clients, CreateOperation(t)
    PROVE  AloneInv'
<1>0. /\ t \in Threads /\ TypeOK /\ RegisteredIsOpen
      /\ thr \in [Threads -> Thread] /\ thr[t] \in Thread /\ HoldsOp(t) /\ AloneInv
      /\ Alone => HostGoesDown(t)
  BY ClientFacts
<1>1. UNCHANGED <<load, sent, hook, lxc>>
  BY DEF CreateOperation, GetOperation, InsertOperation, ResetOperation, callVars, lxcVars
<1>2. CASE GetOperation(t)
  <2>1. thr[t].pc = "get" /\ registered' = registered
    BY <1>2 DEF GetOperation, At, lockVars
  <2>2. Alone => registered[Self] = NoOp /\ lxc # "STARTING"
    BY <1>0, <2>1, ServesAlone DEF StartPcs, StopPcs
  <2>3. Alone => Moves(t, "insert", thr[t].proc)
    BY <1>0, <1>2, <2>2, SimpleMoves DEF GetOperation
  <2>4. Alone => HostGoesDown(t)'
    BY <1>0, <2>1, <2>3 DEF HostGoesDown, HostPcs, Moves
  <2>5. \A u \in Threads \ {t} : thr'[u] = thr[u]
    <3>1. CASE Goto(t, "insert")
      BY <1>0, <3>1, SimpleMoves DEF Moves
    <3>2. CASE Leave(t, "error")
      BY <1>0, <3>2, LeaveFacts
    <3>3. CASE thr' = [thr EXCEPT ![t].op = registered[Self], ![t].pc = "reset"]
      BY <1>0, <3>3
    <3> QED
      BY <1>2, <3>1, <3>2, <3>3 DEF GetOperation
  <2> QED
    BY <1>0, <1>1, <2>1, <2>2, <2>4, <2>5, AloneMove
<1>3. CASE InsertOperation(t)
  <2>1. PICK o \in FreshOps :
          /\ Create(Self, IF thr[t].proc = "Start" THEN "start" ELSE "stop",
                         thr[t].proc = "Shutdown", o)
          /\ thr' = [thr EXCEPT ![t].op = o,
                                ![t].pc = IF thr[t].proc = "Start" THEN "common" ELSE "act"]
    BY <1>3 DEF InsertOperation
  <2>2. thr[t].pc = "insert" /\ registered'[Self] = o
    BY <1>0, <1>3, <2>1, LifecycleAssumption
       DEF InsertOperation, At, Create, TypeOK, LockTypeOK
  <2>3. /\ \A u \in Threads \ {t} : thr'[u] = thr[u]
        /\ thr'[t].op = o /\ thr'[t].req = thr[t].req /\ thr'[t].proc = thr[t].proc
        /\ thr'[t].pc = IF thr[t].proc = "Start" THEN "common" ELSE "act"
    BY <1>0, <2>1 DEF Thread
  <2>4. Alone => lxc # "STARTING"
    BY <1>0, <2>2, ServesAlone
  <2>5. Alone => HostGoesDown(t)'
    BY <1>0, <2>2, <2>3 DEF HostGoesDown, HostPcs
  <2> QED
    BY <1>0, <1>1, <2>2, <2>3, <2>4, <2>5, AloneMove DEF StartPcs, StopPcs
<1>4. CASE ResetOperation(t)
  <2>1. Moves(t, "act", thr[t].proc) /\ thr[t].pc = "reset" /\ registered' = registered
    BY <1>0, <1>4, SimpleMoves DEF ResetOperation, At, Reset, lockVars
  <2>2. Alone => HostGoesDown(t)'
    BY <1>0, <2>1 DEF HostGoesDown, HostPcs, Moves
  <2>3. Alone => lxc # "STARTING" /\ (registered[Self] # NoOp => thr[t].op = registered[Self])
    BY <1>0, <2>1, ServesAlone
  <2> QED
    BY <1>0, <1>1, <2>1, <2>2, <2>3, AloneMove DEF Moves, StopPcs
<1> QED
  BY <1>2, <1>3, <1>4 DEF CreateOperation

\* Start, Stop and Shutdown.
LEMMA ServeAlone ==
    ASSUME AloneIInv, NEW t \in Clients, Start(t) \/ Stop(t) \/ Shutdown(t)
    PROVE  AloneInv'
<1>0. /\ t \in Threads /\ TypeOK /\ RegisteredIsOpen
      /\ thr \in [Threads -> Thread] /\ thr[t] \in Thread /\ HoldsOp(t) /\ AloneInv
      /\ Alone => HostGoesDown(t)
  BY ClientFacts
<1>1. load' = load /\ sent' = sent /\ (hook' = hook \/ hook'.target = "stop")
  BY DEF Start, StartCommon, Forkstart, ReleaseStart, Stop, CheckRunning, FreezeToStop,
         KillContainer, WaitOperation, Shutdown, SignalHalt, AwaitHalt, callVars, lxcVars, NoHook
<1>2. /\ thr[t].pc \in {"common", "fork", "release", "check", "act", "kill", "wait", "await"}
      /\ Alone => lxc # "STARTING"
      /\ Alone /\ registered[Self] # NoOp
            => thr[t].pc # "check" /\ thr[t].op = registered[Self]
  <2>1. thr[t].pc \in {"common", "fork", "release", "check", "act", "kill", "wait", "await"}
    BY DEF Start, StartCommon, Forkstart, ReleaseStart, Stop, CheckRunning, FreezeToStop,
           KillContainer, WaitOperation, Shutdown, SignalHalt, AwaitHalt, At
  <2> QED
    BY <1>0, <2>1, ServesAlone DEF StartPcs, StopPcs
<1>3. ASSUME Done(thr[t].op, "error") \/ Done(thr[t].op, "nil"), Alone
      PROVE  registered'[Self] = NoOp
  BY <1>0, <1>2, <1>3, DoneFrees
<1>4. CASE StartCommon(t) \/ Forkstart(t)
  <2>1. /\ registered' = registered
        /\ \/ Moves(t, "release", thr[t].proc) /\ lxc' = lxc
           \/ Moves(t, "fork", thr[t].proc) /\ lxc' = lxc
           \/ Moves(t, "forked", thr[t].proc)
    BY <1>0, <1>4, SimpleMoves DEF StartCommon, Forkstart, lockVars, lxcVars
  <2>2. Alone => thr[t].req # "host shutdown"
    BY <1>0, <1>4 DEF HostGoesDown, HostPcs, StartCommon, Forkstart, At
  <2> QED
    BY <1>0, <1>1, <1>2, <2>1, <2>2, AloneMove DEF Moves, StartPcs, HostGoesDown
<1>5. CASE ReleaseStart(t)
  <2>1. Done(thr[t].op, "nil") /\ Leave(t, thr[t].res) /\ thr[t].pc = "release"
        /\ UNCHANGED <<lxc, hook>>
    BY <1>5 DEF ReleaseStart, lxcVars, At
  <2>2. Alone => thr[t].req # "host shutdown"
    BY <1>0, <2>1 DEF HostGoesDown, HostPcs
  <2> QED
    BY <1>1, <1>2, <1>3, <2>1, <2>2, LeaveAlone
<1>6. CASE CheckRunning(t)
  <2>1. UNCHANGED <<registered, lxc, hook>> /\ thr[t].pc = "check"
        /\ (Goto(t, "get") \/ (lxc = "STOPPED" /\ Leave(t, "error")))
    BY <1>6 DEF CheckRunning, IsRunning, lockVars, lxcVars, At
  <2>2. CASE Goto(t, "get")
    <3>1. Moves(t, "get", thr[t].proc)
      BY <1>0, <2>2, SimpleMoves
    <3>2. Alone => HostGoesDown(t)'
      BY <1>0, <2>1, <3>1 DEF HostGoesDown, HostPcs, Moves
    <3> QED
      BY <1>0, <1>1, <1>2, <2>1, <3>1, <3>2, AloneMove DEF Moves
  <2>3. CASE lxc = "STOPPED" /\ Leave(t, "error")
    BY <1>1, <1>2, <2>1, <2>3, LeaveAlone
  <2> QED
    BY <2>1, <2>2, <2>3
<1>7. CASE FreezeToStop(t)
  <2>1. Moves(t, "kill", thr[t].proc) /\ thr[t].pc = "act" /\ registered' = registered
        /\ (lxc' = "STARTING" => lxc = "STARTING")
    BY <1>0, <1>7, SimpleMoves DEF FreezeToStop, At, lockVars
  <2>2. Alone => HostGoesDown(t)'
    BY <1>0, <2>1 DEF HostGoesDown, HostPcs, Moves
  <2> QED
    BY <1>0, <1>1, <1>2, <2>1, <2>2, AloneMove DEF Moves, StopPcs
<1>8. CASE KillContainer(t)
  <2>1. CASE /\ lxc \in {"STOPPED", "STOPPING"} /\ Done(thr[t].op, "error")
             /\ Leave(t, "error") /\ UNCHANGED <<lxc, hook>>
    BY <1>1, <1>2, <1>3, <2>1, LeaveAlone
  <2>2. CASE lxc' = "STOPPING" /\ Goto(t, "wait") /\ UNCHANGED lockVars
    <3>1. Moves(t, "wait", thr[t].proc) /\ registered' = registered /\ thr[t].pc = "kill"
      BY <1>0, <1>8, <2>2, SimpleMoves DEF lockVars, KillContainer, At
    <3>2. Alone => HostGoesDown(t)'
      BY <1>0, <2>2, <3>1 DEF HostGoesDown, HostPcs, Moves
    <3> QED
      BY <1>0, <1>1, <1>2, <2>2, <3>1, <3>2, AloneMove DEF Moves, StopPcs
  <2> QED
    BY <1>8, <2>1, <2>2 DEF KillContainer
<1>9. CASE WaitOperation(t)
  <2>1. /\ UNCHANGED <<registered, lxc, hook>> /\ thr[t].pc = "wait" /\ thr[t].op \in closed
        /\ \E res : Leave(t, res)
    BY <1>9 DEF WaitOperation, lockVars, lxcVars, At
  <2>2. Alone => registered[Self] = NoOp
    BY <1>0, <1>2, <2>1, LifecycleAssumption DEF RegisteredIsOpen
  <2>3. thr[t].req = "host shutdown" /\ thr[t].proc = "Stop" /\ Alone => lxc \in {"STOPPED", "STOPPING"}
    BY <1>0, <2>1 DEF HostGoesDown
  <2> QED
    BY <1>1, <1>2, <2>1, <2>2, <2>3, LeaveAlone
<1>10. CASE SignalHalt(t) \/ AwaitHalt(t)
  <2>1. UNCHANGED <<lxc, hook>> /\ thr[t].proc = "Shutdown" /\ thr[t].pc \in {"act", "await"}
    BY <1>0, <1>10 DEF SignalHalt, AwaitHalt, lxcVars, At, HoldsOp
  <2>2. CASE UNCHANGED lockVars /\ (Goto(t, "await") \/ Goto(t, "wait"))
    <3>1. /\ Moves(t, "await", thr[t].proc) \/ Moves(t, "wait", thr[t].proc)
          /\ registered' = registered
      BY <1>0, <2>2, SimpleMoves DEF lockVars
    <3>2. Alone => HostGoesDown(t)'
      BY <1>0, <2>1, <3>1 DEF HostGoesDown, HostPcs, Moves
    <3> QED
      BY <1>0, <1>1, <1>2, <2>1, <3>1, <3>2, AloneMove DEF Moves, StopPcs
  <2>3. CASE Done(thr[t].op, "error") /\ Leave(t, "error")
    BY <1>1, <1>2, <1>3, <2>1, <2>3, LeaveAlone
  <2> QED
    BY <1>10, <2>2, <2>3 DEF SignalHalt, AwaitHalt
<1> QED
  BY <1>4, <1>5, <1>6, <1>7, <1>8, <1>9, <1>10 DEF Start, Stop, Shutdown

\* The goroutine of OnStop.
LEMMA CleanupAlone ==
    ASSUME AloneIInv, NEW k \in Cleaners, Run(k)
    PROVE  AloneInv'
<1>0. /\ k \in Threads /\ k \notin Clients /\ TypeOK /\ RegisteredIsOpen
      /\ thr \in [Threads -> Thread] /\ thr[k] \in Thread /\ AloneInv
  BY LifecycleAssumption DEF AloneIInv, LifecycleIInv, TypeOK, Threads
<1> SUFFICES ASSUME Alone' PROVE AloneInv'
  BY DEF AloneInv
<1>1. load' = load
  BY DEF Run, Begin, BeginStart, BeginStop, BeginRestart, BeginFreeze, BeginHostShutdown,
         CreateOperation, GetOperation, InsertOperation, ResetOperation, Start, StartCommon,
         Forkstart, ReleaseStart, Stop, CheckRunning, FreezeToStop, KillContainer, WaitOperation,
         Shutdown, SignalHalt, AwaitHalt, Cleanup, Settle, Clean, RecordStopped, DeleteEphemeral,
         Unlock, KeepPower, Return, callVars
<1>2. Alone /\ OnlyStops
  BY <1>0, <1>1 DEF AloneInv, Alone
<1>3. thr[k].pc \in CleanupPcs \cup {"idle"} /\ thr[k].req # "reboot"
  BY <1>2 DEF OnlyStops
<1>4. Cleanup(k)
  BY <1>3 DEF CleanupPcs, At, Run, Begin, BeginStart, BeginStop, BeginRestart, BeginFreeze,
              BeginHostShutdown, CreateOperation, GetOperation, InsertOperation, ResetOperation,
              Start, StartCommon, Forkstart, ReleaseStart, Stop, CheckRunning, FreezeToStop,
              KillContainer, WaitOperation, Shutdown, SignalHalt, AwaitHalt, KeepPower, Return
<1>5. UNCHANGED <<lxc, hook, sent>>
  BY <1>4 DEF Cleanup, Settle, Clean, RecordStopped, DeleteEphemeral, Unlock, lxcVars, callVars
<1>6. /\ \A u \in Threads \ {k} : thr'[u] = thr[u]
      /\ thr'[k].pc \in CleanupPcs \cup {"idle"} /\ thr'[k].req # "reboot"
  <2>1. CASE Settle(k) \/ RecordStopped(k) \/ DeleteEphemeral(k)
    <3>1. Moves(k, "clean", thr[k].proc) \/ Moves(k, "delete", thr[k].proc)
            \/ Moves(k, "unlock", thr[k].proc)
      BY <1>0, <2>1, SimpleMoves DEF Settle, RecordStopped, DeleteEphemeral
    <3> QED
      BY <1>3, <3>1 DEF Moves, CleanupPcs
  <2>2. CASE Clean(k)
    BY <1>0, <1>3, <2>2 DEF Clean, CleanupPcs, Thread
  <2>3. CASE Unlock(k)
    <3>1. thr' = [thr EXCEPT ![k] = Idle]
      BY <2>3 DEF Unlock
    <3> QED
      BY <1>0, <3>1 DEF Idle
  <2> QED
    BY <1>4, <2>1, <2>2, <2>3 DEF Cleanup
<1>7. registered'[Self] \in {registered[Self], NoOp}
  <2>1. UNCHANGED registered \/ Done(thr[k].caught, "nil")
    BY <1>4 DEF Cleanup, Settle, Clean, RecordStopped, DeleteEphemeral, Unlock, lockVars
  <2> QED
    BY <1>0, <2>1, DoneFrees
<1>8. OnlyStops'
  BY <1>2, <1>5, <1>6 DEF OnlyStops, Threads
<1> QED
  BY <1>0, <1>1, <1>5, <1>6, <1>7, <1>8, AloneWatch DEF Threads

\* The container reaches STOPPED.
LEMMA StoppedAlone ==
    ASSUME AloneIInv, Stopped, load' = load, sent' = sent,
           registered'[Self] \in {registered[Self], NoOp}
    PROVE  AloneInv'
<1>0. thr \in [Threads -> Thread] /\ AloneInv
  BY DEF AloneIInv, LifecycleIInv, TypeOK
<1>1. lxc' = "STOPPED" /\ hook'.target = "stop"
  BY DEF Stopped, NoHook
<1>2. ASSUME NEW u \in Threads
      PROVE  \/ thr'[u] = thr[u]
             \/ /\ thr[u].pc = "forked" /\ thr'[u].pc = "release"
                /\ thr'[u].req = thr[u].req /\ thr'[u].op = thr[u].op
  BY <1>0 DEF Stopped, At, Thread
<1>3. Alone => OnlyStops'
  BY <1>0, <1>1, <1>2 DEF AloneInv, OnlyStops, CleanupPcs, Threads
<1> QED
  BY <1>0, <1>1, <1>2, <1>3, AloneWatch DEF Threads

\* The hooks, LXC, the guest and the timers.
LEMMA EnvironmentAlone ==
    ASSUME AloneIInv, Hooks \/ Lxc \/ Guest \/ \E o \in OpIds : Timeout(o)
    PROVE  AloneInv'
<1>0. /\ TypeOK /\ RegisteredIsOpen /\ HookInv
      /\ thr \in [Threads -> Thread] /\ AloneInv
      /\ hook \in [step : {"none", "start", "started", "stop", "storage"},
                   target : {"stop", "reboot"}, op : OpIds \cup {NoOp}]
  BY DEF AloneIInv, LifecycleIInv, TypeOK
<1>1. load' = load /\ sent' = sent
  BY DEF Hooks, OnStart, OnStartRecord, OnStop, OnStopStorage, Lxc, LxcRunning, LxcStopped,
         LxcCrash, Guest, GuestHalt, GuestPoweroff, GuestReboot, GoDown, Timeout, callVars
<1>2. CASE OnStart \/ OnStartRecord \/ OnStop \/ LxcStopped
  <2>1. registered' = registered
    BY <1>2 DEF OnStart, OnStartRecord, OnStop, LxcStopped, lockVars
  <2>2. CASE Stopped
    BY <1>1, <2>1, <2>2, StoppedAlone
  <2>3. CASE UNCHANGED <<lxc, thr>> /\ (hook'.target = hook.target \/ hook'.target = "stop")
    <3>1. Alone => OnlyStops'
      BY <1>0, <2>3 DEF AloneInv, OnlyStops
    <3> QED
      BY <1>0, <1>1, <2>1, <2>3, <3>1, AloneWatch
  <2>4. Stopped \/ (UNCHANGED <<lxc, thr>> /\ (hook'.target = hook.target \/ hook'.target = "stop"))
    <3>1. CASE OnStart \/ OnStop
      BY <1>0, <3>1 DEF OnStart, OnStop
    <3>2. CASE OnStartRecord
      BY <3>2 DEF OnStartRecord, NoHook
    <3>3. CASE LxcStopped
      BY <3>3 DEF LxcStopped
    <3> QED
      BY <1>2, <3>1, <3>2, <3>3
  <2> QED
    BY <2>2, <2>3, <2>4
<1>3. CASE OnStopStorage
  <2>1. CASE Stopped /\ IF hook.op # NoOp THEN Done(hook.op, "error") ELSE UNCHANGED lockVars
    <3>1. registered'[Self] \in {registered[Self], NoOp}
      BY <1>0, <2>1, DoneFrees DEF lockVars
    <3> QED
      BY <1>1, <2>1, <3>1, StoppedAlone
  <2>2. CASE /\ hook' = NoHook /\ UNCHANGED <<lockVars, lxc>>
             /\ \E t \in Cleaners :
                thr' = [thr EXCEPT ![t] =
                      [Idle EXCEPT !.pc = "settle", !.req = hook.target,
                                   !.caught = hook.op, !.power = power, !.eph = ephemeral]]
    <3>1. PICK t \in Cleaners :
                thr' = [thr EXCEPT ![t] =
                      [Idle EXCEPT !.pc = "settle", !.req = hook.target,
                                   !.caught = hook.op, !.power = power, !.eph = ephemeral]]
      BY <2>2
    <3>2. /\ \A u \in Threads \ {t} : thr'[u] = thr[u]
          /\ thr'[t].pc = "settle" /\ thr'[t].req = hook.target
      BY <1>0, <3>1 DEF Idle, Threads
    <3>3. Alone => OnlyStops'
      BY <1>0, <2>2, <3>2 DEF AloneInv, OnlyStops, NoHook, CleanupPcs, Threads
    <3>4. \A u \in Clients : thr'[u] = thr[u]
      BY <3>2, LifecycleAssumption DEF Threads
    <3> QED
      BY <1>0, <1>1, <2>2, <3>3, <3>4, AloneWatch DEF lockVars
  <2> QED
    BY <1>3, <2>1, <2>2 DEF OnStopStorage
<1>4. CASE LxcRunning
  <2>1. /\ UNCHANGED <<registered, hook>> /\ lxc = "STARTING" /\ lxc' = "RUNNING"
    BY <1>4 DEF LxcRunning, lockVars
  <2>2. ASSUME NEW u \in Threads
        PROVE  \/ thr'[u] = thr[u]
               \/ /\ thr[u].pc = "forked" /\ thr'[u].pc = "release"
                  /\ thr'[u].req = thr[u].req /\ thr'[u].op = thr[u].op
    BY <1>0, <1>4 DEF LxcRunning, At, Thread
  <2>3. Alone => OnlyStops'
    BY <1>0, <2>1, <2>2 DEF AloneInv, OnlyStops, CleanupPcs, Threads
  <2> QED
    BY <1>0, <1>1, <2>1, <2>2, <2>3, AloneWatch DEF Threads
<1>5. CASE LxcCrash \/ Guest
  <2>1. UNCHANGED <<registered, thr>> /\ lxc' = "STOPPING" /\ (Alone => hook'.target = "stop")
    BY <1>5 DEF LxcCrash, Guest, GuestHalt, GuestPoweroff, GuestReboot, GoDown, lockVars, Alone,
                NoHook
  <2>2. Alone => OnlyStops'
    BY <1>0, <2>1 DEF AloneInv, OnlyStops
  <2> QED
    BY <1>0, <1>1, <2>1, <2>2, AloneWatch
<1>6. ASSUME NEW o \in OpIds, Timeout(o)
      PROVE  AloneInv'
  <2>1. UNCHANGED <<lxc, hook, thr>> /\ o \in timers /\ Complete(o, "timeout")
    BY <1>6 DEF Timeout, TimedOut, lxcVars
  <2>a. o \in DOMAIN op
    BY <1>0, <2>1 DEF TypeOK, LockTypeOK, created
  <2>2. registered'[Self] \in {registered[Self], NoOp}
    BY <1>0, <2>1, <2>a, CompleteFrees
  <2>3. Alone => OnlyStops'
    BY <1>0, <2>1 DEF AloneInv, OnlyStops
  <2> QED
    BY <1>0, <1>1, <2>1, <2>2, <2>3, AloneWatch
<1> QED
  BY <1>2, <1>3, <1>4, <1>5, <1>6 DEF Hooks, Lxc

\* Every step keeps the invariant.
LEMMA AloneStep ==
    ASSUME AloneIInv, [Next]_vars
    PROVE  AloneInv'
<1>1. CASE \E t \in Clients : Request(t)
  BY <1>1, RequestAlone
<1>2. ASSUME NEW t \in Clients, Run(t)
      PROVE  AloneInv'
  <2>1. ~Cleanup(t)
    BY ClientFacts DEF HoldsOp, Cleanup, Settle, Clean, RecordStopped, DeleteEphemeral, Unlock, At
  <2> QED
    BY <1>2, <2>1, BeginAlone, CreateAlone, ServeAlone DEF Run
<1>3. CASE Hooks \/ Lxc \/ Guest \/ \E o \in OpIds : Timeout(o)
  BY <1>3, EnvironmentAlone
<1>4. CASE UNCHANGED vars
  <2>1. UNCHANGED <<registered, lxc, hook, thr, load, sent>>
    BY <1>4 DEF vars, lockVars, lxcVars, callVars
  <2>2. AloneInv /\ (Alone => OnlyStops')
    BY <2>1 DEF AloneIInv, AloneInv, OnlyStops
  <2> QED
    BY <2>1, <2>2, AloneWatch
<1> QED
  BY <1>1, <1>2, <1>3, <1>4, CleanupAlone DEF Next, Threads

\* The initial states satisfy the invariant.
LEMMA AloneInit == Init => AloneIInv
<1> SUFFICES ASSUME Init PROVE AloneIInv
  OBVIOUS
<1>1. LifecycleIInv /\ RegisteredIsOpen
  BY LifecycleInit DEF Init, LockInit, RegisteredIsOpen
<1>2. /\ \A t \in Threads : thr[t].pc = "idle" /\ thr[t].req = "none"
      /\ \A t \in Clients : sent[t] = 0
      /\ registered[Self] = NoOp
  BY LifecycleAssumption DEF Init, Idle, LockInit
<1>3. OneServes /\ OpServed
  BY <1>2 DEF OneServes, OpServed, Threads
<1>4. OnlyStops /\ StartAwaited
  BY <1>2 DEF OnlyStops, StartAwaited, Init, NoHook, Threads
<1>5. \A u \in Clients : HostGoesDown(u)
  BY <1>2 DEF HostGoesDown, Threads
<1> QED
  BY <1>1, <1>3, <1>4, <1>5 DEF AloneIInv, AloneInv

\* Once no guest reboots and requests come one after the other, the shutdown of the
\* host leaves no container running, frozen and unresponsive guests and everything
\* else that can fail included.
THEOREM HostShutdownWorks == Spec => []HostShutdownStops
<1>1. AloneIInv /\ RegisteredIsOpen' /\ [Next]_vars => AloneIInv'
  BY LifecycleStep, AloneStep DEF AloneIInv
<1>2. LockInv => RegisteredIsOpen
  BY DEF LockInv
<1>3. AloneIInv => HostShutdownStops
  BY DEF AloneIInv, AloneInv, HostShutdownStops, HostGoesDown, At
<1> QED
  BY <1>1, <1>2, <1>3, AloneInit, LockSafe, PTL DEF Spec

---------------------------------------------------------------------------
(* The inductive invariant behind SettledInv and EphemeralFate             *)

Up            == lxc \in {"RUNNING", "FROZEN"}
CleanersIdle  == \A k \in Cleaners : thr[k].pc = "idle"
NoFork        == \A u \in Clients : thr[u].pc # "fork"
ShuttingDown  == \E u \in Clients : thr[u].req = "host shutdown" /\ thr[u].pc \notin {"idle", "begin"}

\* What the container holds on the host in each state LXC reports: all it needs
\* while it is up; from devices to mount and profile while it starts; nothing once
\* it has stopped and the goroutine of OnStop is done, but for the devices of the
\* start that is about to fork.
HeldUp == Up => hook = NoHook /\ mounted /\ devices /\ apparmor /\ CleanersIdle

HeldStarting ==
    lxc = "STARTING" =>
        /\ devices /\ CleanersIdle /\ hook.step \in {"none", "start", "started"}
        /\ hook.step = "none" => hook = NoHook /\ power = "RUNNING"
        /\ hook.step # "start" => mounted /\ apparmor

HeldStopping ==
    lxc = "STOPPING" =>
        \/ hook.step \in {"stop", "storage"} /\ CleanersIdle
        \/ hook = NoHook /\ ~mounted /\ \E k \in Cleaners : thr[k].pc = "settle"

HeldStopped ==
    lxc = "STOPPED" =>
        /\ hook = NoHook /\ ~mounted
        /\ CleanersIdle => ~apparmor
        /\ CleanersIdle /\ NoFork => ~devices

\* The recorded power state, until the shutdown of the host takes it over.
PowerFollows ==
    ~ShuttingDown =>
        /\ Up => power = "RUNNING"
        /\ lxc = "STOPPED" /\ CleanersIdle /\ NoFork => power # "RUNNING"
        /\ \A k \in Cleaners : thr[k].pc \in {"delete", "unlock"} => power # "RUNNING"

\* An ephemeral container is there while it is not stopped, and is gone once it is
\* and the goroutine of OnStop is done.
EphemeralFollows ==
    /\ lxc # "STOPPED" => exists
    /\ ~ShuttingDown /\ exists /\ ephemeral => lxc # "STOPPED" \/ ~CleanersIdle

\* The goroutine of OnStop: how far the container has come down, and what it is
\* going to do with it.
CleanerFollows(k) ==
    thr[k].pc # "idle" =>
        /\ lxc \in {"STOPPING", "STOPPED"}
        /\ thr[k].pc # "settle" => lxc = "STOPPED"
        /\ thr[k].pc \in {"record", "delete", "unlock"} => ~devices /\ ~apparmor
        /\ thr[k].pc # "unlock" => exists
        /\ thr[k].pc = "delete" => thr[k].eph
        /\ ~ShuttingDown =>
              /\ thr[k].caught = registered[Self]
              /\ thr[k].eph = ephemeral
              /\ thr[k].pc = "unlock" => ~exists \/ ~ephemeral

OneCleaner == \A j, k \in Cleaners : thr[j].pc # "idle" /\ thr[k].pc # "idle" => j = k

\* What the client that serves knows: its copies are the database's, the container is
\* where its request has brought it, and its operation is the one in the map.
ClientFollows(u) ==
    (thr[u].pc # "idle" /\ ~ShuttingDown) =>
        /\ thr[u].req \in load.requests
        /\ thr[u].proc # "Shutdown" /\ thr[u].pc # "reset"
        /\ thr[u].pc \notin {"wait", "return"} \/ thr[u].req = "restart" => exists
        /\ thr[u].eph = ephemeral
        /\ thr[u].pc = "begin" => thr[u].power = power /\ ~thr[u].resetEph
        /\ thr[u].req = "restart" /\ thr[u].pc # "begin" => ~ephemeral
        /\ thr[u].resetEph => /\ thr[u].req = "restart" /\ thr[u].power = "RUNNING"
                              /\ thr[u].pc \in {"check", "return"} => Up
        /\ thr[u].pc \in {"get", "insert"} => thr[u].proc = "Start" \/ Up
        /\ thr[u].pc \in {"act", "kill", "release"} => Up
        /\ thr[u].pc = "fork" => lxc = "STOPPED" /\ devices
        /\ thr[u].pc = "forked" => lxc = "STARTING"
        /\ thr[u].pc = "wait" => lxc \in {"STOPPING", "STOPPED"}
        /\ thr[u].pc \in {"common", "fork", "forked", "release", "act", "kill"}
              => thr[u].op = registered[Self]

\* The container goes down, and is cleaned up after, only for a stop that waits for
\* its operation, or for the shutdown of the host.
StopAwaited ==
    ~ShuttingDown =>
        /\ ~halting
        /\ lxc = "STOPPING" \/ ~CleanersIdle
              => \E u \in Clients : thr[u].pc = "wait" /\ thr[u].op = registered[Self]
        /\ hook.step = "storage" => hook.op = registered[Self]

HeldInv == HeldUp /\ HeldStarting /\ HeldStopping /\ HeldStopped

UndisturbedInv ==
    Undisturbed =>
        /\ HeldInv /\ PowerFollows /\ EphemeralFollows /\ StopAwaited /\ OneCleaner
        /\ \A k \in Cleaners : CleanerFollows(k)
        /\ \A u \in Clients : ClientFollows(u)

SettledIInv == AloneIInv /\ UndisturbedInv

\* What LXC's hook is when it waits for none.
LEMMA NoHookFields ==
    /\ NoHook.step = "none" /\ NoHook.target = "stop"
    /\ [NoHook EXCEPT !.step = "stop"].step = "stop"
BY DEF NoHook

\* What the client that serves can rely on when nothing disturbs the requests.
LEMMA Serving ==
    ASSUME AloneIInv, UndisturbedInv, Undisturbed, NEW t \in Clients, thr[t].pc # "idle"
    PROVE  /\ Alone /\ \A u \in Clients \ {t} : thr[u].pc = "idle"
           /\ ShuttingDown <=> thr[t].req = "host shutdown" /\ thr[t].pc # "begin"
           /\ lxc = "STARTING" => thr[t].pc = "forked"
           /\ registered[Self] # NoOp =>
                 thr[t].pc \in StartPcs \cup StopPcs /\ thr[t].op = registered[Self]
           /\ ~ShuttingDown =>
                 /\ ClientFollows(t)
                 /\ thr[t].pc # "wait" \/ thr[t].op # registered[Self]
                       => lxc # "STOPPING" /\ CleanersIdle
<1>1. Alone /\ AloneInv
  BY DEF Alone, Undisturbed, AloneIInv
<1>2. \A u \in Clients \ {t} : thr[u].pc = "idle"
  BY <1>1, ServesAlone
<1>3. ShuttingDown <=> thr[t].req = "host shutdown" /\ thr[t].pc # "begin"
  BY <1>2 DEF ShuttingDown
<1>4. ~ShuttingDown =>
         /\ ClientFollows(t)
         /\ thr[t].pc # "wait" \/ thr[t].op # registered[Self] => lxc # "STOPPING" /\ CleanersIdle
  BY <1>2 DEF UndisturbedInv, StopAwaited
<1> QED
  BY <1>1, <1>2, <1>3, <1>4, ServesAlone

\* A step of the one client while the container is stopped or up and no goroutine of
\* OnStop runs: the invariant is kept if the client's part and the database's are.
LEMMA QuietStep ==
    ASSUME UndisturbedInv, Undisturbed, ~ShuttingDown, NoFork, CleanersIdle,
           lxc \in {"STOPPED", "RUNNING", "FROZEN"}, lxc' = lxc \/ (Up /\ Up'),
           UNCHANGED <<hook, halting, mounted, apparmor, exists, load>>,
           NEW t \in Clients, \A u \in Threads \ {t} : thr'[u] = thr[u],
           \A u \in Clients \ {t} : thr[u].pc = "idle",
           thr'[t].pc \in {"idle", "begin"} \/ thr'[t].req # "host shutdown",
           devices' = devices \/ (lxc = "STOPPED" /\ thr'[t].pc = "fork"),
           power' = power \/ (lxc = "STOPPED" /\ thr'[t].pc = "fork")
                          \/ (Up /\ power' = "RUNNING"),
           exists /\ ephemeral' => (exists /\ ephemeral) \/ Up,
           ClientFollows(t)'
    PROVE  UndisturbedInv'
<1>0. t \in Threads /\ (\A k \in Cleaners : k \in Threads /\ k # t) /\ (\A u \in Clients : u \in Threads)
  BY LifecycleAssumption DEF Threads
<1>1. CleanersIdle' /\ \A u \in Clients \ {t} : thr'[u].pc = "idle"
  BY <1>0 DEF CleanersIdle
<1>2. ~ShuttingDown'
  BY <1>0, <1>1 DEF ShuttingDown
<1>3. HeldInv /\ PowerFollows /\ EphemeralFollows /\ StopAwaited
  BY DEF UndisturbedInv
<1>4. (Up <=> lxc # "STOPPED") /\ (Up' <=> Up) /\ (lxc' = "STOPPED" <=> lxc = "STOPPED")
      /\ lxc' \in {"STOPPED", "RUNNING", "FROZEN"}
  BY DEF Up
<1>5. hook' = NoHook
  BY <1>3, <1>4 DEF HeldInv, HeldUp, HeldStopped
<1>6. HeldUp'
  BY <1>1, <1>3, <1>4, <1>5 DEF HeldInv, HeldUp
<1>7. HeldStarting' /\ HeldStopping'
  BY <1>4 DEF HeldStarting, HeldStopping
<1>8. HeldStopped'
  <2>1. lxc' = "STOPPED" => ~mounted /\ ~apparmor /\ ~devices
    BY <1>3, <1>4 DEF HeldInv, HeldStopped
  <2>2. lxc' = "STOPPED" /\ NoFork' => devices' = devices
    BY <1>4 DEF NoFork
  <2> QED
    BY <1>5, <2>1, <2>2 DEF HeldStopped
<1>9. PowerFollows'
  <2>1. Up' => power' = "RUNNING"
    BY <1>3, <1>4 DEF PowerFollows
  <2>2. lxc' = "STOPPED" /\ NoFork' => power' # "RUNNING"
    BY <1>3, <1>4 DEF PowerFollows, NoFork
  <2> QED
    BY <1>1, <2>1, <2>2 DEF PowerFollows, CleanersIdle
<1>10. EphemeralFollows'
  BY <1>3, <1>4 DEF EphemeralFollows
<1>11. StopAwaited'
  <2>1. ~halting'
    BY <1>3 DEF StopAwaited
  <2>2. hook'.step # "storage"
    BY <1>5, NoHookFields
  <2>3. lxc' # "STOPPING"
    BY <1>4
  <2> QED
    BY <1>1, <2>1, <2>2, <2>3 DEF StopAwaited
<1>12. OneCleaner' /\ \A k \in Cleaners : CleanerFollows(k)'
  BY <1>1 DEF OneCleaner, CleanerFollows, CleanersIdle
<1>13. \A u \in Clients : ClientFollows(u)'
  BY <1>1 DEF ClientFollows
<1> QED
  BY <1>6, <1>7, <1>8, <1>9, <1>10, <1>11, <1>12, <1>13 DEF UndisturbedInv, HeldInv

\* A step of the host's shutdown, which may take the container down.
LEMMA HostMove ==
    ASSUME AloneIInv, UndisturbedInv, AloneInv', Undisturbed, NEW t \in Clients,
           thr[t].req = "host shutdown", thr[t].pc \notin {"idle", "begin"},
           thr'[t].req = "host shutdown", thr'[t].pc # "begin",
           \A u \in Threads \ {t} : thr'[u] = thr[u],
           UNCHANGED <<mounted, devices, apparmor, exists, load>>,
           \/ UNCHANGED <<lxc, hook>>
           \/ Up /\ Up' /\ hook' = hook
           \/ Up /\ lxc' = "STOPPING" /\ hook' = [NoHook EXCEPT !.step = "stop"]
    PROVE  UndisturbedInv'
<1>0. t \in Threads /\ (\A k \in Cleaners : k \in Threads /\ k # t)
  BY LifecycleAssumption DEF Threads
<1>a. thr'[t].pc \in HostPcs
  BY DEF AloneInv, HostGoesDown, Alone, Undisturbed
<1>1. ShuttingDown' /\ ShuttingDown
  BY <1>a DEF ShuttingDown, HostPcs
<1>2. \A u \in Clients \ {t} : thr[u].pc = "idle" /\ thr'[u] = thr[u]
  BY Serving DEF Threads
<1>3. \A k \in Cleaners : thr'[k] = thr[k]
  BY <1>0
<1>4. thr[t].pc \in HostPcs
  BY DEF AloneIInv, AloneInv, HostGoesDown, Alone, Undisturbed
<1>5. NoFork /\ NoFork' /\ (CleanersIdle' <=> CleanersIdle) /\ lxc # "STARTING"
  BY <1>a, <1>2, <1>3, <1>4, Serving DEF NoFork, HostPcs, CleanersIdle
<1>6. HeldInv /\ EphemeralFollows /\ OneCleaner /\ \A k \in Cleaners : CleanerFollows(k)
  BY DEF UndisturbedInv
<1>7. HeldUp' /\ HeldStarting' /\ HeldStopping' /\ HeldStopped'
  <2>1. CASE UNCHANGED <<lxc, hook>>
    BY <1>3, <1>5, <1>6, <2>1 DEF HeldInv, HeldUp, HeldStarting, HeldStopping, HeldStopped, Up
  <2>2. CASE Up /\ Up' /\ hook' = hook
    BY <1>5, <1>6, <2>2 DEF HeldInv, HeldUp, HeldStarting, HeldStopping, HeldStopped, Up
  <2>3. CASE Up /\ lxc' = "STOPPING" /\ hook' = [NoHook EXCEPT !.step = "stop"]
    <3>1. hook'.step = "stop" /\ CleanersIdle
      BY <1>6, <2>3 DEF NoHook, HeldInv, HeldUp
    <3> QED
      BY <1>5, <2>3, <3>1 DEF HeldUp, HeldStarting, HeldStopping, HeldStopped, Up
  <2> QED
    BY <2>1, <2>2, <2>3
<1>8. lxc \in {"STOPPING", "STOPPED"} => lxc' = lxc
  BY DEF Up
<1>9. \A k \in Cleaners : thr[k].pc # "idle" => lxc \in {"STOPPING", "STOPPED"}
  BY <1>6 DEF CleanerFollows
<1>10. OneCleaner' /\ \A k \in Cleaners : CleanerFollows(k)'
  <2>1. OneCleaner'
    <3> SUFFICES ASSUME NEW j \in Cleaners, NEW k \in Cleaners,
                        thr'[j].pc # "idle", thr'[k].pc # "idle"
                 PROVE  j = k
      BY DEF OneCleaner
    <3>1. thr[j].pc # "idle" /\ thr[k].pc # "idle" /\ OneCleaner
      BY <1>3, <1>6
    <3> QED
      BY <3>1, Zenon DEF OneCleaner
  <2>2. ASSUME NEW k \in Cleaners, thr[k].pc # "idle"
        PROVE  CleanerFollows(k)'
    <3>1. lxc' = lxc /\ thr'[k] = thr[k] /\ CleanerFollows(k)
      BY <1>3, <1>6, <1>8, <1>9, <2>2
    <3> QED
      BY <1>1, <3>1 DEF CleanerFollows
  <2>3. \A k \in Cleaners : thr[k].pc = "idle" => CleanerFollows(k)'
    BY <1>3 DEF CleanerFollows
  <2> QED
    BY <2>1, <2>2, <2>3
<1>11. EphemeralFollows'
  BY <1>1, <1>6 DEF EphemeralFollows, Up
<1>12. PowerFollows' /\ StopAwaited' /\ \A u \in Clients : ClientFollows(u)'
  BY <1>1 DEF PowerFollows, StopAwaited, ClientFollows
<1> QED
  BY <1>7, <1>10, <1>11, <1>12 DEF UndisturbedInv, HeldInv

\* What a step needs to know of the state when the client that serves is not waiting:
\* the container is stopped or up, and no goroutine of OnStop runs.
LEMMA QuietNow ==
    ASSUME AloneIInv, UndisturbedInv, Undisturbed, NEW t \in Clients,
           thr[t].pc \notin {"idle", "forked"},
           thr[t].req # "host shutdown" \/ thr[t].pc = "begin",
           thr[t].pc # "wait" \/ thr[t].op # registered[Self]
    PROVE  /\ ~ShuttingDown /\ CleanersIdle /\ lxc \in {"STOPPED", "RUNNING", "FROZEN"}
           /\ \A u \in Clients \ {t} : thr[u].pc = "idle"
           /\ thr[t].pc # "fork" => NoFork
           /\ hook = NoHook /\ ClientFollows(t)
           /\ registered[Self] # NoOp =>
                 thr[t].pc \in StartPcs \cup StopPcs /\ thr[t].op = registered[Self]
           /\ Up => power = "RUNNING"
           /\ lxc = "STOPPED" /\ thr[t].pc # "fork" => power # "RUNNING"
           /\ exists /\ ephemeral => Up
<1>1. /\ ~ShuttingDown /\ CleanersIdle /\ lxc \notin {"STARTING", "STOPPING"} /\ ClientFollows(t)
      /\ \A u \in Clients \ {t} : thr[u].pc = "idle"
      /\ registered[Self] # NoOp =>
            thr[t].pc \in StartPcs \cup StopPcs /\ thr[t].op = registered[Self]
  BY Serving
<1>2. lxc \in {"STOPPED", "RUNNING", "FROZEN"}
  BY <1>1 DEF AloneIInv, LifecycleIInv, TypeOK, LxcStates
<1>3. thr[t].pc # "fork" => NoFork
  BY <1>1 DEF NoFork
<1>4. HeldInv /\ PowerFollows /\ EphemeralFollows
  BY DEF UndisturbedInv
<1>5. hook = NoHook
  BY <1>2, <1>4 DEF HeldInv, HeldUp, HeldStopped, Up
<1>6. Up => power = "RUNNING"
  BY <1>1, <1>4 DEF PowerFollows
<1>7. lxc = "STOPPED" /\ thr[t].pc # "fork" => power # "RUNNING"
  BY <1>1, <1>3, <1>4 DEF PowerFollows
<1>8. exists /\ ephemeral => Up
  BY <1>1, <1>2, <1>4 DEF EphemeralFollows, Up
<1> QED
  BY <1>1, <1>2, <1>3, <1>5, <1>6, <1>7, <1>8

\* The same before a request, when no client serves.
LEMMA QuietBefore ==
    ASSUME AloneIInv, UndisturbedInv, Undisturbed, \A u \in Clients : thr[u].pc = "idle"
    PROVE  /\ ~ShuttingDown /\ NoFork /\ CleanersIdle /\ lxc \in {"STOPPED", "RUNNING", "FROZEN"}
           /\ hook = NoHook
           /\ exists /\ ephemeral => Up
<1>1. ~ShuttingDown /\ NoFork /\ CleanersIdle /\ lxc # "STOPPING"
  BY DEF ShuttingDown, NoFork, UndisturbedInv, StopAwaited
<1>2. lxc # "STARTING"
  BY DEF AloneIInv, AloneInv, StartAwaited, Alone, Undisturbed
<1>3. lxc \in {"STOPPED", "RUNNING", "FROZEN"}
  BY <1>1, <1>2 DEF AloneIInv, LifecycleIInv, TypeOK, LxcStates
<1>4. hook = NoHook
  BY <1>3 DEF UndisturbedInv, HeldInv, HeldUp, HeldStopped, Up
<1>5. exists /\ ephemeral => Up
  BY <1>1, <1>3 DEF UndisturbedInv, EphemeralFollows, Up
<1> QED
  BY <1>1, <1>3, <1>4, <1>5

\* A request is sent while nothing is under way.
LEMMA RequestUndisturbed ==
    ASSUME AloneIInv, UndisturbedInv, AloneInv', TypeOK', Undisturbed, NEW t \in Clients, Request(t)
    PROVE  UndisturbedInv'
<1>0. thr \in [Threads -> Thread] /\ t \in Threads /\ thr[t].pc = "idle"
  BY DEF AloneIInv, LifecycleIInv, TypeOK, Threads, Request, At
<1>1. PICK r \in load.requests :
          thr' = [thr EXCEPT ![t] =
                     [Idle EXCEPT !.pc = "begin", !.req = r, !.power = power, !.eph = ephemeral]]
  BY DEF Request
<1>2. /\ \A u \in Threads \ {t} : thr'[u] = thr[u]
      /\ thr'[t].pc = "begin" /\ thr'[t].req = r /\ thr'[t].proc = "none"
      /\ thr'[t].power = power /\ thr'[t].eph = ephemeral /\ thr'[t].resetEph = FALSE
  BY <1>0, <1>1 DEF Idle
<1>3. \A u \in Clients \ {t} : thr[u].pc = "idle"
  <2>1. Alone'
    BY DEF Request, Alone, Undisturbed
  <2>2. \A u \in Clients \ {t} : thr'[u].pc = "idle"
    BY <1>2, <2>1 DEF AloneInv, OneServes
  <2> QED
    BY <1>2, <2>2 DEF Threads
<1>4. \A u \in Clients : thr[u].pc = "idle"
  BY <1>0, <1>3
<1>5. UNCHANGED <<lxc, hook, halting, mounted, apparmor, devices, exists, load, power, ephemeral>>
      /\ exists
  BY DEF Request, hostVars, dbVars
<1>6. ClientFollows(t)'
  BY <1>1, <1>2, <1>5 DEF ClientFollows
<1> QED
  BY <1>2, <1>3, <1>4, <1>5, <1>6, QuietBefore, QuietStep

\* The shutdown of the host goes on.
LEMMA HostUndisturbed ==
    ASSUME AloneIInv, UndisturbedInv, AloneInv', Undisturbed, NEW t \in Clients, Run(t),
           thr[t].req = "host shutdown", thr[t].pc \notin {"idle", "begin"}
    PROVE  UndisturbedInv'
<1>0. /\ t \in Threads /\ t \notin Cleaners /\ TypeOK
      /\ thr \in [Threads -> Thread] /\ thr[t] \in Thread /\ HoldsOp(t)
      /\ thr[t].pc \in HostPcs
  BY ClientFacts DEF HostGoesDown, Alone, Undisturbed
<1>1. lxc # "STARTING" /\ (lxc \in {"STOPPED", "STOPPING"} \/ Up)
  BY <1>0, Serving DEF Up, HostPcs, TypeOK, LxcStates
<1>2. ASSUME NEW pc, NEW proc, Moves(t, pc, proc), pc # "begin",
             UNCHANGED <<mounted, devices, apparmor, exists, load>>,
             \/ UNCHANGED <<lxc, hook>>
             \/ Up /\ Up' /\ hook' = hook
             \/ Up /\ lxc' = "STOPPING" /\ hook' = [NoHook EXCEPT !.step = "stop"]
      PROVE  UndisturbedInv'
  BY <1>2, HostMove DEF Moves
<1>3. ASSUME NEW res, Leave(t, res), UNCHANGED <<mounted, devices, apparmor, exists, load, lxc, hook>>
      PROVE  UndisturbedInv'
  <2>1. (\A u \in Threads \ {t} : thr'[u] = thr[u]) /\ thr'[t].req = thr[t].req /\ thr'[t].pc # "begin"
    BY <1>0, <1>3, LeaveFacts
  <2> QED
    BY <1>3, <2>1, HostMove
<1>4. CASE KeepPower(t) \/ Return(t)
  <2>1. UNCHANGED <<mounted, devices, apparmor, exists, load, lxc, hook>>
    BY <1>4 DEF KeepPower, Return, WriteBack, hostVars, dbVars, lxcVars, callVars
  <2>2. Goto(t, "return") \/ Goto(t, "exit")
    BY <1>4 DEF KeepPower, Return
  <2> QED
    BY <1>0, <1>2, <2>1, <2>2, SimpleMoves
<1>5. CASE CreateOperation(t)
  <2>1. UNCHANGED <<mounted, devices, apparmor, exists, load, lxc, hook>>
    BY <1>5 DEF CreateOperation, GetOperation, InsertOperation, ResetOperation, hostVars, dbVars,
                lxcVars, callVars
  <2>2. CASE \E res : Leave(t, res)
    BY <1>3, <2>1, <2>2
  <2>3. CASE Goto(t, "insert") \/ Goto(t, "act")
    BY <1>0, <1>2, <2>1, <2>3, SimpleMoves
  <2>4. CASE \E o, pc : pc # "begin" /\ thr' = [thr EXCEPT ![t].op = o, ![t].pc = pc]
    <3>1. PICK o, pc : pc # "begin" /\ thr' = [thr EXCEPT ![t].op = o, ![t].pc = pc]
      BY <2>4
    <3>2. (\A u \in Threads \ {t} : thr'[u] = thr[u]) /\ thr'[t].req = thr[t].req /\ thr'[t].pc = pc
      BY <1>0, <3>1 DEF Thread
    <3> QED
      BY <2>1, <3>1, <3>2, HostMove
  <2>5. GetOperation(t) => \/ Goto(t, "insert") \/ \E res : Leave(t, res)
                           \/ \E o, pc : pc # "begin" /\ thr' = [thr EXCEPT ![t].op = o, ![t].pc = pc]
    BY DEF GetOperation
  <2>6. InsertOperation(t) => \E o, pc : pc # "begin" /\ thr' = [thr EXCEPT ![t].op = o, ![t].pc = pc]
    BY DEF InsertOperation
  <2> QED
    BY <1>5, <2>2, <2>3, <2>4, <2>5, <2>6 DEF CreateOperation, ResetOperation
<1>6. CASE Stop(t) \/ Shutdown(t)
  <2>1. UNCHANGED <<mounted, devices, apparmor, exists, load>>
    BY <1>6 DEF Stop, CheckRunning, FreezeToStop, KillContainer, WaitOperation, Shutdown,
                SignalHalt, AwaitHalt, hostVars, dbVars, callVars
  <2>2. CASE UNCHANGED <<lxc, hook>> /\ \E res : Leave(t, res)
    BY <1>3, <2>1, <2>2
  <2>3. CASE UNCHANGED <<lxc, hook>> /\ (Goto(t, "get") \/ Goto(t, "wait") \/ Goto(t, "await"))
    BY <1>0, <1>2, <2>1, <2>3, SimpleMoves
  <2>4. CASE FreezeToStop(t)
    <3>1. Moves(t, "kill", thr[t].proc)
      BY <1>0, <2>4, SimpleMoves DEF FreezeToStop
    <3>2. hook' = hook /\ (lxc' = lxc \/ (Up /\ Up'))
      BY <2>4 DEF FreezeToStop, Up
    <3> QED
      BY <1>2, <2>1, <3>1, <3>2
  <2>5. CASE /\ IsRunning /\ lxc # "STOPPING" /\ lxc' = "STOPPING"
             /\ hook' = [NoHook EXCEPT !.step = "stop"] /\ Goto(t, "wait")
    <3>1. Moves(t, "wait", thr[t].proc) /\ Up
      BY <1>0, <1>1, <2>5, SimpleMoves DEF IsRunning
    <3> QED
      BY <1>2, <2>1, <2>5, <3>1
  <2>6. KillContainer(t) =>
           \/ UNCHANGED <<lxc, hook>> /\ (Goto(t, "wait") \/ \E res : Leave(t, res))
           \/ /\ IsRunning /\ lxc # "STOPPING" /\ lxc' = "STOPPING"
              /\ hook' = [NoHook EXCEPT !.step = "stop"] /\ Goto(t, "wait")
    BY DEF KillContainer
  <2>7. CheckRunning(t) \/ WaitOperation(t) \/ Shutdown(t) =>
           /\ UNCHANGED <<lxc, hook>>
           /\ Goto(t, "get") \/ Goto(t, "wait") \/ Goto(t, "await") \/ \E res : Leave(t, res)
    BY DEF CheckRunning, WaitOperation, Shutdown, SignalHalt, AwaitHalt, lxcVars
  <2> QED
    BY <1>6, <2>2, <2>3, <2>4, <2>5, <2>6, <2>7 DEF Stop
<1>7. ~(Begin(t) \/ Start(t) \/ Cleanup(t))
  BY <1>0 DEF HostPcs, At, Begin, BeginStart, BeginStop, BeginRestart, BeginFreeze, BeginHostShutdown,
              Start, StartCommon, Forkstart, ReleaseStart, Cleanup, Settle, Clean, RecordStopped,
              DeleteEphemeral, Unlock
<1> QED
  BY <1>4, <1>5, <1>6, <1>7 DEF Run

\* The first steps of a request, but for the shutdown of the host.
LEMMA BeginUndisturbed ==
    ASSUME AloneIInv, UndisturbedInv, Undisturbed, NEW t \in Clients,
           BeginStart(t) \/ BeginStop(t) \/ BeginRestart(t) \/ BeginFreeze(t)
    PROVE  UndisturbedInv'
<1>0. /\ t \in Threads /\ thr \in [Threads -> Thread] /\ thr[t] \in Thread /\ thr[t].pc = "begin"
      /\ thr[t].req # "host shutdown"
      /\ UNCHANGED <<hook, halting, mounted, apparmor, devices, exists, load, registered>>
  <2>1. t \in Threads /\ thr \in [Threads -> Thread] /\ thr[t] \in Thread
    BY ClientFacts
  <2>2. /\ thr[t].pc = "begin" /\ thr[t].req # "host shutdown"
        /\ UNCHANGED <<hook, halting, mounted, apparmor, devices, load, registered>>
    BY DEF BeginStart, BeginStop, BeginRestart, BeginFreeze, At, Restarts, hostVars, lxcVars,
           callVars, lockVars
  <2>3. exists' = exists
    BY DEF BeginStart, BeginStop, BeginRestart, BeginFreeze, WriteBack, dbVars
  <2> QED
    BY <2>1, <2>2, <2>3
<1>1. /\ ~ShuttingDown /\ CleanersIdle /\ lxc \in {"STOPPED", "RUNNING", "FROZEN"}
      /\ (\A u \in Clients \ {t} : thr[u].pc = "idle") /\ NoFork /\ hook = NoHook /\ ClientFollows(t)
      /\ Up => power = "RUNNING"
      /\ exists /\ ephemeral => Up
  BY <1>0, QuietNow
<1>2. /\ thr[t].req \in load.requests /\ exists /\ thr[t].eph = ephemeral
      /\ thr[t].power = power /\ ~thr[t].resetEph
      /\ thr[t].req \notin {"shutdown", "graceful restart"}
  BY <1>0, <1>1 DEF ClientFollows, Undisturbed
<1>3. ASSUME NEW pc \in {"get", "check", "return"}, NEW proc \in {"Start", "Stop", "none"},
             Moves(t, pc, proc), UNCHANGED <<power, ephemeral>>,
             lxc' = lxc \/ (Up /\ Up'),
             pc = "get" => proc = "Start", thr[t].req # "restart"
      PROVE  UndisturbedInv'
  <2>1. ClientFollows(t)'
    BY <1>0, <1>2, <1>3 DEF Moves, ClientFollows
  <2>2. /\ \A u \in Threads \ {t} : thr'[u] = thr[u]
        /\ thr'[t].req # "host shutdown"
    BY <1>0, <1>3 DEF Moves
  <2> QED
    BY <1>0, <1>1, <1>3, <2>1, <2>2, QuietStep
<1>4. CASE BeginStart(t)
  <2>1. Moves(t, "get", "Start") /\ UNCHANGED <<power, ephemeral, lxc>> /\ thr[t].req = "start"
    BY <1>0, <1>4, SimpleMoves DEF BeginStart, dbVars, lxcVars
  <2> QED
    BY <1>3, <2>1
<1>5. CASE BeginStop(t)
  <2>1. thr[t].req = "stop"
    BY <1>2, <1>5 DEF BeginStop
  <2>2. Moves(t, "check", "Stop") /\ UNCHANGED <<power, ephemeral, lxc>>
    BY <1>0, <1>5, <2>1, SimpleMoves DEF BeginStop, dbVars
  <2> QED
    BY <1>3, <2>1, <2>2
<1>6. CASE BeginFreeze(t)
  <2>1. thr[t].req # "restart" /\ UNCHANGED <<power, ephemeral>> /\ (lxc' = lxc \/ (Up /\ Up'))
    BY <1>6 DEF BeginFreeze, dbVars, Up
  <2>2. Moves(t, "return", thr[t].proc)
    BY <1>0, <1>6, SimpleMoves DEF BeginFreeze
  <2>3. ClientFollows(t)'
    BY <1>0, <1>2, <2>1, <2>2, <1>1 DEF Moves, ClientFollows
  <2>4. /\ \A u \in Threads \ {t} : thr'[u] = thr[u]
        /\ thr'[t].req # "host shutdown"
    BY <1>0, <2>2 DEF Moves
  <2> QED
    BY <1>0, <1>1, <2>1, <2>3, <2>4, QuietStep
<1>7. CASE BeginRestart(t)
  <2> DEFINE r == [thr[t] EXCEPT !.resetEph = thr[t].eph, !.eph = FALSE]
  <2>1. thr[t].req = "restart" /\ lxc' = lxc
    BY <1>2, <1>7 DEF BeginRestart, Restarts, lxcVars
  <2>2. r \in Thread /\ r.req = "restart" /\ r.resetEph = thr[t].eph /\ r.eph = FALSE
        /\ r.power = thr[t].power
    BY <1>0, <2>1 DEF Thread
  <2> DEFINE n1 == [r EXCEPT !.proc = "Stop", !.pc = "check"]
             n2 == [r EXCEPT !.pc = "return", !.res = "error"]
             n3 == [r EXCEPT !.proc = "Shutdown", !.pc = "check"]
             n  == CASE r.req = "restart" -> n1 [] r.req # "restart" /\ lxc = "FROZEN" -> n2 [] OTHER -> n3
  <2>a. thr' = [thr EXCEPT ![t] = n]
    BY <1>7 DEF BeginRestart
  <2> HIDE DEF r
  <2>b. n1.pc = "check" /\ n1.proc = "Stop" /\ n1.req = r.req /\ n1.resetEph = r.resetEph
        /\ n1.eph = r.eph /\ n1.power = r.power
    BY <2>2 DEF Thread
  <2> HIDE DEF n1, n2, n3
  <2>c. n = n1
    <3>1. r.req = "restart"
      BY <2>2
    <3> QED
      BY <3>1
  <2> HIDE DEF n
  <2>3. thr' = [thr EXCEPT ![t] = n1]
    BY <2>c, <2>a
  <2>4. /\ \A u \in Threads \ {t} : thr'[u] = thr[u]
        /\ thr'[t].req = "restart" /\ thr'[t].resetEph = thr[t].eph /\ thr'[t].eph = FALSE
        /\ thr'[t].power = thr[t].power /\ thr'[t].proc = "Stop" /\ thr'[t].pc = "check"
    BY <1>0, <2>2, <2>3, <2>b
  <2>5. power' = power /\ ephemeral' = FALSE
    <3>1. CASE thr[t].eph
      BY <1>2, <1>7, <3>1 DEF BeginRestart, WriteBack
    <3>2. CASE ~thr[t].eph
      <4>1. power' = power /\ ephemeral' = ephemeral
        BY <1>7, <3>2 DEF BeginRestart, dbVars
      <4>2. ephemeral \in BOOLEAN /\ ephemeral = thr[t].eph
        BY <1>2, ClientFacts DEF TypeOK
      <4> QED
        BY <3>2, <4>1, <4>2
    <3> QED
      BY <3>1, <3>2
  <2>6. thr[t].eph => Up' /\ thr'[t].power = "RUNNING"
    BY <1>1, <1>2, <2>1, <2>4 DEF Up
  <2>7. ClientFollows(t)'
    BY <1>0, <1>2, <2>1, <2>4, <2>5, <2>6 DEF ClientFollows
  <2> QED
    BY <1>0, <1>1, <2>1, <2>4, <2>5, <2>7, QuietStep
<1> QED
  BY <1>4, <1>5, <1>6, <1>7

\* The shutdown of the host begins: what is held stays, and its part comes.
LEMMA BeginHostUndisturbed ==
    ASSUME AloneIInv, UndisturbedInv, Undisturbed, NEW t \in Clients, BeginHostShutdown(t)
    PROVE  UndisturbedInv'
<1>0. /\ t \in Threads /\ thr \in [Threads -> Thread] /\ thr[t] \in Thread
      /\ thr[t].pc = "begin" /\ thr[t].req = "host shutdown"
      /\ UNCHANGED <<lxc, hook, mounted, apparmor, devices, exists>>
  BY ClientFacts DEF BeginHostShutdown, At, hostVars, lxcVars
<1>1. /\ CleanersIdle /\ lxc \in {"STOPPED", "RUNNING", "FROZEN"} /\ NoFork
      /\ \A u \in Clients \ {t} : thr[u].pc = "idle"
  BY <1>0, QuietNow
<1>2. /\ \A u \in Threads \ {t} : thr'[u] = thr[u]
      /\ thr'[t].pc \in {"check", "keep"} /\ thr'[t].req = "host shutdown"
  BY <1>0 DEF BeginHostShutdown, Thread
<1>3. ShuttingDown' /\ NoFork' /\ CleanersIdle'
  <2>1. \A u \in Clients : u \in Threads
    BY DEF Threads
  <2>2. \A k \in Cleaners : k \in Threads \ {t}
    BY LifecycleAssumption DEF Threads
  <2> QED
    BY <1>1, <1>2, <2>1, <2>2 DEF ShuttingDown, NoFork, CleanersIdle
<1>4. HeldInv /\ EphemeralFollows
  BY DEF UndisturbedInv
<1>5. HeldUp' /\ HeldStarting' /\ HeldStopping' /\ HeldStopped'
  <2>1. HeldUp'
    BY <1>0, <1>3, <1>4 DEF HeldInv, HeldUp, Up
  <2>2. HeldStarting' /\ HeldStopping'
    BY <1>0, <1>1 DEF HeldStarting, HeldStopping
  <2>3. HeldStopped'
    BY <1>0, <1>1, <1>3, <1>4 DEF HeldInv, HeldStopped
  <2> QED
    BY <2>1, <2>2, <2>3
<1>6. PowerFollows' /\ StopAwaited' /\ \A u \in Clients : ClientFollows(u)'
  BY <1>3 DEF PowerFollows, StopAwaited, ClientFollows
<1>7. EphemeralFollows'
  BY <1>0, <1>3, <1>4 DEF EphemeralFollows
<1>8. OneCleaner' /\ \A k \in Cleaners : CleanerFollows(k)'
  BY <1>3 DEF OneCleaner, CleanerFollows, CleanersIdle
<1> QED
  BY <1>5, <1>6, <1>7, <1>8 DEF UndisturbedInv, HeldInv

\* A request other than the shutdown of the host returns.
LEMMA ReturnUndisturbed ==
    ASSUME AloneIInv, UndisturbedInv, Undisturbed, NEW t \in Clients, Return(t),
           thr[t].req # "host shutdown"
    PROVE  UndisturbedInv'
<1>0. /\ t \in Threads /\ thr \in [Threads -> Thread] /\ thr[t] \in Thread /\ thr[t].pc = "return"
      /\ UNCHANGED <<lxc, hook, halting, mounted, apparmor, devices, exists, load>>
  <2>1. t \in Threads /\ thr \in [Threads -> Thread] /\ thr[t] \in Thread
    BY ClientFacts
  <2>2. thr[t].pc = "return" /\ UNCHANGED <<lxc, hook, halting, mounted, apparmor, devices, load>>
    BY DEF Return, At, hostVars, lxcVars, callVars
  <2>3. exists' = exists
    BY DEF Return, WriteBack, dbVars
  <2> QED
    BY <2>1, <2>2, <2>3
<1>1. /\ ~ShuttingDown /\ CleanersIdle /\ lxc \in {"STOPPED", "RUNNING", "FROZEN"}
      /\ (\A u \in Clients \ {t} : thr[u].pc = "idle") /\ NoFork /\ ClientFollows(t)
      /\ exists /\ ephemeral => Up
  BY <1>0, QuietNow
<1>2. thr' = [thr EXCEPT ![t] = Idle]
  BY DEF Return
<1>3. (\A u \in Threads \ {t} : thr'[u] = thr[u]) /\ thr'[t].pc = "idle"
  BY <1>0, <1>2 DEF Idle
<1>4. CASE thr[t].resetEph
  <2>1. power' = "RUNNING" /\ Up
    BY <1>0, <1>1, <1>4 DEF Return, WriteBack, ClientFollows
  <2>2. ClientFollows(t)'
    BY <1>3 DEF ClientFollows
  <2> QED
    BY <1>0, <1>1, <1>3, <2>1, <2>2, QuietStep
<1>5. CASE ~thr[t].resetEph
  <2>1. UNCHANGED <<power, ephemeral>>
    BY <1>5 DEF Return, dbVars
  <2>2. ClientFollows(t)'
    BY <1>3 DEF ClientFollows
  <2> QED
    BY <1>0, <1>1, <1>3, <2>1, <2>2, QuietStep
<1> QED
  BY <1>4, <1>5

\* createOperation.
LEMMA CreateUndisturbed ==
    ASSUME AloneIInv, UndisturbedInv, Undisturbed, NEW t \in Clients, CreateOperation(t),
           thr[t].req # "host shutdown"
    PROVE  UndisturbedInv'
<1>0. /\ t \in Threads /\ thr \in [Threads -> Thread] /\ thr[t] \in Thread /\ TypeOK
      /\ thr[t].pc \in {"get", "insert", "reset"}
      /\ UNCHANGED <<lxc, hook, halting, mounted, apparmor, devices, exists, load, power, ephemeral>>
  BY ClientFacts DEF CreateOperation, GetOperation, InsertOperation, ResetOperation, At, hostVars,
                     lxcVars, callVars, dbVars
<1>1. /\ ~ShuttingDown /\ CleanersIdle /\ lxc \in {"STOPPED", "RUNNING", "FROZEN"}
      /\ (\A u \in Clients \ {t} : thr[u].pc = "idle") /\ NoFork /\ ClientFollows(t)
      /\ registered[Self] # NoOp => thr[t].pc \in StartPcs \cup StopPcs
  BY <1>0, QuietNow
<1>2. thr[t].pc # "reset" /\ registered[Self] = NoOp
  BY <1>0, <1>1 DEF ClientFollows, StartPcs, StopPcs
<1>3. CASE GetOperation(t)
  <2>1. Moves(t, "insert", thr[t].proc) /\ thr[t].pc = "get"
    BY <1>0, <1>2, <1>3, SimpleMoves DEF GetOperation, At
  <2>2. ClientFollows(t)'
    BY <1>0, <1>1, <2>1 DEF Moves, ClientFollows, Up
  <2>3. (\A u \in Threads \ {t} : thr'[u] = thr[u]) /\ thr'[t].req # "host shutdown"
    BY <2>1 DEF Moves
  <2> QED
    BY <1>0, <1>1, <2>2, <2>3, QuietStep
<1>4. CASE InsertOperation(t)
  <2>1. PICK o \in FreshOps :
          /\ Create(Self, IF thr[t].proc = "Start" THEN "start" ELSE "stop",
                         thr[t].proc = "Shutdown", o)
          /\ thr' = [thr EXCEPT ![t].op = o,
                                ![t].pc = IF thr[t].proc = "Start" THEN "common" ELSE "act"]
    BY <1>4 DEF InsertOperation
  <2>2. thr[t].pc = "insert" /\ registered'[Self] = o
    BY <1>0, <1>4, <2>1, LifecycleAssumption
       DEF InsertOperation, At, Create, TypeOK, LockTypeOK
  <2>3. /\ \A u \in Threads \ {t} : thr'[u] = thr[u]
        /\ thr'[t].op = o /\ thr'[t].req = thr[t].req /\ thr'[t].proc = thr[t].proc
        /\ thr'[t].eph = thr[t].eph /\ thr'[t].power = thr[t].power
        /\ thr'[t].resetEph = thr[t].resetEph
        /\ thr'[t].pc = IF thr[t].proc = "Start" THEN "common" ELSE "act"
    BY <1>0, <2>1 DEF Thread
  <2>4. ClientFollows(t)'
    BY <1>0, <1>1, <2>2, <2>3 DEF ClientFollows, Up
  <2> QED
    BY <1>0, <1>1, <2>3, <2>4, QuietStep
<1> QED
  BY <1>2, <1>3, <1>4 DEF CreateOperation, ResetOperation, At

\* A client that moves on while the container stays as it is.
LEMMA QuietMoves ==
    ASSUME AloneIInv, UndisturbedInv, Undisturbed, NEW t \in Clients, NEW pc, NEW proc,
           Moves(t, pc, proc), thr[t].pc \notin {"idle", "fork", "forked"},
           thr[t].req # "host shutdown", thr[t].pc # "wait" \/ thr[t].op # registered[Self],
           UNCHANGED <<hook, halting, mounted, apparmor, devices, exists, load, power, ephemeral>>,
           lxc' = lxc \/ (Up /\ Up'), ClientFollows(t)'
    PROVE  UndisturbedInv'
<1>1. (\A u \in Threads \ {t} : thr'[u] = thr[u]) /\ thr'[t].req # "host shutdown"
  BY DEF Moves
<1> QED
  BY <1>1, QuietNow, QuietStep

\* Start, but for what LXC does.
LEMMA StartUndisturbed ==
    ASSUME AloneIInv, UndisturbedInv, Undisturbed, NEW t \in Clients,
           StartCommon(t) \/ ReleaseStart(t), thr[t].req # "host shutdown"
    PROVE  UndisturbedInv'
<1>0. /\ t \in Threads /\ thr \in [Threads -> Thread] /\ thr[t] \in Thread /\ TypeOK
      /\ HoldsOp(t) /\ thr[t].pc \in {"common", "release"}
      /\ UNCHANGED <<lxc, hook, halting, mounted, apparmor, load>>
  <2>1. /\ t \in Threads /\ thr \in [Threads -> Thread] /\ thr[t] \in Thread /\ TypeOK
        /\ HoldsOp(t)
    BY ClientFacts
  <2>2. /\ thr[t].pc \in {"common", "release"}
        /\ UNCHANGED <<lxc, hook, halting, mounted, apparmor, load>>
    BY DEF StartCommon, ReleaseStart, At, hostVars, lxcVars, callVars
  <2> QED
    BY <2>1, <2>2
<1>1. /\ ~ShuttingDown /\ CleanersIdle /\ lxc \in {"STOPPED", "RUNNING", "FROZEN"}
      /\ (\A u \in Clients \ {t} : thr[u].pc = "idle") /\ NoFork /\ ClientFollows(t)
      /\ (exists /\ ephemeral => Up)
  BY <1>0, QuietNow
<1>2. /\ thr[t].req \in load.requests /\ thr[t].proc = "Start" /\ exists /\ thr[t].eph = ephemeral
      /\ thr[t].req = "restart" => ~ephemeral
      /\ thr[t].resetEph => thr[t].req = "restart" /\ thr[t].power = "RUNNING"
      /\ thr[t].pc = "release" => Up
      /\ thr[t].op = registered[Self]
  BY <1>0, <1>1 DEF ClientFollows, HoldsOp, StartPcs
<1>3. CASE StartCommon(t)
  <2>1. thr[t].pc = "common"
    BY <1>3 DEF StartCommon, At
  <2>2. CASE lxc # "STOPPED" /\ UNCHANGED <<dbVars, devices>>
             /\ thr' = [thr EXCEPT ![t].pc = "release", ![t].res = "error"]
    <3>1. Moves(t, "release", "Start")
      BY <1>0, <1>2, <2>2, SimpleMoves
    <3>2. UNCHANGED <<devices, exists, power, ephemeral, registered>>
      BY <1>3, <2>2 DEF StartCommon, lockVars, dbVars
    <3>3. ClientFollows(t)'
      BY <1>0, <1>1, <1>2, <2>2, <3>1, <3>2 DEF Moves, ClientFollows, Up
    <3> QED
      BY <1>0, <2>1, <3>1, <3>2, <3>3, QuietMoves
  <2>3. CASE lxc = "STOPPED" /\ WriteBack(t, thr[t].eph) /\ devices' = TRUE /\ Goto(t, "fork")
    <3>1. Moves(t, "fork", "Start")
      BY <1>0, <1>2, <2>3, SimpleMoves
    <3>2. UNCHANGED <<exists, ephemeral, registered>>
      BY <1>2, <1>3, <2>3 DEF StartCommon, lockVars, WriteBack
    <3>3. ClientFollows(t)'
      BY <1>0, <1>2, <2>3, <3>1, <3>2 DEF Moves, ClientFollows
    <3>4. /\ \A u \in Threads \ {t} : thr'[u] = thr[u]
          /\ thr'[t].req # "host shutdown" /\ thr'[t].pc = "fork"
      BY <3>1 DEF Moves
    <3> QED
      BY <1>0, <1>1, <2>3, <3>2, <3>3, <3>4, QuietStep
  <2>4. "setup" \notin load.events
    BY DEF Undisturbed
  <2> QED
    BY <1>3, <2>2, <2>3, <2>4 DEF StartCommon, IsRunning
<1>4. CASE ReleaseStart(t)
  <2>1. thr[t].pc = "release" /\ Leave(t, thr[t].res)
        /\ UNCHANGED <<devices, exists, power, ephemeral>>
    BY <1>4 DEF ReleaseStart, At, hostVars, dbVars
  <2>2. thr[t].req # "graceful restart"
    BY <1>2 DEF Undisturbed
  <2>3. Moves(t, "return", "Start")
    BY <1>0, <1>2, <2>1, LeaveMoves
  <2>4. ClientFollows(t)'
    BY <1>0, <1>1, <1>2, <2>1, <2>3 DEF Moves, ClientFollows, Up
  <2> QED
    BY <1>0, <2>1, <2>3, <2>4, QuietMoves
<1> QED
  BY <1>3, <1>4

\* LXC starts the container: from here the client waits for it.
LEMMA ForkUndisturbed ==
    ASSUME AloneIInv, UndisturbedInv, Undisturbed, NEW t \in Clients, Forkstart(t),
           thr[t].req # "host shutdown"
    PROVE  UndisturbedInv'
<1>0. /\ t \in Threads /\ thr \in [Threads -> Thread] /\ thr[t] \in Thread
      /\ HoldsOp(t) /\ thr[t].pc = "fork"
      /\ UNCHANGED <<halting, mounted, devices, apparmor, load, power, exists, ephemeral, registered>>
  BY ClientFacts DEF Forkstart, At, hostVars, dbVars, callVars, lockVars
<1>1. /\ ~ShuttingDown /\ CleanersIdle
      /\ (\A u \in Clients \ {t} : thr[u].pc = "idle") /\ ClientFollows(t)
  BY <1>0, QuietNow
<1>2. lxc = "STOPPED" /\ devices /\ exists
  BY <1>0, <1>1 DEF ClientFollows
<1>3. lxc' = "STARTING" /\ hook' = [NoHook EXCEPT !.step = "start"] /\ Goto(t, "forked")
  BY <1>2 DEF Forkstart, IsRunning, Undisturbed
<1>4. Moves(t, "forked", thr[t].proc)
  BY <1>0, <1>3, SimpleMoves
<1>5. hook'.step = "start"
  BY <1>3 DEF NoHook
<1>6. /\ CleanersIdle' /\ ~ShuttingDown'
      /\ \A u \in Clients \ {t} : thr'[u].pc = "idle"
  <2>1. \A k \in Cleaners : k \in Threads \ {t}
    BY LifecycleAssumption DEF Threads
  <2>2. \A u \in Clients : u \in Threads
    BY DEF Threads
  <2> QED
    BY <1>0, <1>1, <1>4, <2>1, <2>2 DEF CleanersIdle, ShuttingDown, Moves
<1>7. HeldInv'
  <2>1. HeldUp' /\ HeldStopping' /\ HeldStopped'
    BY <1>3 DEF HeldUp, HeldStopping, HeldStopped, Up
  <2>2. HeldStarting'
    BY <1>0, <1>2, <1>5, <1>6 DEF HeldStarting
  <2> QED
    BY <2>1, <2>2 DEF HeldInv
<1>8. PowerFollows' /\ EphemeralFollows'
  BY <1>0, <1>2, <1>3, <1>6 DEF PowerFollows, EphemeralFollows, Up, CleanersIdle
<1>9. StopAwaited'
  BY <1>0, <1>1, <1>3, <1>5, <1>6 DEF UndisturbedInv, StopAwaited
<1>10. OneCleaner' /\ \A k \in Cleaners : CleanerFollows(k)'
  BY <1>6 DEF OneCleaner, CleanerFollows, CleanersIdle
<1>11. ClientFollows(t)'
  BY <1>0, <1>1, <1>3, <1>4 DEF ClientFollows, Moves, Up
<1>12. \A u \in Clients : ClientFollows(u)'
  BY <1>6, <1>11 DEF ClientFollows
<1> QED
  BY <1>7, <1>8, <1>9, <1>10, <1>12 DEF UndisturbedInv

\* Stop, but for what LXC does.
LEMMA StopUndisturbed ==
    ASSUME AloneIInv, UndisturbedInv, Undisturbed, NEW t \in Clients,
           CheckRunning(t) \/ FreezeToStop(t) \/ WaitOperation(t), thr[t].req # "host shutdown"
    PROVE  UndisturbedInv'
<1>0. /\ t \in Threads /\ thr \in [Threads -> Thread] /\ thr[t] \in Thread /\ TypeOK
      /\ HoldsOp(t) /\ thr[t].pc \in {"check", "act", "wait"} /\ RegisteredIsOpen
      /\ UNCHANGED <<hook, halting, mounted, apparmor, devices, exists, power, ephemeral, load,
                     registered>>
  <2>1. /\ t \in Threads /\ thr \in [Threads -> Thread] /\ thr[t] \in Thread /\ TypeOK
        /\ HoldsOp(t) /\ RegisteredIsOpen
    BY ClientFacts
  <2>2. /\ thr[t].pc \in {"check", "act", "wait"}
        /\ UNCHANGED <<hook, halting, mounted, apparmor, devices, exists, power, ephemeral, load,
                       registered>>
    BY DEF CheckRunning, FreezeToStop, WaitOperation, At, hostVars, dbVars, lxcVars, callVars,
           lockVars
  <2> QED
    BY <2>1, <2>2
<1>1. WaitOperation(t) => thr[t].op # registered[Self]
  <2>1. WaitOperation(t) => thr[t].op \in closed /\ thr[t].pc = "wait"
    BY DEF WaitOperation, At
  <2>2. thr[t].pc = "wait" => thr[t].op \in DOMAIN op
    BY <1>0 DEF HoldsOp, StopPcs
  <2>3. DOMAIN op \subseteq OpIds
    BY <1>0 DEF TypeOK, LockTypeOK, created
  <2> QED
    BY <1>0, <2>1, <2>2, <2>3, LifecycleAssumption, NoOpAssumption DEF RegisteredIsOpen
<1>2. thr[t].pc # "wait" \/ thr[t].op # registered[Self]
  BY <1>0, <1>1 DEF CheckRunning, FreezeToStop, At
<1>3. /\ ~ShuttingDown /\ CleanersIdle /\ lxc \in {"STOPPED", "RUNNING", "FROZEN"}
      /\ (\A u \in Clients \ {t} : thr[u].pc = "idle") /\ NoFork /\ ClientFollows(t)
  BY <1>0, <1>2, QuietNow
<1>4. /\ thr[t].req \in load.requests /\ thr[t].eph = ephemeral
      /\ thr[t].proc = "Stop"
      /\ thr[t].pc # "wait" \/ thr[t].req = "restart" => exists
      /\ thr[t].req = "restart" => ~ephemeral
      /\ thr[t].resetEph => /\ thr[t].req = "restart" /\ thr[t].power = "RUNNING"
                            /\ thr[t].pc = "check" => Up
      /\ thr[t].pc = "act" => Up /\ thr[t].op = registered[Self]
      /\ thr[t].pc = "wait" => lxc = "STOPPED"
      /\ thr[t].req # "graceful restart"
  <2>1. /\ thr[t].req \in load.requests /\ thr[t].eph = ephemeral /\ thr[t].proc # "Shutdown"
        /\ thr[t].pc # "wait" \/ thr[t].req = "restart" => exists
        /\ thr[t].req = "restart" => ~ephemeral
    BY <1>0, <1>3 DEF ClientFollows
  <2>2. thr[t].resetEph => /\ thr[t].req = "restart" /\ thr[t].power = "RUNNING"
                           /\ thr[t].pc = "check" => Up
    <3>1. thr[t].resetEph => thr[t].req = "restart" /\ thr[t].power = "RUNNING"
      BY <1>0, <1>3 DEF ClientFollows
    <3>2. thr[t].resetEph /\ thr[t].pc = "check" => Up
      BY <1>0, <1>3 DEF ClientFollows
    <3> QED
      BY <3>1, <3>2
  <2>3. /\ thr[t].pc = "act" => Up /\ thr[t].op = registered[Self]
        /\ thr[t].pc = "wait" => lxc = "STOPPED"
    BY <1>3 DEF ClientFollows
  <2>4. thr[t].proc \in {"Stop", "Shutdown"}
    BY <1>0 DEF HoldsOp, StopPcs
  <2>5. thr[t].req # "graceful restart"
    BY <2>1 DEF Undisturbed
  <2>6. thr[t].proc = "Stop"
    BY <2>1, <2>4
  <2> QED
    BY <2>1, <2>2, <2>3, <2>5, <2>6, Zenon
<1>5. CASE CheckRunning(t)
  <2>1. thr[t].pc = "check" /\ lxc' = lxc
    BY <1>5 DEF CheckRunning, At, lxcVars
  <2>2. CASE lxc # "STOPPED" /\ Goto(t, "get")
    <3>1. Moves(t, "get", "Stop")
      BY <1>0, <1>4, <2>2, SimpleMoves
    <3>2. ClientFollows(t)'
      BY <1>0, <1>3, <1>4, <2>1, <2>2, <3>1 DEF Moves, ClientFollows, Up
    <3> QED
      BY <1>0, <1>2, <2>1, <3>1, <3>2, QuietMoves
  <2>3. CASE lxc = "STOPPED" /\ Leave(t, "error")
    <3>1. Moves(t, "return", "Stop")
      <4>a. PICK res : res # "ok" /\ Leave(t, res)
        BY <2>3
      <4>1. thr[t].req \in Restarts => Moves(t, "return", thr[t].proc)
        BY <1>0, <4>a, LeaveMoves
      <4>2. thr[t].req \notin Restarts \cup {"host shutdown"} => Moves(t, "return", thr[t].proc)
        BY <1>0, <2>3, LeaveMoves
      <4> QED
        BY <1>4, <4>1, <4>2
    <3>2. ClientFollows(t)'
      BY <1>0, <1>3, <1>4, <2>1, <2>3, <3>1 DEF Moves, ClientFollows, Up
    <3> QED
      BY <1>0, <1>2, <2>1, <3>1, <3>2, QuietMoves
  <2> QED
    BY <1>5, <2>2, <2>3 DEF CheckRunning, IsRunning
<1>6. CASE FreezeToStop(t)
  <2>1. thr[t].pc = "act" /\ (lxc' = lxc \/ (Up /\ Up'))
    BY <1>6 DEF FreezeToStop, At, Up
  <2>2. Moves(t, "kill", "Stop")
    BY <1>0, <1>4, <1>6, SimpleMoves DEF FreezeToStop
  <2>3. Up'
    BY <1>4, <2>1 DEF Up
  <2>4. ClientFollows(t)'
    BY <1>0, <1>3, <1>4, <2>1, <2>2, <2>3 DEF Moves, ClientFollows
  <2> QED
    BY <1>0, <1>2, <2>1, <2>2, <2>4, QuietMoves
<1>7. CASE WaitOperation(t)
  <2>1. thr[t].pc = "wait" /\ lxc' = lxc /\ lxc = "STOPPED"
    BY <1>4, <1>7 DEF WaitOperation, At, lxcVars
  <2>2. Leave(t, "ok")
    BY <1>7, <2>1 DEF WaitOperation, IsRunning
  <2>3. CASE thr[t].req = "restart"
    <3>1. Moves(t, "get", "Start")
      BY <1>0, <1>4, <2>2, <2>3, LeaveMoves DEF Restarts
    <3>2. ClientFollows(t)'
      BY <1>0, <1>3, <1>4, <2>1, <2>3, <3>1 DEF Moves, ClientFollows, Up
    <3> QED
      BY <1>0, <1>2, <2>1, <3>1, <3>2, QuietMoves
  <2>4. CASE thr[t].req # "restart"
    <3>1. Moves(t, "return", "Stop")
      BY <1>0, <1>4, <2>2, <2>4, LeaveMoves DEF Restarts
    <3>2. ClientFollows(t)'
      BY <1>0, <1>3, <1>4, <2>1, <2>4, <3>1 DEF Moves, ClientFollows, Up
    <3> QED
      BY <1>0, <1>2, <2>1, <3>1, <3>2, QuietMoves
  <2> QED
    BY <2>3, <2>4
<1> QED
  BY <1>5, <1>6, <1>7

\* The container is killed, for a client that waits for its operation.
LEMMA KillUndisturbed ==
    ASSUME AloneIInv, UndisturbedInv, Undisturbed, NEW t \in Clients, KillContainer(t),
           thr[t].req # "host shutdown"
    PROVE  UndisturbedInv'
<1>0. /\ t \in Threads /\ thr \in [Threads -> Thread] /\ thr[t] \in Thread
      /\ HoldsOp(t) /\ thr[t].pc = "kill"
      /\ UNCHANGED <<halting, mounted, devices, apparmor, load, power, exists, ephemeral>>
  BY ClientFacts DEF KillContainer, At, hostVars, dbVars, callVars
<1>1. /\ ~ShuttingDown /\ CleanersIdle /\ lxc \in {"STOPPED", "RUNNING", "FROZEN"}
      /\ (\A u \in Clients \ {t} : thr[u].pc = "idle") /\ ClientFollows(t)
  BY <1>0, QuietNow
<1>2. Up /\ exists /\ thr[t].op = registered[Self]
  BY <1>0, <1>1 DEF ClientFollows
<1>3. /\ lxc' = "STOPPING" /\ hook' = [NoHook EXCEPT !.step = "stop"] /\ Goto(t, "wait")
      /\ registered' = registered
  BY <1>2 DEF KillContainer, lockVars, Up
<1>4. Moves(t, "wait", thr[t].proc)
  BY <1>0, <1>3, SimpleMoves
<1>5. hook'.step = "stop"
  BY <1>3, NoHookFields
<1>6. /\ CleanersIdle' /\ ~ShuttingDown'
      /\ \A u \in Clients \ {t} : thr'[u].pc = "idle"
  <2>1. \A k \in Cleaners : k \in Threads \ {t}
    BY LifecycleAssumption DEF Threads
  <2>2. \A u \in Clients : u \in Threads
    BY DEF Threads
  <2> QED
    BY <1>0, <1>1, <1>4, <2>1, <2>2 DEF CleanersIdle, ShuttingDown, Moves
<1>7. HeldInv'
  BY <1>3, <1>5, <1>6 DEF HeldInv, HeldUp, HeldStarting, HeldStopping, HeldStopped, Up
<1>8. PowerFollows' /\ EphemeralFollows'
  BY <1>0, <1>2, <1>3, <1>6 DEF PowerFollows, EphemeralFollows, Up, CleanersIdle
<1>9. StopAwaited'
  <2>1. ~halting'
    BY <1>0, <1>1 DEF UndisturbedInv, StopAwaited
  <2>2. thr'[t].pc = "wait" /\ thr'[t].op = registered'[Self]
    BY <1>2, <1>3, <1>4 DEF Moves
  <2>3. hook'.step # "storage"
    BY <1>5
  <2> QED
    BY <2>1, <2>2, <2>3 DEF StopAwaited
<1>10. OneCleaner' /\ \A k \in Cleaners : CleanerFollows(k)'
  BY <1>6 DEF OneCleaner, CleanerFollows, CleanersIdle
<1>11. ClientFollows(t)'
  BY <1>0, <1>1, <1>3, <1>4 DEF ClientFollows, Moves, Up
<1>12. \A u \in Clients : ClientFollows(u)'
  BY <1>6, <1>11 DEF ClientFollows
<1> QED
  BY <1>7, <1>8, <1>9, <1>10, <1>12 DEF UndisturbedInv

\* What a step of a client does, whatever the client.
LEMMA ServeUndisturbed ==
    ASSUME AloneIInv, UndisturbedInv, AloneInv', Undisturbed, NEW t \in Clients, Run(t)
    PROVE  UndisturbedInv'
<1>0. HoldsOp(t) /\ t \notin Cleaners
  BY ClientFacts
<1>1. CASE thr[t].req = "host shutdown" /\ thr[t].pc \notin {"idle", "begin"}
  BY <1>1, HostUndisturbed
<1>2. CASE thr[t].req = "host shutdown" /\ thr[t].pc \in {"idle", "begin"}
  <2>1. BeginHostShutdown(t)
    BY <1>2 DEF Run, Begin, BeginStart, BeginStop, BeginRestart, BeginFreeze, Restarts,
           CreateOperation, GetOperation, InsertOperation, ResetOperation, Start, StartCommon,
           Forkstart, ReleaseStart, Stop, CheckRunning, FreezeToStop, KillContainer, WaitOperation,
           Shutdown, SignalHalt, AwaitHalt, Cleanup, Settle, Clean, RecordStopped, DeleteEphemeral,
           Unlock, KeepPower, Return, At
  <2> QED
    BY <2>1, BeginHostUndisturbed
<1>3. CASE thr[t].req # "host shutdown"
  <2>1. ~BeginHostShutdown(t) /\ ~KeepPower(t)
    BY <1>0, <1>3 DEF BeginHostShutdown, KeepPower, HoldsOp, At
  <2>2. ~Cleanup(t)
    BY <1>0 DEF HoldsOp, Cleanup, Settle, Clean, RecordStopped, DeleteEphemeral, Unlock, At
  <2>3. ~Shutdown(t)
    <3>1. ASSUME Shutdown(t)
          PROVE  FALSE
      <4>1. thr[t].pc \in {"act", "await"} /\ thr[t].proc = "Shutdown"
        BY <1>0, <3>1 DEF Shutdown, SignalHalt, AwaitHalt, At, HoldsOp
      <4>2. ClientFollows(t) /\ ~ShuttingDown
        BY <1>3, <4>1, QuietNow
      <4> QED
        BY <4>1, <4>2 DEF ClientFollows
    <3> QED
      BY <3>1
  <2> QED
    BY <1>3, <2>1, <2>2, <2>3, BeginUndisturbed, CreateUndisturbed, StartUndisturbed,
       ForkUndisturbed, StopUndisturbed, KillUndisturbed, ReturnUndisturbed
       DEF Run, Begin, Start, Stop
<1> QED
  BY <1>1, <1>2, <1>3

\* How a step of the goroutine of OnStop is accounted for: the container has stopped,
\* only that goroutine moves, and the client that waits for it is not concerned.
LEMMA CleanerStep ==
    ASSUME AloneIInv, UndisturbedInv, Undisturbed, NEW k \in Cleaners, thr[k].pc # "idle",
           lxc = "STOPPED", \A u \in Threads \ {k} : thr'[u] = thr[u],
           UNCHANGED <<lxc, hook, halting, mounted, ephemeral, load>>,
           CleanerFollows(k)', thr'[k].pc # "idle" => UNCHANGED registered,
           thr'[k].pc = "idle" => /\ thr[k].pc = "unlock"
                                  /\ UNCHANGED <<devices, apparmor, power, exists>>,
           exists' = exists \/ thr[k].pc = "delete",
           ~ShuttingDown /\ thr'[k].pc \in {"delete", "unlock"} => power' # "RUNNING"
    PROVE  UndisturbedInv'
<1>0. k \in Threads /\ \A u \in Clients : u \in Threads \ {k}
  BY LifecycleAssumption DEF Threads
<1>1. /\ HeldInv /\ PowerFollows /\ EphemeralFollows /\ StopAwaited /\ OneCleaner
      /\ \A j \in Cleaners : CleanerFollows(j)
      /\ \A u \in Clients : ClientFollows(u)
  BY DEF UndisturbedInv
<1>2. \A u \in Clients : thr'[u] = thr[u]
  BY <1>0
<1>3. (ShuttingDown' <=> ShuttingDown) /\ (NoFork' <=> NoFork)
  BY <1>2 DEF ShuttingDown, NoFork
<1>4. \A j \in Cleaners \ {k} : thr[j].pc = "idle" /\ thr'[j] = thr[j]
  <2> SUFFICES ASSUME NEW j \in Cleaners \ {k} PROVE thr[j].pc = "idle" /\ thr'[j] = thr[j]
    OBVIOUS
  <2>1. thr[j].pc = "idle"
    BY <1>1, Zenon DEF OneCleaner
  <2> QED
    BY <2>1 DEF Threads
<1>5. CleanersIdle' <=> thr'[k].pc = "idle"
  BY <1>4 DEF CleanersIdle
<1>6. ~CleanersIdle
  BY DEF CleanersIdle
<1>7. hook = NoHook /\ ~mounted
  BY <1>1 DEF HeldInv, HeldStopped
<1>8. thr'[k].pc = "idle" => ~devices' /\ ~apparmor'
  BY <1>1 DEF CleanerFollows
<1>9. HeldInv'
  BY <1>5, <1>7, <1>8 DEF HeldInv, HeldUp, HeldStarting, HeldStopping, HeldStopped, Up
<1>10. PowerFollows'
  <2>1. ~ShuttingDown /\ thr'[k].pc = "idle" => power' # "RUNNING"
    BY <1>1 DEF PowerFollows
  <2>2. ~ShuttingDown => \A j \in Cleaners : thr'[j].pc \in {"delete", "unlock"} => power' # "RUNNING"
    BY <1>4
  <2> QED
    BY <1>3, <1>5, <2>1, <2>2 DEF PowerFollows, Up
<1>11. EphemeralFollows'
  <2>1. ~ShuttingDown /\ thr'[k].pc = "idle" => ~exists' \/ ~ephemeral'
    BY <1>1 DEF CleanerFollows
  <2> QED
    BY <1>3, <1>5, <2>1 DEF EphemeralFollows
<1>12. StopAwaited'
  <2>1. hook.step # "storage"
    BY <1>7, NoHookFields
  <2>2. ~ShuttingDown => /\ ~halting
                         /\ \E u \in Clients : thr[u].pc = "wait" /\ thr[u].op = registered[Self]
    BY <1>1, <1>6 DEF StopAwaited
  <2> QED
    BY <1>2, <1>3, <1>5, <2>1, <2>2 DEF StopAwaited
<1>13. OneCleaner'
  BY <1>4 DEF OneCleaner
<1>14. \A j \in Cleaners : CleanerFollows(j)'
  BY <1>4 DEF CleanerFollows
<1>15. ASSUME NEW u \in Clients
       PROVE  ClientFollows(u)'
  <2>1. CASE ShuttingDown \/ thr[u].pc = "idle"
    BY <1>2, <1>3, <2>1 DEF ClientFollows
  <2>2. CASE ~ShuttingDown /\ thr[u].pc # "idle"
    <3>1. thr[u].pc = "wait" /\ ClientFollows(u)
      BY <1>1, <1>6, <2>2, Serving
    <3>2. thr[u].req = "restart" => exists'
      <4>1. thr[u].req = "restart" => exists /\ ephemeral = FALSE
        <5>1. thr[u].req = "restart" => exists /\ ~ephemeral
          BY <2>2, <3>1 DEF ClientFollows
        <5>2. ephemeral \in BOOLEAN
          BY ClientFacts DEF TypeOK
        <5> QED
          BY <5>1, <5>2
      <4>2. thr[k].pc = "delete" => ephemeral # FALSE
        <5>1. thr[k].pc = "delete" => thr[k].eph /\ thr[k].eph = ephemeral
          BY <1>1, <2>2 DEF CleanerFollows
        <5> QED
          BY <5>1, Zenon
      <4>3. CASE thr[k].pc = "delete"
        BY <4>1, <4>2, <4>3
      <4>4. CASE exists' = exists
        BY <4>1, <4>4
      <4> QED
        BY <4>3, <4>4
    <3> QED
      BY <1>2, <2>2, <3>1, <3>2 DEF ClientFollows
  <2> QED
    BY <2>1, <2>2
<1> QED
  BY <1>9, <1>10, <1>11, <1>12, <1>13, <1>14, <1>15 DEF UndisturbedInv

\* The goroutine of OnStop.
LEMMA CleanupUndisturbed ==
    ASSUME AloneIInv, UndisturbedInv, Undisturbed, NEW k \in Cleaners, Cleanup(k)
    PROVE  UndisturbedInv'
<1>0. /\ k \in Threads /\ thr \in [Threads -> Thread] /\ thr[k] \in Thread
      /\ thr[k].pc \in CleanupPcs /\ thr[k].req # "reboot"
      /\ UNCHANGED <<lxc, hook, halting, mounted, ephemeral, load>>
  <2>1. k \in Threads /\ thr \in [Threads -> Thread]
    BY DEF Threads, AloneIInv, LifecycleIInv, TypeOK
  <2>2. /\ thr[k].pc \in CleanupPcs
        /\ UNCHANGED <<lxc, hook, halting, mounted, ephemeral, load>>
    BY DEF Cleanup, Settle, Clean, RecordStopped, DeleteEphemeral, Unlock, At, CleanupPcs, hostVars,
           dbVars, lxcVars, callVars
  <2>3. thr[k].req # "reboot"
    BY DEF AloneIInv, AloneInv, OnlyStops, Alone, Undisturbed
  <2> QED
    BY <2>1, <2>2, <2>3
<1>1. CleanerFollows(k) /\ PowerFollows
  BY DEF UndisturbedInv
<1>2. lxc \in {"STOPPING", "STOPPED"} /\ (thr[k].pc # "settle" => lxc = "STOPPED")
      /\ thr[k].pc # "idle"
  BY <1>0, <1>1 DEF CleanerFollows, CleanupPcs
<1>3. ASSUME \A u \in Threads \ {k} : thr'[u] = thr[u]
      PROVE  ShuttingDown' <=> ShuttingDown
  <2>1. \A u \in Clients : thr'[u] = thr[u]
    BY <1>3, LifecycleAssumption DEF Threads
  <2> QED
    BY <2>1 DEF ShuttingDown
<1>4. CASE Settle(k)
  <2>1. Moves(k, "clean", thr[k].proc) /\ thr[k].pc = "settle" /\ lxc = "STOPPED"
        /\ UNCHANGED <<registered, devices, apparmor, power, exists>>
    BY <1>0, <1>2, <1>4, SimpleMoves
       DEF Settle, At, Undisturbed, lockVars, hostVars, dbVars
  <2>2. CleanerFollows(k)'
    BY <1>0, <1>1, <1>2, <1>3, <2>1 DEF CleanerFollows, Moves
  <2> QED
    BY <1>0, <1>2, <2>1, <2>2, CleanerStep DEF Moves
<1>5. CASE Clean(k)
  <2>1. /\ thr[k].pc = "clean" /\ ~devices' /\ ~apparmor'
        /\ UNCHANGED <<registered, power, exists>>
    BY <1>5 DEF Clean, At, lockVars, dbVars
  <2>2. thr' = [thr EXCEPT ![k].pc = "record", ![k].proc = "none"]
    BY <1>0, <1>5 DEF Clean
  <2>3. Moves(k, "record", "none")
    BY <1>0, <2>2 DEF Moves, Thread
  <2>4. CleanerFollows(k)'
    BY <1>0, <1>1, <1>2, <1>3, <2>1, <2>3 DEF CleanerFollows, Moves
  <2> QED
    BY <1>0, <1>2, <2>1, <2>3, <2>4, CleanerStep DEF Moves
<1>6. CASE RecordStopped(k)
  <2>1. /\ thr[k].pc = "record" /\ power' = "STOPPED"
        /\ UNCHANGED <<registered, devices, apparmor, exists>>
    BY <1>6 DEF RecordStopped, At, lockVars, hostVars
  <2>2. CASE thr[k].eph
    <3>1. Moves(k, "delete", thr[k].proc)
      BY <1>0, <1>6, <2>2, SimpleMoves DEF RecordStopped
    <3>2. CleanerFollows(k)'
      BY <1>0, <1>1, <1>2, <1>3, <2>1, <2>2, <3>1 DEF CleanerFollows, Moves
    <3> QED
      BY <1>0, <1>2, <2>1, <3>1, <3>2, CleanerStep DEF Moves
  <2>3. CASE ~thr[k].eph
    <3>1. Moves(k, "unlock", thr[k].proc)
      BY <1>0, <1>6, <2>3, SimpleMoves DEF RecordStopped
    <3>2. CleanerFollows(k)'
      BY <1>0, <1>1, <1>2, <1>3, <2>1, <2>3, <3>1 DEF CleanerFollows, Moves
    <3> QED
      BY <1>0, <1>2, <2>1, <3>1, <3>2, CleanerStep DEF Moves
  <2> QED
    BY <2>2, <2>3
<1>7. CASE DeleteEphemeral(k)
  <2>1. /\ thr[k].pc = "delete" /\ ~exists' /\ Moves(k, "unlock", thr[k].proc)
        /\ UNCHANGED <<registered, devices, apparmor, power>>
    BY <1>0, <1>7, SimpleMoves DEF DeleteEphemeral, At, lockVars, hostVars
  <2>2. CleanerFollows(k)'
    BY <1>0, <1>1, <1>2, <1>3, <2>1 DEF CleanerFollows, Moves
  <2>3. ~ShuttingDown => power' # "RUNNING"
    BY <1>1, <2>1 DEF PowerFollows
  <2> QED
    BY <1>0, <1>2, <2>1, <2>2, <2>3, CleanerStep DEF Moves
<1>8. CASE Unlock(k)
  <2>1. /\ thr[k].pc = "unlock" /\ thr' = [thr EXCEPT ![k] = Idle]
        /\ UNCHANGED <<devices, apparmor, power, exists>>
    BY <1>8 DEF Unlock, At, hostVars, dbVars
  <2>2. thr'[k].pc = "idle" /\ \A u \in Threads \ {k} : thr'[u] = thr[u]
    BY <1>0, <2>1 DEF Idle
  <2>3. CleanerFollows(k)'
    BY <2>2 DEF CleanerFollows
  <2> QED
    BY <1>0, <1>2, <2>1, <2>2, <2>3, CleanerStep
<1> QED
  BY <1>4, <1>5, <1>6, <1>7, <1>8 DEF Cleanup

\* No client waits for a forkstart but while LXC starts the container.
LEMMA NoneForked ==
    ASSUME AloneIInv, UndisturbedInv, Undisturbed, lxc # "STARTING"
    PROVE  \A u \in Threads : thr[u].pc # "forked"
<1>1. ASSUME NEW u \in Clients
      PROVE  thr[u].pc # "forked"
  <2>1. CASE thr[u].req = "host shutdown"
    <3>1. thr[u].pc \in HostPcs
      BY <2>1 DEF AloneIInv, AloneInv, HostGoesDown, Alone, Undisturbed
    <3> QED
      BY <3>1 DEF HostPcs
  <2>2. CASE thr[u].req # "host shutdown" /\ thr[u].pc # "idle"
    <3>1. ClientFollows(u) /\ ~ShuttingDown
      BY <2>2, Serving
    <3> QED
      BY <2>2, <3>1 DEF ClientFollows
  <2> QED
    BY <2>1, <2>2
<1>2. ASSUME NEW k \in Cleaners
      PROVE  thr[k].pc # "forked"
  BY DEF AloneIInv, AloneInv, OnlyStops, CleanupPcs, Alone, Undisturbed
<1> QED
  BY <1>1, <1>2 DEF Threads

\* A step of the hooks, of LXC or of the guest while no thread moves: what is left to
\* show is what the container holds, and how far it has come.
LEMMA WatchStep ==
    ASSUME AloneIInv, UndisturbedInv, Undisturbed, \A u \in Threads : thr'[u] = thr[u],
           UNCHANGED <<devices, exists, ephemeral, registered, load>>, HeldInv',
           lxc # "STOPPED", CleanersIdle \/ (lxc = "STOPPING" /\ lxc' \in {"STOPPING", "STOPPED"}),
           ~ShuttingDown =>
               /\ ~halting' \/ halting' = halting
               /\ hook'.step = "storage" => hook'.op = registered[Self]
               /\ \/ lxc = "STARTING" /\ lxc' = "STARTING"
                  \/ lxc = "STOPPING" /\ lxc' = "STOPPING"
                  \/ lxc = "STOPPING" /\ lxc' = "STOPPED" /\ ~CleanersIdle
    PROVE  UndisturbedInv'
<1>1. /\ HeldInv /\ PowerFollows /\ EphemeralFollows /\ StopAwaited /\ OneCleaner
      /\ \A j \in Cleaners : CleanerFollows(j)
      /\ \A u \in Clients : ClientFollows(u)
  BY DEF UndisturbedInv
<1>2. (\A u \in Clients : thr'[u] = thr[u]) /\ (\A k \in Cleaners : thr'[k] = thr[k])
  BY DEF Threads
<1>3. (ShuttingDown' <=> ShuttingDown) /\ (NoFork' <=> NoFork) /\ (CleanersIdle' <=> CleanersIdle)
  BY <1>2 DEF ShuttingDown, NoFork, CleanersIdle
<1>4. \A k \in Cleaners : thr[k].pc # "idle" =>
          /\ lxc = "STOPPING" /\ lxc' \in {"STOPPING", "STOPPED"} /\ thr[k].pc = "settle"
          /\ CleanerFollows(k)
  BY <1>1 DEF CleanersIdle, CleanerFollows
<1>5. PowerFollows'
  <2> SUFFICES ASSUME ~ShuttingDown
               PROVE  /\ ~Up'
                      /\ lxc' = "STOPPED" => ~CleanersIdle'
                      /\ \A k \in Cleaners : thr'[k].pc \notin {"delete", "unlock"}
    BY <1>3 DEF PowerFollows
  <2> QED
    BY <1>2, <1>3, <1>4 DEF Up
<1>6. EphemeralFollows'
  BY <1>1, <1>3 DEF EphemeralFollows
<1>7. StopAwaited'
  <2> SUFFICES ASSUME ~ShuttingDown
               PROVE  /\ ~halting'
                      /\ lxc' = "STOPPING" \/ ~CleanersIdle'
                            => \E u \in Clients : thr'[u].pc = "wait" /\ thr'[u].op = registered'[Self]
                      /\ hook'.step = "storage" => hook'.op = registered'[Self]
    BY <1>3 DEF StopAwaited
  <2>1. ~halting'
    BY <1>1 DEF StopAwaited
  <2>2. lxc' = "STOPPING" \/ ~CleanersIdle' => lxc = "STOPPING"
    BY <1>3, <1>4 DEF CleanersIdle
  <2>3. lxc = "STOPPING" => \E u \in Clients : thr[u].pc = "wait" /\ thr[u].op = registered[Self]
    BY <1>1 DEF StopAwaited
  <2> QED
    BY <1>2, <2>1, <2>2, <2>3
<1>8. OneCleaner'
  <2> SUFFICES ASSUME NEW j \in Cleaners, NEW k \in Cleaners,
                      thr'[j].pc # "idle", thr'[k].pc # "idle"
               PROVE  j = k
    BY DEF OneCleaner
  <2>1. thr[j].pc # "idle" /\ thr[k].pc # "idle" /\ OneCleaner
    BY <1>1, <1>2
  <2> QED
    BY <2>1, Zenon DEF OneCleaner
<1>9. \A k \in Cleaners : CleanerFollows(k)'
  <2>1. ASSUME NEW k \in Cleaners, thr[k].pc # "idle"
        PROVE  CleanerFollows(k)'
    BY <1>2, <1>3, <1>4, <2>1 DEF CleanerFollows
  <2>2. \A k \in Cleaners : thr[k].pc = "idle" => CleanerFollows(k)'
    BY <1>2 DEF CleanerFollows
  <2> QED
    BY <2>1, <2>2
<1>10. ASSUME NEW u \in Clients
       PROVE  ClientFollows(u)'
  <2>1. CASE ShuttingDown \/ thr[u].pc = "idle"
    BY <1>2, <1>3, <2>1 DEF ClientFollows
  <2>2. CASE ~ShuttingDown /\ thr[u].pc # "idle"
    <3>1. ClientFollows(u) /\ thr'[u] = thr[u]
      BY <1>1, <1>2
    <3>2. \/ thr[u].pc = "forked" /\ lxc' = "STARTING"
          \/ thr[u].pc = "wait" /\ lxc' \in {"STOPPING", "STOPPED"}
      BY <2>2, Serving
    <3> QED
      BY <2>2, <3>1, <3>2 DEF ClientFollows
  <2> QED
    BY <2>1, <2>2
<1> QED
  BY <1>1, <1>5, <1>6, <1>7, <1>8, <1>9, <1>10 DEF UndisturbedInv

\* The hooks of a start, and LXC telling that the container runs.
LEMMA RunsUndisturbed ==
    ASSUME AloneIInv, UndisturbedInv, Undisturbed, OnStart \/ OnStartRecord \/ LxcRunning
    PROVE  UndisturbedInv'
<1>0. /\ thr \in [Threads -> Thread] /\ HookInv
      /\ hook \in [step : {"none", "start", "started", "stop", "storage"},
                   target : {"stop", "reboot"}, op : OpIds \cup {NoOp}]
  BY DEF AloneIInv, LifecycleIInv, TypeOK
<1>1. lxc = "STARTING" /\ UNCHANGED <<devices, exists, ephemeral, registered, load>>
  BY <1>0 DEF OnStart, OnStartRecord, LxcRunning, HookInv, lockVars, dbVars, hostVars, callVars
<1>2. /\ HeldInv /\ PowerFollows /\ EphemeralFollows /\ StopAwaited /\ OneCleaner
      /\ \A u \in Clients : ClientFollows(u)
  BY DEF UndisturbedInv
<1>3. devices /\ CleanersIdle /\ exists
  BY <1>1, <1>2 DEF HeldInv, HeldStarting, EphemeralFollows
<1>4. CASE OnStart
  <2>1. /\ hook.step = "start" /\ mounted' /\ apparmor' /\ hook' = [hook EXCEPT !.step = "started"]
        /\ UNCHANGED <<lxc, halting, thr>>
    BY <1>3, <1>4 DEF OnStart, Undisturbed
  <2>2. hook'.step = "started"
    BY <1>0, <2>1
  <2>3. CleanersIdle'
    BY <1>3, <2>1 DEF CleanersIdle
  <2>4. HeldInv'
    BY <1>1, <1>3, <2>1, <2>2, <2>3
       DEF HeldInv, HeldUp, HeldStarting, HeldStopping, HeldStopped, Up
  <2> QED
    BY <1>1, <1>3, <2>1, <2>2, <2>4, WatchStep
<1>5. CASE OnStartRecord
  <2>1. /\ hook.step = "started" /\ power' = "RUNNING" /\ hook' = NoHook
        /\ UNCHANGED <<lxc, halting, thr, mounted, apparmor>>
    BY <1>5 DEF OnStartRecord, Undisturbed, hostVars
  <2>2. hook'.step = "none"
    BY <2>1, NoHookFields
  <2>3. CleanersIdle'
    BY <1>3, <2>1 DEF CleanersIdle
  <2>4. mounted /\ apparmor
    BY <1>1, <1>2, <2>1 DEF HeldInv, HeldStarting
  <2>5. HeldInv'
    BY <1>1, <1>3, <2>1, <2>2, <2>3, <2>4
       DEF HeldInv, HeldUp, HeldStarting, HeldStopping, HeldStopped, Up
  <2> QED
    BY <1>1, <1>3, <2>1, <2>2, <2>5, WatchStep
<1>6. CASE LxcRunning
  <2>1. /\ hook.step = "none" /\ lxc' = "RUNNING"
        /\ UNCHANGED <<hook, halting, mounted, apparmor, power>>
    BY <1>6 DEF LxcRunning, hostVars, dbVars
  <2>2. hook = NoHook /\ power = "RUNNING" /\ mounted /\ apparmor
    BY <1>1, <1>2, <2>1 DEF HeldInv, HeldStarting
  <2>3. ASSUME NEW u \in Threads
        PROVE  \/ thr'[u] = thr[u] /\ thr[u].pc # "forked"
               \/ /\ thr[u].pc = "forked" /\ thr'[u].pc = "release"
                  /\ thr'[u].req = thr[u].req /\ thr'[u].proc = thr[u].proc
                  /\ thr'[u].op = thr[u].op /\ thr'[u].eph = thr[u].eph
                  /\ thr'[u].power = thr[u].power /\ thr'[u].resetEph = thr[u].resetEph
    BY <1>0, <1>6 DEF LxcRunning, At, Thread
  <2>4. (ShuttingDown' <=> ShuttingDown) /\ CleanersIdle'
    <3>1. \A k \in Cleaners : thr'[k].pc = "idle"
      BY <1>3, <2>3 DEF CleanersIdle, Threads
    <3>2. ShuttingDown' <=> ShuttingDown
      BY <2>3 DEF ShuttingDown, Threads
    <3> QED
      BY <3>1, <3>2 DEF CleanersIdle
  <2>5. HeldInv'
    BY <1>1, <1>3, <2>1, <2>2, <2>4 DEF HeldInv, HeldUp, HeldStarting, HeldStopping, HeldStopped, Up
  <2>6. PowerFollows' /\ EphemeralFollows'
    BY <1>1, <1>3, <2>1, <2>2, <2>4 DEF PowerFollows, EphemeralFollows, CleanersIdle
  <2>7. StopAwaited'
    <3>1. hook'.step # "storage"
      BY <2>1
    <3> QED
      BY <1>2, <2>1, <2>4, <3>1 DEF StopAwaited
  <2>8. OneCleaner' /\ \A k \in Cleaners : CleanerFollows(k)'
    BY <2>4 DEF OneCleaner, CleanerFollows, CleanersIdle
  <2>9. ASSUME NEW u \in Clients
        PROVE  ClientFollows(u)'
    <3>1. CASE thr[u].pc = "forked"
      <4>1. thr'[u].pc = "release"
        BY <2>3, <3>1 DEF Threads
      <4>2. /\ thr'[u].req = thr[u].req /\ thr'[u].proc = thr[u].proc
            /\ thr'[u].op = thr[u].op /\ thr'[u].eph = thr[u].eph
            /\ thr'[u].power = thr[u].power /\ thr'[u].resetEph = thr[u].resetEph
        BY <2>3, <3>1 DEF Threads
      <4>3. Up' /\ ClientFollows(u)
        BY <1>2, <2>1 DEF Up
      <4> QED
        BY <1>1, <2>4, <3>1, <4>1, <4>2, <4>3 DEF ClientFollows
    <3>2. CASE thr[u].pc # "forked"
      <4>1. thr[u].pc = "idle"
        BY <1>1, <3>2, Serving
      <4>2. thr'[u].pc = "idle"
        BY <2>3, <3>2, <4>1 DEF Threads
      <4> QED
        BY <4>2 DEF ClientFollows
    <3> QED
      BY <3>1, <3>2
  <2> QED
    BY <2>5, <2>6, <2>7, <2>8, <2>9 DEF UndisturbedInv
<1> QED
  BY <1>4, <1>5, <1>6

\* The first half of the stop hook, the guest that obeys the host's shutdown, and LXC
\* telling that the container has stopped.
LEMMA StopsUndisturbed ==
    ASSUME AloneIInv, UndisturbedInv, Undisturbed, OnStop \/ GuestHalt \/ LxcStopped
    PROVE  UndisturbedInv'
<1>0. /\ thr \in [Threads -> Thread] /\ HookInv /\ AloneInv
      /\ hook \in [step : {"none", "start", "started", "stop", "storage"},
                   target : {"stop", "reboot"}, op : OpIds \cup {NoOp}]
      /\ \A u \in Threads : HoldsOp(u)
  BY DEF AloneIInv, LifecycleIInv, TypeOK, ThreadsInv
<1>1. UNCHANGED <<devices, exists, ephemeral, registered, load, mounted, apparmor>>
  BY DEF OnStop, GuestHalt, LxcStopped, GoDown, lockVars, dbVars, hostVars, callVars
<1>2. HeldInv /\ EphemeralFollows /\ StopAwaited /\ \A k \in Cleaners : CleanerFollows(k)
  BY DEF UndisturbedInv
<1>3. CASE OnStop
  <2>1. hook.step = "stop" /\ lxc = "STOPPING"
    BY <1>0, <1>3 DEF OnStop, HookInv
  <2>2. exists /\ CleanersIdle
    BY <1>2, <2>1, NoHookFields DEF HeldInv, HeldStopping, EphemeralFollows
  <2>3. registered[Self] # NoOp => op[registered[Self]].action = "stop"
    <3> SUFFICES ASSUME registered[Self] # NoOp PROVE op[registered[Self]].action = "stop"
      OBVIOUS
    <3>1. PICK u \in Clients : thr[u].pc \in StartPcs \cup StopPcs /\ thr[u].op = registered[Self]
      BY <1>0 DEF AloneInv, OpServed, Alone, Undisturbed
    <3>2. thr[u].pc # "idle" /\ HoldsOp(u)
      BY <1>0, <3>1 DEF StartPcs, StopPcs, Threads
    <3>3. thr[u].pc \notin StartPcs
      <4>1. CASE thr[u].req = "host shutdown"
        BY <1>0, <4>1 DEF AloneInv, HostGoesDown, HostPcs, StartPcs, Alone, Undisturbed
      <4>2. CASE thr[u].req # "host shutdown"
        <5>1. thr[u].pc = "wait"
          BY <2>1, <3>2, <4>2, Serving
        <5> QED
          BY <5>1 DEF StartPcs
      <4> QED
        BY <4>1, <4>2
    <3> QED
      BY <3>1, <3>2, <3>3 DEF HoldsOp
  <2>4. /\ hook' = [hook EXCEPT !.step = "storage", !.op = registered[Self]]
        /\ UNCHANGED <<lxc, halting, thr>>
    BY <1>3, <2>2, <2>3 DEF OnStop
  <2>5. hook'.step = "storage" /\ hook'.op = registered[Self]
    BY <1>0, <2>4
  <2>6. CleanersIdle'
    BY <2>2, <2>4 DEF CleanersIdle
  <2>7. HeldInv'
    BY <2>1, <2>4, <2>5, <2>6 DEF HeldInv, HeldUp, HeldStarting, HeldStopping, HeldStopped, Up
  <2> QED
    BY <1>1, <2>1, <2>2, <2>4, <2>5, <2>7, WatchStep
<1>4. CASE GuestHalt
  <2>1. /\ lxc = "RUNNING" /\ halting /\ lxc' = "STOPPING" /\ hook'.step = "stop"
        /\ UNCHANGED <<halting, thr>>
    BY <1>4 DEF GuestHalt, GoDown, NoHook
  <2>2. ShuttingDown
    BY <1>2, <2>1 DEF StopAwaited
  <2>3. CleanersIdle /\ CleanersIdle'
    BY <1>2, <2>1 DEF HeldInv, HeldUp, Up, CleanersIdle
  <2>4. HeldInv'
    BY <2>1, <2>3 DEF HeldInv, HeldUp, HeldStarting, HeldStopping, HeldStopped, Up
  <2> QED
    BY <1>1, <2>1, <2>2, <2>3, <2>4, WatchStep
<1>5. CASE LxcStopped
  <2>1. /\ lxc = "STOPPING" /\ hook.step = "none"
        /\ lxc' = "STOPPED" /\ hook' = NoHook /\ halting' = FALSE
    BY <1>5 DEF LxcStopped, Stopped
  <2>2. \A u \in Threads : thr'[u] = thr[u]
    BY <1>5, <2>1, NoneForked DEF LxcStopped, Stopped, At
  <2>3. ~mounted /\ \E k \in Cleaners : thr[k].pc = "settle"
    BY <1>2, <2>1 DEF HeldInv, HeldStopping
  <2>4. ~CleanersIdle /\ ~CleanersIdle'
    BY <2>2, <2>3 DEF CleanersIdle, Threads
  <2>5. HeldInv'
    BY <1>1, <2>1, <2>3, <2>4 DEF HeldInv, HeldUp, HeldStarting, HeldStopping, HeldStopped, Up
  <2>6. hook'.step = "none"
    BY <2>1, NoHookFields
  <2> QED
    BY <1>1, <2>1, <2>2, <2>4, <2>5, <2>6, WatchStep
<1> QED
  BY <1>3, <1>4, <1>5

\* The second half of the stop hook, which leaves the rest to a goroutine.
LEMMA StorageUndisturbed ==
    ASSUME AloneIInv, UndisturbedInv, Undisturbed, OnStopStorage
    PROVE  UndisturbedInv'
<1>0. thr \in [Threads -> Thread] /\ HookInv
  BY DEF AloneIInv, LifecycleIInv, TypeOK
<1>1. /\ lxc = "STOPPING" /\ hook.step = "storage"
      /\ UNCHANGED <<lxc, halting, devices, apparmor, exists, ephemeral, power, registered, load>>
      /\ mounted' = FALSE /\ hook' = NoHook
  BY <1>0 DEF OnStopStorage, HookInv, Undisturbed, lockVars, dbVars, callVars
<1>2. PICK k \in Cleaners :
          thr' = [thr EXCEPT ![k] =
                     [Idle EXCEPT !.pc = "settle", !.req = hook.target,
                                  !.caught = hook.op, !.power = power, !.eph = ephemeral]]
  BY DEF OnStopStorage, Undisturbed
<1>3. /\ \A u \in Threads \ {k} : thr'[u] = thr[u]
      /\ thr'[k].pc = "settle" /\ thr'[k].caught = hook.op /\ thr'[k].eph = ephemeral
  BY <1>0, <1>2 DEF Idle, Threads
<1>4. /\ \A u \in Clients : thr'[u] = thr[u]
      /\ \A j \in Cleaners \ {k} : thr'[j] = thr[j]
  BY <1>3, LifecycleAssumption DEF Threads
<1>5. /\ HeldInv /\ EphemeralFollows /\ StopAwaited
      /\ \A u \in Clients : ClientFollows(u)
  BY DEF UndisturbedInv
<1>6. CleanersIdle /\ exists
  BY <1>1, <1>5, NoHookFields DEF HeldInv, HeldStopping, EphemeralFollows
<1>7. ~CleanersIdle' /\ (ShuttingDown' <=> ShuttingDown)
  BY <1>3, <1>4 DEF CleanersIdle, ShuttingDown
<1>8. HeldInv'
  <2>1. hook' = NoHook /\ ~mounted' /\ \E j \in Cleaners : thr'[j].pc = "settle"
    BY <1>1, <1>3
  <2> QED
    BY <1>1, <2>1 DEF HeldInv, HeldUp, HeldStarting, HeldStopping, HeldStopped, Up
<1>9. \A j \in Cleaners \ {k} : thr'[j].pc = "idle"
  BY <1>4, <1>6 DEF CleanersIdle
<1>10. PowerFollows' /\ EphemeralFollows'
  BY <1>1, <1>3, <1>6, <1>9 DEF PowerFollows, EphemeralFollows, Up
<1>11. StopAwaited'
  <2>1. hook'.step # "storage"
    BY <1>1, NoHookFields
  <2>2. ~ShuttingDown => /\ ~halting
                         /\ \E u \in Clients : thr[u].pc = "wait" /\ thr[u].op = registered[Self]
    BY <1>1, <1>5 DEF StopAwaited
  <2> QED
    BY <1>1, <1>4, <1>7, <2>1, <2>2 DEF StopAwaited
<1>12. OneCleaner'
  BY <1>9 DEF OneCleaner
<1>13. CleanerFollows(k)'
  <2>1. ~ShuttingDown => thr'[k].caught = registered'[Self]
    BY <1>1, <1>3, <1>5 DEF StopAwaited
  <2>2. thr'[k].eph = ephemeral'
    BY <1>1, <1>3
  <2> QED
    BY <1>1, <1>3, <1>6, <1>7, <2>1, <2>2 DEF CleanerFollows
<1>14. \A j \in Cleaners : CleanerFollows(j)'
  BY <1>9, <1>13 DEF CleanerFollows
<1>15. ASSUME NEW u \in Clients
       PROVE  ClientFollows(u)'
  BY <1>1, <1>4, <1>5, <1>7 DEF ClientFollows, Up
<1> QED
  BY <1>8, <1>10, <1>11, <1>12, <1>14, <1>15 DEF UndisturbedInv

\* Every step keeps the invariant.
LEMMA UndisturbedStep ==
    ASSUME AloneIInv, AloneIInv', UndisturbedInv, [Next]_vars
    PROVE  UndisturbedInv'
<1> SUFFICES ASSUME Undisturbed' PROVE UndisturbedInv'
  BY DEF UndisturbedInv
<1>0. load' = load
  <2>1. ASSUME NEW t, Run(t)
        PROVE  load' = load
    BY <2>1 DEF Run, Begin, BeginStart, BeginStop, BeginRestart, BeginFreeze, BeginHostShutdown,
         CreateOperation, GetOperation, InsertOperation, ResetOperation, Start, StartCommon,
         Forkstart, ReleaseStart, Stop, CheckRunning, FreezeToStop, KillContainer, WaitOperation,
         Shutdown, SignalHalt, AwaitHalt, Cleanup, Settle, Clean, RecordStopped, DeleteEphemeral,
         Unlock, KeepPower, Return, callVars
  <2>2. Hooks \/ Lxc \/ Guest \/ (\E o \in OpIds : Timeout(o)) => load' = load
    BY DEF Hooks, OnStart, OnStartRecord, OnStop, OnStopStorage, Lxc, LxcRunning, LxcStopped,
           LxcCrash, Guest, GuestHalt, GuestPoweroff, GuestReboot, GoDown, Timeout, callVars
  <2>3. (\E t \in Clients : Request(t)) \/ UNCHANGED vars => load' = load
    BY DEF Request, vars, callVars
  <2> QED
    BY <2>1, <2>2, <2>3 DEF Next
<1>1. Undisturbed /\ TypeOK' /\ AloneInv'
  BY <1>0 DEF Undisturbed, AloneIInv, LifecycleIInv
<1>2. ASSUME NEW t \in Clients, Request(t)
      PROVE  UndisturbedInv'
  BY <1>1, <1>2, RequestUndisturbed
<1>3. ASSUME NEW t \in Threads, Run(t)
      PROVE  UndisturbedInv'
  <2>1. CASE t \in Clients
    BY <1>1, <1>3, <2>1, ServeUndisturbed
  <2>2. CASE t \in Cleaners
    <3>1. thr[t].pc \in CleanupPcs \cup {"idle"}
      BY <1>1, <2>2 DEF AloneIInv, AloneInv, OnlyStops, Alone, Undisturbed
    <3>2. Cleanup(t)
      BY <1>3, <3>1
         DEF CleanupPcs, At, Run, Begin, BeginStart, BeginStop, BeginRestart, BeginFreeze,
             BeginHostShutdown, CreateOperation, GetOperation, InsertOperation, ResetOperation,
             Start, StartCommon, Forkstart, ReleaseStart, Stop, CheckRunning, FreezeToStop,
             KillContainer, WaitOperation, Shutdown, SignalHalt, AwaitHalt, KeepPower, Return
    <3> QED
      BY <1>1, <2>2, <3>2, CleanupUndisturbed
  <2> QED
    BY <2>1, <2>2 DEF Threads
<1>4. CASE Hooks \/ Lxc \/ Guest \/ \E o \in OpIds : Timeout(o)
  BY <1>1, <1>4, RunsUndisturbed, StopsUndisturbed, StorageUndisturbed
     DEF Hooks, Lxc, Guest, LxcCrash, GuestPoweroff, GuestReboot, Timeout, Undisturbed
<1>5. CASE UNCHANGED vars
  <2>1. UNCHANGED <<lxc, hook, halting, mounted, devices, apparmor, power, ephemeral, exists, thr,
                    registered, load>>
    BY <1>5 DEF vars, lockVars, hostVars, dbVars, lxcVars, callVars
  <2>2. HeldInv' /\ PowerFollows' /\ EphemeralFollows' /\ StopAwaited'
    BY <1>1, <2>1 DEF UndisturbedInv, HeldInv, HeldUp, HeldStarting, HeldStopping, HeldStopped,
                      PowerFollows, EphemeralFollows, StopAwaited, Up, CleanersIdle, NoFork,
                      ShuttingDown
  <2>3. OneCleaner' /\ \A k \in Cleaners : CleanerFollows(k)'
    BY <1>1, <2>1 DEF UndisturbedInv, OneCleaner, CleanerFollows, ShuttingDown
  <2>4. \A u \in Clients : ClientFollows(u)'
    BY <1>1, <2>1 DEF UndisturbedInv, ClientFollows, ShuttingDown, Up
  <2> QED
    BY <2>2, <2>3, <2>4 DEF UndisturbedInv
<1> QED
  BY <1>2, <1>3, <1>4, <1>5 DEF Next

\* The initial states satisfy the invariant.
LEMMA SettledInit == Init => SettledIInv
<1> SUFFICES ASSUME Init PROVE SettledIInv
  OBVIOUS
<1>1. \A t \in Threads : thr[t].pc = "idle"
  BY DEF Init, Idle
<1>2. ~ShuttingDown /\ CleanersIdle /\ NoFork
  BY <1>1 DEF ShuttingDown, CleanersIdle, NoFork, Threads
<1>3. /\ lxc \in {"STOPPED", "RUNNING", "FROZEN"} /\ hook = NoHook /\ ~halting /\ exists
      /\ power = IF lxc = "STOPPED" THEN "STOPPED" ELSE "RUNNING"
      /\ (ephemeral => lxc # "STOPPED")
      /\ mounted = (lxc # "STOPPED") /\ devices = mounted /\ apparmor = mounted
  BY DEF Init
<1>4. HeldInv
  BY <1>2, <1>3 DEF HeldInv, HeldUp, HeldStarting, HeldStopping, HeldStopped, Up
<1>5. PowerFollows /\ EphemeralFollows
  BY <1>2, <1>3 DEF PowerFollows, EphemeralFollows, Up, CleanersIdle
<1>6. StopAwaited
  <2>1. hook.step = "none"
    BY <1>3, NoHookFields
  <2> QED
    BY <1>2, <1>3, <2>1 DEF StopAwaited
<1>7. OneCleaner /\ (\A k \in Cleaners : CleanerFollows(k)) /\ \A u \in Clients : ClientFollows(u)
  BY <1>1 DEF OneCleaner, CleanerFollows, ClientFollows, Threads
<1>8. UndisturbedInv
  BY <1>4, <1>5, <1>6, <1>7 DEF UndisturbedInv
<1> QED
  BY <1>8, AloneInit DEF SettledIInv

\* Every step keeps it.
LEMMA SettledStep ==
    SettledIInv /\ RegisteredIsOpen' /\ [Next]_vars => SettledIInv'
<1> SUFFICES ASSUME SettledIInv, RegisteredIsOpen', [Next]_vars PROVE SettledIInv'
  OBVIOUS
<1>1. AloneIInv'
  BY LifecycleStep, AloneStep DEF SettledIInv, AloneIInv
<1> QED
  BY <1>1, UndisturbedStep DEF SettledIInv

\* The invariant behind both theorems below.
LEMMA SettledInvariant == Spec => []SettledIInv
<1>1. LockInv => RegisteredIsOpen
  BY DEF LockInv
<1> QED
  BY <1>1, SettledInit, SettledStep, LockSafe, PTL DEF Spec

\* When requests come one after the other, the guest does nothing by itself and
\* nothing fails: what the daemon has recorded and holds on the host once everything
\* is quiet is what the container's real state calls for.
THEOREM SettledWorks == Spec => []SettledInv
<1>1. ASSUME SettledIInv
      PROVE  SettledInv
  <2>1. ASSUME Undisturbed
        PROVE  HeldInv /\ PowerFollows
    BY <1>1, <2>1 DEF SettledIInv, UndisturbedInv
  <2>2. EquippedWhileRunning
    BY <2>1 DEF EquippedWhileRunning, HeldInv, HeldUp, Up
  <2>3. Quiescent => ~ShuttingDown /\ CleanersIdle /\ NoFork
    BY DEF Quiescent, At, ShuttingDown, CleanersIdle, NoFork, Threads
  <2>4. PowerStateRecorded
    BY <2>1, <2>3 DEF PowerStateRecorded, Quiescent, PowerFollows, IsRunning, Up
  <2>5. ReleasedWhenStopped
    BY <2>1, <2>3 DEF ReleasedWhenStopped, Quiescent, HeldInv, HeldStopped, IsRunning
  <2> QED
    BY <2>2, <2>4, <2>5 DEF SettledInv
<1> QED
  BY <1>1, SettledInvariant, PTL

\* Under the same conditions, an ephemeral container is gone once it has been stopped,
\* and no restart loses one.
THEOREM EphemeralWorks == Spec => []EphemeralFate
<1>1. ASSUME SettledIInv
      PROVE  EphemeralFate
  <2>1. ASSUME Undisturbed
        PROVE  EphemeralFollows /\ \A u \in Clients : ClientFollows(u)
    BY <1>1, <2>1 DEF SettledIInv, UndisturbedInv
  <2>2. Quiescent => ~ShuttingDown /\ CleanersIdle
    BY DEF Quiescent, At, ShuttingDown, CleanersIdle, Threads
  <2>3. EphemeralDestroyed
    BY <2>1, <2>2 DEF EphemeralDestroyed, Quiescent, EphemeralFollows, IsRunning
  <2>4. ASSUME Undisturbed, NEW t \in Clients, thr[t].req \in Restarts
        PROVE  exists
    <3>1. HoldsOp(t)
      BY <1>1, ClientFacts DEF SettledIInv
    <3>2. thr[t].pc # "idle"
      BY <2>4, <3>1 DEF HoldsOp, Restarts
    <3>3. ClientFollows(t) /\ ~ShuttingDown
      BY <1>1, <2>1, <2>4, <3>2, Serving DEF SettledIInv, Restarts
    <3>4. thr[t].req = "restart"
      BY <2>4, <3>2, <3>3 DEF ClientFollows, Undisturbed, Restarts
    <3> QED
      BY <3>2, <3>3, <3>4 DEF ClientFollows
  <2>5. EphemeralSurvivesRestart
    BY <2>4 DEF EphemeralSurvivesRestart
  <2> QED
    BY <2>3, <2>5 DEF EphemeralFate
<1> QED
  BY <1>1, SettledInvariant, PTL
=============================================================================
