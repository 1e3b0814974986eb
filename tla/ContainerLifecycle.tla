------------------------ MODULE ContainerLifecycle ------------------------
(***************************************************************************)
(* One container of the daemon: the API requests that start, stop,         *)
(* restart, freeze and unfreeze it (lxd/container_state.go), the start and *)
(* stop code they run (lxd/container_lxc.go), the hooks LXC calls back     *)
(* into the daemon (lxd/api_internal.go), the goroutine OnStop leaves      *)
(* behind, and the shutdown of the host (lxd/containers.go).               *)
(*                                                                         *)
(* Every request and every OnStop goroutine is a thread.  A step is the    *)
(* code between two points where another thread can be observed: the lock  *)
(* of the operations map, a call into LXC, a database transaction, a wait. *)
(* LXC itself and the guest are the environment.  The operation lock, its  *)
(* variables and the steps callers take on it are those of ContainerOps.   *)
(***************************************************************************)
EXTENDS ContainerOps, Naturals, FiniteSets

CONSTANTS
    Self,         \* the container
    Clients,      \* goroutines that serve API requests
    Cleaners,     \* goroutines OnStop starts
    InOrder,      \* operations are allocated in one order, not in every order
    Workloads     \* bounds: what is asked of the container, see Workload

Restarts     == {"restart", "graceful restart"}
RequestKinds == {"start", "stop", "shutdown", "freeze", "unfreeze", "host shutdown"} \cup Restarts

\* poweroff, reboot: the guest stops or reboots by itself.
\* timeout: an operation may take more than 30 seconds.
\* hang:    the LXC monitor may take more than 5 seconds to answer.
\* setup:   a check, a mount, a profile or a template may fail during a start.
\* unmount: the storage may refuse to unmount.
\* db:      recording the power state at the end of OnStart may fail.
\* crash:   LXC may fail between the start hook and RUNNING.
EventKinds == {"poweroff", "reboot", "timeout", "hang", "setup", "unmount", "db", "crash"}

\* A workload: the requests the clients send, what the environment may do, how
\* many clients there are, the requests of each, the operations there are for
\* them, and the ephemeral flags the container may have been created with.
Workload == [requests : SUBSET RequestKinds, events : SUBSET EventKinds,
             clients : Nat, max : Nat, ops : Nat, ephemeral : SUBSET BOOLEAN]

ASSUME LifecycleAssumption ==
    /\ Self \in Containers
    /\ Clients \cap Cleaners = {}
    /\ InOrder \in BOOLEAN
    /\ Workloads \subseteq Workload

Threads == Clients \cup Cleaners

VARIABLES
    lxc,        \* the state LXC reports
    hook,       \* the hook LXC is waiting for: its next step, target and operation
    halting,    \* the guest has been sent the halt signal
    mounted,    \* StorageStart without StorageStop
    devices,    \* the container's unix and disk devices are in place
    apparmor,   \* its AppArmor profile is loaded
    power,      \* volatile.last_state.power in the database
    ephemeral,  \* the ephemeral column in the database
    exists,     \* the container is in the database
    thr,        \* the threads
    sent,       \* requests sent by each client
    down,       \* threads that have seen the container stopped since they began
    load        \* the workload, which never changes

hostVars  == <<mounted, devices, apparmor>>
dbVars    == <<power, ephemeral, exists>>
lxcVars   == <<lxc, hook, halting, down>>
callVars  == <<sent, load>>
vars      == <<lockVars, hostVars, dbVars, lxcVars, thr, callVars>>

LxcStates == {"STOPPED", "STARTING", "RUNNING", "FROZEN", "STOPPING"}
Powers    == LxcStates \cup {""}
Pcs       == {"idle", "begin", "check", "get", "insert", "reset", "act", "kill", "await", "wait",
              "common", "fork", "forked", "release", "keep", "return",
              "settle", "clean", "record", "delete", "unlock", "exit"}

\* A thread: where it is, the request or hook target it serves, the function it
\* is in, its operation, the operation OnStop handed to it, its copy of the
\* container's power state and ephemeral flag, whether Restart has to set that
\* flag back on, and the result of its request.
Thread == [pc : Pcs, req : RequestKinds \cup {"none", "reboot"},
           proc : {"none", "Start", "Stop", "Shutdown"},
           op : OpIds \cup {NoOp}, caught : OpIds \cup {NoOp},
           power : Powers, eph : BOOLEAN, resetEph : BOOLEAN,
           res : {"none", "ok", "error"}]

Idle == [pc |-> "idle", req |-> "none", proc |-> "none", op |-> NoOp, caught |-> NoOp,
         power |-> "", eph |-> FALSE, resetEph |-> FALSE, res |-> "none"]

NoHook == [step |-> "none", target |-> "stop", op |-> NoOp]

\* Every variable has its type.
TypeOK ==
    /\ LockTypeOK
    /\ lxc \in LxcStates
    /\ hook \in [step : {"none", "start", "started", "stop", "storage"},
                 target : {"stop", "reboot"}, op : OpIds \cup {NoOp}]
    /\ power \in Powers
    /\ {halting, mounted, devices, apparmor, ephemeral, exists} \subseteq BOOLEAN
    /\ thr \in [Threads -> Thread]
    /\ load \in Workloads
    /\ sent \in [Clients -> 0 .. load.max]
    /\ down \subseteq Threads

\* The daemon is up, no request is being served and the container is stopped,
\* running or frozen; an ephemeral one has been started.
Init ==
    /\ LockInit
    /\ lxc \in {"STOPPED", "RUNNING", "FROZEN"}
    /\ load \in Workloads
    /\ ephemeral \in load.ephemeral /\ exists = TRUE
    /\ ephemeral => lxc # "STOPPED"
    /\ power = IF lxc = "STOPPED" THEN "STOPPED" ELSE "RUNNING"
    /\ mounted = (lxc # "STOPPED") /\ devices = mounted /\ apparmor = mounted
    /\ hook = NoHook /\ halting = FALSE
    /\ thr = [t \in Threads |-> Idle]
    /\ sent = [t \in Clients |-> 0]
    /\ down = {}

\* A monitor that does not answer makes State() "Error", which is not STOPPED.
IsRunning == lxc # "STOPPED"

At(t, pc) == thr[t].pc = pc
Goto(t, pc) == thr' = [thr EXCEPT ![t].pc = pc]

\* The rewriting of the container's row and configuration by Update: the thread's
\* copy of the power state goes back to the database with everything else.
WriteBack(t, eph) ==
    /\ power' = thr[t].power
    /\ ephemeral' = eph
    /\ UNCHANGED exists

\* containersShutdown that does not kill what outlives the 30 seconds.
LeaveWithoutKill(t, res) ==
    LET r == thr[t] IN
    thr' = [thr EXCEPT ![t] =
        CASE t \in Cleaners -> [r EXCEPT !.pc = "unlock"]
          [] r.req \in Restarts /\ r.proc # "Start" /\ res = "ok" ->
                [r EXCEPT !.proc = "Start", !.pc = "get"]
          [] r.req = "host shutdown" -> [r EXCEPT !.pc = "keep", !.res = "ok"]
          [] OTHER -> [r EXCEPT !.pc = "return", !.res = res]]

\* Leaving Start, Stop or Shutdown: what the caller does with the result.
Leave(t, res) ==
    LET r == thr[t] IN
    thr' = [thr EXCEPT ![t] =
        CASE t \in Cleaners ->
                [r EXCEPT !.pc = "unlock"]
          [] r.req \in Restarts /\ r.proc # "Start" /\ res = "ok" ->
                [r EXCEPT !.proc = "Start", !.pc = "get"]
          [] r.req = "host shutdown" /\ r.proc = "Shutdown" ->
                [r EXCEPT !.proc = "Stop", !.pc = "check"]
          [] r.req = "host shutdown" /\ r.proc = "Stop" ->
                [r EXCEPT !.pc = "keep", !.res = "ok"]
          [] OTHER ->
                [r EXCEPT !.pc = "return", !.res = res]]

---------------------------------------------------------------------------
(* The requests: containerStatePut and containersShutdown                  *)

\* Load the container; the request's operation then runs in its own goroutine.
\* The daemon shuts the host's containers down from one place only.
Request(t) ==
    /\ At(t, "idle") /\ exists /\ sent[t] < load.max
    /\ Cardinality({u \in Clients \ {t} : sent[u] > 0}) < load.clients
    /\ \E r \in load.requests :
          /\ r = "host shutdown" => \A u \in Clients : thr[u].req # r
          /\ thr' = [thr EXCEPT ![t] =
                     [Idle EXCEPT !.pc = "begin", !.req = r, !.power = power, !.eph = ephemeral]]
    /\ sent' = [sent EXCEPT ![t] = @ + 1]
    /\ down' = IF IsRunning THEN down \ {t} ELSE down \cup {t}
    /\ UNCHANGED <<lockVars, hostVars, dbVars, lxc, hook, halting, load>>

Enter(t, proc, pc) == thr' = [thr EXCEPT ![t].proc = proc, ![t].pc = pc]
Fail(t) == thr' = [thr EXCEPT ![t].pc = "return", ![t].res = "error"]

BeginStart(t) ==
    /\ At(t, "begin") /\ thr[t].req = "start"
    /\ Enter(t, "Start", "get")
    /\ UNCHANGED <<lockVars, hostVars, dbVars, lxcVars, callVars>>

\* A forced stop, or a graceful one, which first unfreezes the container.
BeginStop(t) ==
    /\ At(t, "begin") /\ thr[t].req \in {"stop", "shutdown"}
    /\ Enter(t, IF thr[t].req = "stop" THEN "Stop" ELSE "Shutdown", "check")
    /\ lxc' = IF thr[t].req = "shutdown" /\ lxc = "FROZEN" THEN "RUNNING" ELSE lxc
    /\ UNCHANGED <<lockVars, hostVars, dbVars, hook, halting, down, callVars>>

\* A restart that forgets about ephemeral containers.
BeginRestartEphemeral(t) ==
    /\ At(t, "begin") /\ thr[t].req \in Restarts
    /\ Enter(t, IF thr[t].req = "restart" THEN "Stop" ELSE "Shutdown", "check")
    /\ UNCHANGED <<lockVars, hostVars, dbVars, lxcVars, callVars>>

\* A restart takes the ephemeral flag off so that OnStop keeps the container;
\* a graceful one refuses a frozen container.
BeginRestart(t) ==
    /\ At(t, "begin") /\ thr[t].req \in Restarts
    /\ LET r == [thr[t] EXCEPT !.resetEph = thr[t].eph, !.eph = FALSE] IN
       thr' = [thr EXCEPT ![t] =
                  CASE r.req = "restart" -> [r EXCEPT !.proc = "Stop", !.pc = "check"]
                    [] r.req # "restart" /\ lxc = "FROZEN" ->
                          [r EXCEPT !.pc = "return", !.res = "error"]
                    [] OTHER -> [r EXCEPT !.proc = "Shutdown", !.pc = "check"]]
    /\ IF thr[t].eph THEN WriteBack(t, FALSE) ELSE UNCHANGED dbVars
    /\ UNCHANGED <<lockVars, hostVars, lxcVars, callVars>>

\* Freeze and Unfreeze need no operation.
BeginFreeze(t) ==
    /\ At(t, "begin") /\ thr[t].req \in {"freeze", "unfreeze"}
    /\ LET from == IF thr[t].req = "freeze" THEN "RUNNING" ELSE "FROZEN"
           to   == IF thr[t].req = "freeze" THEN "FROZEN" ELSE "RUNNING"
       IN /\ lxc' = IF lxc = from THEN to ELSE lxc
          /\ thr' = [thr EXCEPT ![t].pc = "return",
                                ![t].res = IF lxc = from THEN "ok" ELSE "error"]
    /\ UNCHANGED <<lockVars, hostVars, dbVars, hook, halting, down, callVars>>

\* containersShutdown: forget all power states, load the container, remember the
\* state it is in and stop it if it is running.
BeginHostShutdown(t) ==
    /\ At(t, "begin") /\ thr[t].req = "host shutdown"
    /\ power' = ""
    /\ thr' = [thr EXCEPT ![t].power = lxc, ![t].eph = ephemeral,
                          ![t].proc = IF IsRunning THEN "Shutdown" ELSE "none",
                          ![t].pc = IF IsRunning THEN "check" ELSE "keep"]
    /\ UNCHANGED <<lockVars, hostVars, ephemeral, exists, lxcVars, callVars>>

\* The request returns; a restart of an ephemeral container sets the flag back.
\* The daemon exits after containersShutdown.
Return(t) ==
    /\ At(t, "return")
    /\ IF thr[t].req = "host shutdown" THEN Goto(t, "exit") ELSE thr' = [thr EXCEPT ![t] = Idle]
    /\ IF thr[t].resetEph THEN WriteBack(t, TRUE) ELSE UNCHANGED dbVars
    /\ UNCHANGED <<lockVars, hostVars, lxcVars, callVars>>

\* ConfigKeySet("volatile.last_state.power", lastState) of containersShutdown.
KeepPower(t) ==
    /\ At(t, "keep")
    /\ WriteBack(t, thr[t].eph)
    /\ Goto(t, "return")
    /\ UNCHANGED <<lockVars, hostVars, lxcVars, callVars>>

---------------------------------------------------------------------------
(* createOperation, in its two critical sections                           *)

GetOperation(t) ==
    /\ At(t, "get")
    /\ LET found == registered[Self] IN
       CASE found = NoOp -> Goto(t, "insert")
         [] found # NoOp /\ thr[t].proc # "Start" /\ op[found].reusable ->
               thr' = [thr EXCEPT ![t].op = found, ![t].pc = "reset"]
         [] OTHER -> Leave(t, "error")
    /\ UNCHANGED <<lockVars, hostVars, dbVars, lxcVars, callVars>>

\* The operations that may be allocated next.
FreshOps ==
    IF InOrder THEN {CHOOSE o \in OpIds : o \notin DOMAIN op} ELSE OpIds \ DOMAIN op

InsertOperation(t) ==
    /\ At(t, "insert")
    /\ Cardinality(DOMAIN op) < load.ops
    /\ \E o \in FreshOps :
          /\ Create(Self, IF thr[t].proc = "Start" THEN "start" ELSE "stop",
                    thr[t].proc = "Shutdown", o)
          /\ thr' = [thr EXCEPT ![t].op = o,
                                ![t].pc = IF thr[t].proc = "Start" THEN "common" ELSE "act"]
    /\ UNCHANGED <<hostVars, dbVars, lxcVars, callVars>>

ResetOperation(t) ==
    /\ At(t, "reset")
    /\ Reset(thr[t].op)
    /\ Goto(t, "act")
    /\ UNCHANGED <<hostVars, dbVars, lxcVars, callVars>>

---------------------------------------------------------------------------
(* Start                                                                   *)

\* startCommon: refuse a running container, rewrite the configuration, put the
\* devices in place.
StartCommon(t) ==
    /\ At(t, "common")
    /\ \/ /\ IsRunning \/ "setup" \in load.events
          /\ thr' = [thr EXCEPT ![t].pc = "release", ![t].res = "error"]
          /\ UNCHANGED <<dbVars, devices>>
       \/ /\ ~IsRunning
          /\ WriteBack(t, thr[t].eph)
          /\ devices' = TRUE
          /\ Goto(t, "fork")
    /\ UNCHANGED <<lockVars, mounted, apparmor, lxcVars, callVars>>

\* forkstart: LXC refuses a container that is not stopped, or starts it and
\* calls the start hook.
Forkstart(t) ==
    /\ At(t, "fork")
    /\ \/ /\ IsRunning \/ "setup" \in load.events
          /\ thr' = [thr EXCEPT ![t].pc = "release", ![t].res = "error"]
          /\ UNCHANGED <<lxc, hook>>
       \/ /\ ~IsRunning
          /\ lxc' = "STARTING"
          /\ hook' = [NoHook EXCEPT !.step = "start"]
          /\ Goto(t, "forked")
    /\ UNCHANGED <<lockVars, hostVars, dbVars, halting, down, callVars>>

\* The deferred op.Done(nil) of Start.
ReleaseStart(t) ==
    /\ At(t, "release")
    /\ Done(thr[t].op, "nil")
    /\ Leave(t, thr[t].res)
    /\ UNCHANGED <<hostVars, dbVars, lxcVars, callVars>>

---------------------------------------------------------------------------
(* Stop and Shutdown                                                       *)

CheckRunning(t) ==
    /\ At(t, "check")
    /\ IF IsRunning THEN Goto(t, "get") ELSE Leave(t, "error")
    /\ UNCHANGED <<lockVars, hostVars, dbVars, lxcVars, callVars>>

\* Stop tries to freeze the container for 5 seconds and ignores the outcome.
FreezeToStop(t) ==
    /\ At(t, "act") /\ thr[t].proc = "Stop"
    /\ lxc' \in (IF lxc \in {"RUNNING", "FROZEN"} THEN {"RUNNING", "FROZEN"} ELSE {lxc})
    /\ Goto(t, "kill")
    /\ UNCHANGED <<lockVars, hostVars, dbVars, hook, halting, down, callVars>>

\* c.c.Stop(): an error completes the operation and is returned.  The monitor
\* takes the command once it is not running a hook.
KillContainer(t) ==
    /\ At(t, "kill")
    /\ \/ /\ lxc \in {"STOPPED", "STOPPING"}
          /\ Done(thr[t].op, "error")
          /\ Leave(t, "error")
          /\ UNCHANGED <<lxc, hook>>
       \/ /\ lxc = "STOPPING"
          /\ Goto(t, "wait")
          /\ UNCHANGED <<lockVars, lxc, hook>>
       \/ /\ IsRunning /\ lxc # "STOPPING" /\ hook.step = "none"
          /\ lxc' = "STOPPING"
          /\ hook' = [NoHook EXCEPT !.step = "stop"]
          /\ Goto(t, "wait")
          /\ UNCHANGED lockVars
    /\ UNCHANGED <<hostVars, dbVars, halting, down, callVars>>

\* c.c.Shutdown(): refused when stopped, else the halt signal is sent.
SignalHalt(t) ==
    /\ At(t, "act") /\ thr[t].proc = "Shutdown"
    /\ IF IsRunning
       THEN /\ halting' = TRUE
            /\ Goto(t, "await")
            /\ UNCHANGED lockVars
       ELSE /\ Done(thr[t].op, "error")
            /\ Leave(t, "error")
            /\ UNCHANGED halting
    /\ UNCHANGED <<hostVars, dbVars, lxc, hook, down, callVars>>

\* c.c.Shutdown() returns when the container is stopped or the timeout expires.
AwaitHalt(t) ==
    /\ At(t, "await")
    /\ \/ /\ ~IsRunning
          /\ Goto(t, "wait")
          /\ UNCHANGED lockVars
       \/ /\ Done(thr[t].op, "error")
          /\ Leave(t, "error")
    /\ UNCHANGED <<hostVars, dbVars, lxcVars, callVars>>

\* op.Wait(): the error counts only if the container is still running.
WaitOperation(t) ==
    /\ At(t, "wait")
    /\ thr[t].op \in closed
    /\ Leave(t, IF op[thr[t].op].err # "nil" /\ IsRunning THEN "error" ELSE "ok")
    /\ UNCHANGED <<lockVars, hostVars, dbVars, lxcVars, callVars>>

---------------------------------------------------------------------------
(* The hooks.  LXC waits for them.                                         *)

\* The container reaches STOPPED: every thread at work has seen it down, and a
\* forkstart that was waiting for it to run returns an error.
Stopped ==
    /\ lxc' = "STOPPED"
    /\ hook' = NoHook
    /\ halting' = FALSE
    /\ down' = down \cup {t \in Threads : thr[t].pc # "idle"}
    /\ thr' = [t \in Threads |->
                  IF At(t, "forked") THEN [thr[t] EXCEPT !.pc = "release", !.res = "error"]
                  ELSE thr[t]]

\* OnStart up to the power state: mount, profile, templates.  What failed is
\* undone and LXC gives up.
OnStart ==
    /\ hook.step = "start"
    /\ \/ /\ ~exists \/ "setup" \in load.events
          /\ mounted' = FALSE
          /\ apparmor' = FALSE
          /\ Stopped
       \/ /\ exists
          /\ mounted' = TRUE
          /\ apparmor' = TRUE
          /\ hook' = [hook EXCEPT !.step = "started"]
          /\ UNCHANGED <<lxc, halting, down, thr>>
    /\ UNCHANGED <<lockVars, devices, dbVars, callVars>>

\* The end of OnStart records RUNNING; nothing is undone when that fails.
OnStartRecord ==
    /\ hook.step = "started"
    /\ \/ /\ power' = "RUNNING"
          /\ hook' = NoHook
          /\ UNCHANGED <<lxc, halting, down, thr>>
       \/ /\ "db" \in load.events
          /\ Stopped
          /\ UNCHANGED power
    /\ UNCHANGED <<lockVars, hostVars, ephemeral, exists, callVars>>

\* OnStop looks up the operation; a start operation, or a container that has
\* been deleted, makes the hook fail.
OnStop ==
    /\ hook.step = "stop"
    /\ LET found == registered[Self] IN
       IF ~exists \/ (found # NoOp /\ op[found].action # "stop")
       THEN Stopped
       ELSE /\ hook' = [hook EXCEPT !.step = "storage", !.op = found]
            /\ UNCHANGED <<lxc, halting, down, thr>>
    /\ UNCHANGED <<lockVars, hostVars, dbVars, callVars>>

\* OnStop stops the storage and leaves the rest to a goroutine, which holds the
\* operation found and the container as loaded for the hook.
OnStopStorage ==
    /\ hook.step = "storage"
    /\ \/ /\ mounted' = FALSE
          /\ hook' = NoHook
          /\ \E t \in Cleaners :
                /\ At(t, "idle")
                /\ thr' = [thr EXCEPT ![t] =
                      [Idle EXCEPT !.pc = "settle", !.req = hook.target,
                                   !.caught = hook.op, !.power = power, !.eph = ephemeral]]
          /\ UNCHANGED <<lockVars, lxc, halting, down>>
       \/ /\ "unmount" \in load.events
          /\ IF hook.op # NoOp THEN Done(hook.op, "error") ELSE UNCHANGED lockVars
          /\ Stopped
          /\ UNCHANGED mounted
    /\ UNCHANGED <<devices, apparmor, dbVars, callVars>>

---------------------------------------------------------------------------
(* The goroutine of OnStop                                                 *)

\* c.IsRunning(): waits for LXC to leave its post-stop work, for 5 seconds.
Settle(t) ==
    /\ At(t, "settle")
    /\ lxc # "STOPPING" \/ "hang" \in load.events
    /\ Goto(t, "clean")
    /\ UNCHANGED <<lockVars, hostVars, dbVars, lxcVars, callVars>>

\* The goroutine that also stops the storage, after the hook has returned.
CleanUnmounting(t) ==
    /\ At(t, "clean")
    /\ mounted' = FALSE /\ apparmor' = FALSE /\ devices' = FALSE
    /\ thr' = [thr EXCEPT ![t].pc = IF thr[t].req = "reboot" THEN "get" ELSE "record",
                          ![t].proc = IF thr[t].req = "reboot" THEN "Start" ELSE "none"]
    /\ UNCHANGED <<lockVars, dbVars, lxcVars, callVars>>

\* AADestroy, removeUnixDevices, removeDiskDevices; then reboot or record.
Clean(t) ==
    /\ At(t, "clean")
    /\ apparmor' = FALSE
    /\ devices' = FALSE
    /\ thr' = [thr EXCEPT ![t].pc = IF thr[t].req = "reboot" THEN "get" ELSE "record",
                          ![t].proc = IF thr[t].req = "reboot" THEN "Start" ELSE "none"]
    /\ UNCHANGED <<lockVars, mounted, dbVars, lxcVars, callVars>>

\* The goroutine that skips the power state.
RecordNothing(t) ==
    /\ At(t, "record")
    /\ Goto(t, IF thr[t].eph THEN "delete" ELSE "unlock")
    /\ UNCHANGED <<lockVars, hostVars, dbVars, lxcVars, callVars>>

\* ContainerSetState("STOPPED"), then the deletion of an ephemeral container.
RecordStopped(t) ==
    /\ At(t, "record")
    /\ power' = "STOPPED"
    /\ Goto(t, IF thr[t].eph THEN "delete" ELSE "unlock")
    /\ UNCHANGED <<lockVars, hostVars, ephemeral, exists, lxcVars, callVars>>

\* c.Delete() of an ephemeral container.
DeleteEphemeral(t) ==
    /\ At(t, "delete")
    /\ exists' = FALSE
    /\ Goto(t, "unlock")
    /\ UNCHANGED <<lockVars, hostVars, power, ephemeral, lxcVars, callVars>>

\* The goroutine deleting the map entry instead of completing the operation.
UnlockByDelete(t) ==
    /\ At(t, "unlock")
    /\ registered' = IF thr[t].caught # NoOp THEN [registered EXCEPT ![Self] = NoOp] ELSE registered
    /\ thr' = [thr EXCEPT ![t] = Idle]
    /\ UNCHANGED <<op, closed, timers, hostVars, dbVars, lxcVars, callVars>>

\* The deferred op.Done(err), whose argument was evaluated when err was nil.
Unlock(t) ==
    /\ At(t, "unlock")
    /\ IF thr[t].caught # NoOp THEN Done(thr[t].caught, "nil") ELSE UNCHANGED lockVars
    /\ thr' = [thr EXCEPT ![t] = Idle]
    /\ UNCHANGED <<hostVars, dbVars, lxcVars, callVars>>

---------------------------------------------------------------------------
(* LXC, the guest and the clock                                            *)

LxcRunning ==
    /\ lxc = "STARTING" /\ hook.step = "none"
    /\ lxc' = "RUNNING"
    /\ thr' = [t \in Threads |->
                  IF At(t, "forked") THEN [thr[t] EXCEPT !.pc = "release", !.res = "ok"]
                  ELSE thr[t]]
    /\ UNCHANGED <<lockVars, hostVars, dbVars, hook, halting, down, callVars>>

\* The stop hook has returned.
LxcStopped ==
    /\ lxc = "STOPPING" /\ hook.step = "none"
    /\ Stopped
    /\ UNCHANGED <<lockVars, hostVars, dbVars, callVars>>

GoDown(target) ==
    /\ lxc' = "STOPPING"
    /\ hook' = [NoHook EXCEPT !.step = "stop", !.target = target]
    /\ UNCHANGED <<lockVars, hostVars, dbVars, halting, down, thr, callVars>>

LxcCrash == lxc = "STARTING" /\ hook.step = "none" /\ "crash" \in load.events /\ GoDown("stop")
GuestHalt == lxc = "RUNNING" /\ halting /\ GoDown("stop")
GuestPoweroff == lxc = "RUNNING" /\ "poweroff" \in load.events /\ GoDown("stop")

\* Bound: the guest reboots only while operations are left for the start that
\* follows and for the clients.
RebootBound == Cardinality(DOMAIN op) + load.clients < load.ops
GuestReboot == lxc = "RUNNING" /\ "reboot" \in load.events /\ RebootBound /\ GoDown("reboot")

\* The timer goroutine returning without calling Done.
TimeoutSilent(o) ==
    /\ "timeout" \in load.events
    /\ o \in timers
    /\ timers' = timers \ {o}
    /\ UNCHANGED <<registered, op, closed, hostVars, dbVars, lxcVars, thr, callVars>>

Timeout(o) ==
    /\ "timeout" \in load.events
    /\ TimedOut(o)
    /\ UNCHANGED <<hostVars, dbVars, lxcVars, thr, callVars>>

---------------------------------------------------------------------------

Begin(t) == BeginStart(t) \/ BeginStop(t) \/ BeginRestart(t) \/ BeginFreeze(t) \/ BeginHostShutdown(t)
CreateOperation(t) == GetOperation(t) \/ InsertOperation(t) \/ ResetOperation(t)
Start(t) == StartCommon(t) \/ Forkstart(t) \/ ReleaseStart(t)
Stop(t) == CheckRunning(t) \/ FreezeToStop(t) \/ KillContainer(t) \/ WaitOperation(t)
Shutdown(t) == SignalHalt(t) \/ AwaitHalt(t)
Cleanup(t) == Settle(t) \/ Clean(t) \/ RecordStopped(t) \/ DeleteEphemeral(t) \/ Unlock(t)

\* What a goroutine does next, whichever goroutine it is.
Run(t) ==
    Begin(t) \/ CreateOperation(t) \/ Start(t) \/ Stop(t) \/ Shutdown(t) \/ Cleanup(t)
    \/ KeepPower(t) \/ Return(t)

Hooks == OnStart \/ OnStartRecord \/ OnStop \/ OnStopStorage
Lxc   == LxcRunning \/ LxcStopped \/ LxcCrash
Guest == GuestHalt \/ GuestPoweroff \/ GuestReboot

Next ==
    \/ \E t \in Clients : Request(t)
    \/ \E t \in Threads : Run(t)
    \/ Hooks \/ Lxc \/ Guest
    \/ \E o \in OpIds : Timeout(o)

\* Goroutines run, hooks and LXC answer, timers fire.  Nothing is asked of the
\* guest: a Shutdown it ignores ends by its own timeout.
Fairness ==
    /\ \A t \in Threads : WF_vars(Run(t))
    /\ WF_vars(Hooks) /\ WF_vars(LxcRunning \/ LxcStopped)
    /\ \A o \in OpIds : WF_vars(Timeout(o))

Spec == Init /\ [][Next]_vars
FairSpec == Spec /\ Fairness

---------------------------------------------------------------------------
(* Properties *)

\* The container uses the operation lock the way ContainerOps allows, so the
\* properties proved of the lock hold in the daemon.
ImplementsLock == LockSpec

\* A container that runs has its storage mounted: whatever the order of stop
\* hooks, goroutines and new starts, no StorageStop hits a later start.
MountedWhileRunning == lxc \in {"RUNNING", "FROZEN"} => mounted

\* Requests come one after the other and no guest reboots by itself, so that no two
\* of them start the container at once.
Alone == load.clients = 1 /\ "reboot" \notin load.events

\* Requests come one after the other, the guest does nothing by itself and nothing
\* fails; none asks the guest to halt, which it may do long after the request has
\* given up, when a later one has started something else.
Undisturbed ==
    load.clients = 1 /\ load.events = {} /\ load.requests \cap {"shutdown", "graceful restart"} = {}

\* A running container has its devices and its AppArmor profile: the goroutine
\* of an earlier OnStop is done with them before the container starts again.
EquippedWhileRunning ==
    Undisturbed /\ lxc \in {"RUNNING", "FROZEN"} => devices /\ apparmor

\* The stop found the operation of a Shutdown and waits for that one.
Joined(t) == op[thr[t].op].reusable

\* A shutdown that reports success has really seen the container down, and so has
\* a stop with an operation of its own.  The exceptions: the goroutine of OnStop
\* completes the operation without waiting for a monitor that does not answer; and
\* a stop that joined a Shutdown is told of that one's success, although a start
\* that had got past createOperation may have run the container again meanwhile.
StopMeansStopped ==
    \A t \in Clients :
        At(t, "return") /\ thr[t].req \in {"stop", "shutdown"} /\ thr[t].res = "ok"
            => t \in down \/ (thr[t].req = "stop" /\ (Joined(t) \/ "hang" \in load.events))

\* No goroutine, hook or guest event is under way, and none has disturbed the
\* requests so far.
Quiescent ==
    /\ Undisturbed
    /\ \A t \in Threads : At(t, "idle")
    /\ hook = NoHook /\ ~halting
    /\ lxc \in {"STOPPED", "RUNNING", "FROZEN"}

\* When everything is quiet the database says RUNNING exactly for a container that
\* runs, which is what the next start of the daemon goes by.
PowerStateRecorded ==
    Quiescent /\ exists => (power = "RUNNING" <=> IsRunning)

\* When everything is quiet a stopped container has been unmounted and holds no
\* devices and no profile.
ReleasedWhenStopped ==
    Quiescent /\ ~IsRunning => ~mounted /\ ~devices /\ ~apparmor

\* An ephemeral container does not survive its own stop.
EphemeralDestroyed ==
    Quiescent /\ exists /\ ephemeral => IsRunning

\* A restart, which stops the container, does not destroy an ephemeral one.  Beside
\* another request's stop it may: that one read the flag before the restart took it
\* off.
EphemeralSurvivesRestart ==
    Undisturbed => \A t \in Clients : thr[t].req \in Restarts => exists

\* containersShutdown leaves the container stopped or going down, frozen and
\* unresponsive guests included, unless a start is under way: it neither waits for
\* that nor takes its operation.
HostShutdownStops ==
    Alone => \A t \in Clients :
        thr[t].req = "host shutdown" /\ At(t, "return") => lxc \in {"STOPPED", "STOPPING"}

\* Every request ends, and so does the shutdown of the host, because operations
\* time out.
RequestsReturn ==
    \A t \in Clients :
        ~At(t, "idle") /\ "timeout" \in load.events ~> (At(t, "idle") \/ At(t, "exit"))

\* While two requests, their hooks and goroutines and the guest interleave: a
\* container that runs is mounted, and a stop that reports success has stopped it.
LifecycleInv == TypeOK /\ MountedWhileRunning /\ StopMeansStopped

\* Once requests and goroutines have settled, what the daemon recorded and holds on
\* the host is what the container's real state calls for.
SettledInv == PowerStateRecorded /\ EquippedWhileRunning /\ ReleasedWhenStopped

\* An ephemeral container goes with its own stop, and with no restart.
EphemeralFate == EphemeralDestroyed /\ EphemeralSurvivesRestart
=============================================================================
