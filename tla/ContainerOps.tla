--------------------------- MODULE ContainerOps ---------------------------
(***************************************************************************)
(* The per-container operation lock of lxd/container_lxc.go: the map       *)
(* lxcContainerOperations, the lxcContainerOperation structs it points to  *)
(* and the 30 second timer goroutine each of them owns.                    *)
(*                                                                         *)
(* The module fixes what the lock does and leaves its callers arbitrary:   *)
(* LockNext lets any caller create an operation at any moment, finish any  *)
(* operation it ever got hold of, or reset it.  ContainerLifecycle         *)
(* supplies the callers of the daemon and implements this specification.   *)
(***************************************************************************)
CONSTANTS
    Containers,  \* container ids
    OpIds,       \* addresses of lxcContainerOperation structs, never reused
    NoOp         \* the nil *lxcContainerOperation

ASSUME NoOpAssumption == NoOp \notin OpIds

Actions == {"start", "stop"}
Errors  == {"nil", "timeout", "error"}

VARIABLES
    registered,  \* lxcContainerOperations: the operation each container runs
    op,          \* the structs allocated so far: id, action, reusable and err
    closed,      \* operations whose chanDone is closed
    timers       \* operations whose timer goroutine is still in its loop

lockVars == <<registered, op, closed, timers>>

OpRecord == [id : Containers, action : Actions, reusable : BOOLEAN, err : Errors]

\* Operations allocated so far.
created == DOMAIN op

\* The operation is the one the map holds for its container.
IsRegistered(o) == o \in created /\ registered[op[o].id] = o

\* Every variable has its type; only allocated operations are registered,
\* closed or timed.
LockTypeOK ==
    /\ created \subseteq OpIds
    /\ op \in [created -> OpRecord]
    /\ registered \in [Containers -> created \cup {NoOp}]
    /\ closed \subseteq created
    /\ timers \subseteq created

LockInit ==
    /\ registered = [c \in Containers |-> NoOp]
    /\ op = [o \in {} |-> NoOp]
    /\ closed = {}
    /\ timers = {}

---------------------------------------------------------------------------
(* The operations of the lock.  Each one is a critical section of          *)
(* lxcContainerOperationsLock, so it is a single step.                     *)

\* The second half of createOperation: allocate, start the timer goroutine and
\* store into the map.  Nothing is looked up again: an entry that appeared since
\* the caller's getOperation is overwritten.
Create(c, action, reusable, o) ==
    /\ o \in OpIds \ created
    /\ op' = [x \in created \cup {o} |->
                 IF x = o THEN [id |-> c, action |-> action,
                                reusable |-> reusable, err |-> "nil"]
                 ELSE op[x]]
    /\ registered' = [registered EXCEPT ![c] = o]
    /\ timers' = timers \cup {o}
    /\ UNCHANGED closed

\* Done that finds some operation in the map and does not compare it with its own.
CompleteAnyEntry(o, err) ==
    IF registered[op[o].id] # NoOp
    THEN /\ op' = [op EXCEPT ![o].err = err]
         /\ closed' = closed \cup {o}
         /\ registered' = [registered EXCEPT ![op[o].id] = NoOp]
    ELSE UNCHANGED <<op, closed, registered>>

\* Done that forgets to delete the map entry.
CompleteKeepingEntry(o, err) ==
    IF registered[op[o].id] = o
    THEN /\ op' = [op EXCEPT ![o].err = err]
         /\ closed' = closed \cup {o}
         /\ UNCHANGED registered
    ELSE UNCHANGED <<op, closed, registered>>

\* Done(err): only the operation the map still points to is completed.
Complete(o, err) ==
    IF registered[op[o].id] = o
    THEN /\ op' = [op EXCEPT ![o].err = err]
         /\ closed' = closed \cup {o}
         /\ registered' = [registered EXCEPT ![op[o].id] = NoOp]
    ELSE UNCHANGED <<op, closed, registered>>

Done(o, err) ==
    /\ o \in created
    /\ Complete(o, err)
    /\ UNCHANGED timers

\* Reset(): a rendezvous with the timer goroutine, which restarts its 30
\* seconds.  It cannot complete once that goroutine has returned.
Reset(o) ==
    /\ o \in created
    /\ op[o].reusable
    /\ o \in timers
    /\ UNCHANGED lockVars

\* The timer goroutine returning without calling Done.
TimedOutSilently(o) ==
    /\ o \in timers
    /\ timers' = timers \ {o}
    /\ UNCHANGED <<registered, op, closed>>

\* The timer goroutine: 30 seconds without a Reset.
TimedOut(o) ==
    /\ o \in timers
    /\ Complete(o, "timeout")
    /\ timers' = timers \ {o}

CreateAny ==
    \E c \in Containers, a \in Actions, r \in BOOLEAN, o \in OpIds : Create(c, a, r, o)
DoneAny == \E o \in OpIds, e \in {"nil", "error"} : Done(o, e)
ResetAny == \E o \in OpIds : Reset(o)
TimeoutAny == \E o \in OpIds : TimedOut(o)

LockNext == CreateAny \/ DoneAny \/ ResetAny \/ TimeoutAny

\* The Go runtime fires every timer: the timer goroutine is the only
\* participant whose progress does not depend on a caller.  (A caller that kept
\* resetting the same operation for ever would postpone it for ever; every
\* Reset of the daemon belongs to one API request.)
LockFairness == \A o \in OpIds : WF_lockVars(TimedOut(o))

LockSpec == LockInit /\ [][LockNext]_lockVars
FairLockSpec == LockSpec /\ LockFairness

---------------------------------------------------------------------------
(* Properties *)

\* What the map holds for a container is an operation of that container that has
\* not been completed, so the close(op.chanDone) in Done never closes a closed
\* channel (a panic of the daemon) however callers and timers interleave.
RegisteredIsOpen ==
    \A c \in Containers :
        registered[c] # NoOp => registered[c] \notin closed /\ op[registered[c]].id = c

\* A registered operation still has its timer goroutine: whatever its caller
\* does or forgets, something is left that will call Done and free the container.
RegisteredHasTimer ==
    \A c \in Containers : registered[c] # NoOp => registered[c] \in timers

\* The invariant of the lock, which every critical section preserves: what is
\* registered is open, belongs to its container and still has its timer.
LockInv == LockTypeOK /\ RegisteredIsOpen /\ RegisteredHasTimer

\* Once Done has completed an operation, later calls of Done by the owner, by
\* OnStop or by the timer change neither its result nor that it is completed:
\* every Wait sees the same outcome.
CompletedOnce ==
    [][\A o \in closed : o \in closed' /\ op'[o] = op[o]]_lockVars

\* A container's entry goes away only by completing the very operation that held
\* it: a stale Done (of an operation that timed out) never frees its successor.
FreedByItsOwner ==
    [][\A c \in Containers :
          registered[c] # NoOp /\ registered'[c] = NoOp => registered[c] \in closed' \ closed]_lockVars

\* No operation holds a container for ever, even when its caller never calls Done.
HeldContainerIsFreed ==
    \A o \in OpIds : IsRegistered(o) ~> ~IsRegistered(o)
=============================================================================
