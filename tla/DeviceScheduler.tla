--------------------------- MODULE DeviceScheduler ---------------------------
(* The scheduler of lxd/devices.go: one goroutine that, woken by container   *)
(* and cpu hotplug events, spreads the running containers over the online    *)
(* cpus. It reads the limits.cpu of every container from the database, hands *)
(* out the cpus and then writes the cpusets.                                 *)
EXTENDS Naturals, FiniteSets, FiniteSetsExt, Functions

CONSTANTS Cpus,      \* ids of the host's cpus
          MaxQueue   \* length of the deviceSchedRebalance channel

ASSUME SchedulerAssumption ==
  /\ Cpus \subseteq Nat /\ IsFiniteSet(Cpus) /\ Cpus # {}
  /\ MaxQueue \in Nat \ {0}

VARIABLES online,    \* the cpus that are online
          events,    \* events waiting in deviceSchedRebalance
          hotplug,   \* cpu events waiting in the netlink channel: 0 or 1
          sched,     \* what the goroutine is doing
          pins       \* container -> its cpuset.cpus

schedVars == <<online, events, hotplug, sched, pins>>

(* Values of limits.cpu: unset, a number of cpus, or a list of cpus.         *)
NoLimit == [kind |-> "none"]
Count(n) == [kind |-> "count", n |-> n]
Pin(S) == [kind |-> "pin", cpus |-> S]
IsLimit(limit) == \/ limit = NoLimit
                  \/ limit.kind = "count" /\ limit.n \in Nat
                  \/ limit.kind = "pin"

(* Without a limit a container is pinned to the list of all cpus. That list, *)
(* when it is a single id, reads as a number of cpus.                        *)
cpulimit(limit) ==
  CASE limit.kind # "none" -> limit
    [] limit.kind = "none" /\ Cardinality(online) = 1 -> Count(CHOOSE i \in online : TRUE)
    [] OTHER -> Pin(online)

Asleep == [phase |-> "idle", fixed |-> {}, todo |-> <<>>, load |-> <<>>, pinning |-> <<>>]

(* Mutant: the channel holds no event while the scheduler is busy.           *)
TriggerWhenIdle == events' = IF sched.phase = "idle" THEN 1 ELSE events

(* An event that finds the channel full is dropped.                          *)
deviceTaskSchedulerTrigger == events' = Min({events + 1, MaxQueue})

deviceNetlinkListener ==
  /\ \E S \in (SUBSET Cpus) \ {{}} :
       S # online /\ (S \subseteq online \/ online \subseteq S) /\ online' = S
  /\ hotplug' = 1
  /\ UNCHANGED <<events, sched, pins>>

(* deviceTaskBalance reads the limits of the running containers and pins the *)
(* ones that name their cpus; the others wait for their share.               *)
Read(limits) ==
  /\ sched.phase = "idle"
  /\ \/ hotplug = 1 /\ hotplug' = 0 /\ UNCHANGED events
     \/ events > 0 /\ events' = events - 1 /\ UNCHANGED hotplug
  /\ LET fixed == {c \in DOMAIN limits : cpulimit(limits[c]).kind = "pin"}
         listed(c) == cpulimit(limits[c]).cpus \cap online
     IN sched' = [phase |-> "balance", fixed |-> fixed,
                  todo |-> [c \in DOMAIN limits \ fixed |->
                              Min({cpulimit(limits[c]).n, Cardinality(online)})],
                  load |-> [i \in online |-> Cardinality({c \in fixed : i \in listed(c)})],
                  pinning |-> [c \in {d \in fixed : listed(d) # {}} |-> listed(c)]]
  /\ UNCHANGED <<online, pins>>

(* Any n cpus of which none is busier than one left out.                     *)
LeastLoaded(load, n) ==
  {S \in SUBSET DOMAIN load :
     Cardinality(S) = n /\ \A i \in S, j \in DOMAIN load \ S : load[i] <= load[j]}

(* One container, in the order of a Go map, is given its cpus.               *)
Balance(c) ==
  /\ sched.phase = "balance" /\ c \in DOMAIN sched.todo
  /\ \E S \in LeastLoaded(sched.load, sched.todo[c]) :
       sched' = [sched EXCEPT
         !.todo = Restrict(@, DOMAIN @ \ {c}),
         !.load = [i \in DOMAIN @ |-> IF i \in S THEN @[i] + 1 ELSE @[i]],
         !.pinning = [d \in DOMAIN @ \cup (IF S = {} THEN {} ELSE {c}) |-> IF d = c THEN S ELSE @[d]]]
  /\ UNCHANGED <<online, events, hotplug, pins>>

(* The cpusets of the containers that still run are written.                 *)
SetPinning(running) ==
  /\ sched.phase = "balance" /\ sched.todo = <<>>
  /\ pins' = [c \in DOMAIN pins |->
                IF c \in running \cap DOMAIN sched.pinning THEN sched.pinning[c] ELSE pins[c]]
  /\ sched' = Asleep
  /\ UNCHANGED <<online, events, hotplug>>

SchedIdle == sched.phase = "idle" /\ events = 0 /\ hotplug = 0

(* The balancing is fair, whatever the order and beside whatever is pinned:  *)
(* a container that was given cpu i and not cpu j has not left i with two    *)
(* containers more than j.                                                   *)
BalancedFairly ==
  \A c \in DOMAIN sched.pinning \ sched.fixed :
    \A i \in sched.pinning[c], j \in DOMAIN sched.load \ sched.pinning[c] :
      sched.load[i] <= sched.load[j] + 1
=============================================================================
