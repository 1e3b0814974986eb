--------------------------- MODULE ContainerUpdate ---------------------------
(* The update of a container's configuration and devices, by itself or by a  *)
(* change to a profile it uses (containerLXC.Update, doProfileUpdate), beside *)
(* the scheduler and beside starts and stops of the container. Update        *)
(* validates, changes its own copy, applies the difference to the running    *)
(* container and stores the new configuration last. Requests about the       *)
(* container are served one at a time.                                       *)
EXTENDS DeviceScheduler, Sequences, SequencesExt, TLC

CONSTANTS Puts,           \* what clients ask for: [config, devices, uses, sends]
          ProfilePuts,    \* and for the profile: [config, devices]
          Others,         \* the other running containers -> their limits.cpu
          MaxRequests,
          MaxUpsets       \* steps that fail and cpus that come or go

VARIABLES stored,         \* the container's rows: its own config, devices, nic names, profile
          profile,        \* the profile's rows
          running, live,  \* the running container, and what was applied to it
          nodes,          \* device nodes and mounts in the container's devices directory
          quota,          \* the size set on the root volume
          up,             \* the request
          drift,          \* "live": an update has failed or a start come during it, since the
                          \* last start; "quota": an update has failed; "names": a nic got its
                          \* name while others' names were left out
          early,          \* the scheduler read limits.cpu when an update would not wake it any
                          \* more and had not stored its own yet
          served, harm, plugged

vars == <<online, events, hotplug, sched, pins, stored, profile, running, live, nodes, quota,
          up, drift, early, served, harm, plugged>>

Self == "self"

Or(f, k, default) == IF k \in DOMAIN f THEN f[k] ELSE default
One(k, v) == [n \in {k} |-> v]
Over(f, g) == [k \in DOMAIN f \cup DOMAIN g |-> IF k \in DOMAIN f THEN f[k] ELSE g[k]]

(* The container's own entries on top of the profile's.                      *)
expandConfig(c) == IF c.uses THEN Over(c.config, profile.config) ELSE c.config
expandDevices(c) == IF c.uses THEN Over(c.devices, profile.devices) ELSE c.devices

IsRoot(d) == d.type = "disk" /\ d.at = "/"
Nics(devices) == {n \in DOMAIN devices : devices[n].type = "nic"}
Plugged(devices) == {n \in DOMAIN devices : devices[n].type # "nic" /\ ~IsRoot(devices[n])}
Node(d) == <<d.type, d.at>>
RootSize(devices) ==
  IF \E n \in DOMAIN devices : IsRoot(devices[n])
  THEN devices[CHOOSE n \in DOMAIN devices : IsRoot(devices[n])].size ELSE 0

(* One device per disk path, in each list; a single root in the expanded one. *)
containerValidDevices(devices, expanded) ==
  /\ ~expanded => \A m, n \in DOMAIN devices :
       devices[m].type = "disk" /\ devices[n].type = "disk" /\ devices[m].at = devices[n].at => m = n
  /\ expanded => Cardinality({n \in DOMAIN devices : IsRoot(devices[n])}) = 1

Unlimited == 1000

(* The keys that an update applies to a running container, and the devices.  *)
IsConfig(config) ==
  /\ DOMAIN config \subseteq {"limits.cpu", "limits.memory", "limits.processes"}
  /\ "limits.cpu" \in DOMAIN config => IsLimit(config["limits.cpu"])
  /\ "limits.memory" \in DOMAIN config => config["limits.memory"] \in 0..(Unlimited - 1)

IsDevice(d) ==
  /\ d = [type |-> d.type, at |-> d.at, limit |-> d.limit, size |-> d.size]
  /\ d.type \in {"nic", "disk", "unix"} /\ d.limit \in Nat

IsDevices(devices) ==
  /\ devices = [n \in DOMAIN devices |-> devices[n]] /\ IsFiniteSet(DOMAIN devices)
  /\ \A n \in DOMAIN devices : IsDevice(devices[n])

ASSUME UpdateAssumption ==
  /\ \A put \in Puts \cup ProfilePuts : IsConfig(put.config) /\ IsDevices(put.devices)
  /\ \A put \in Puts : put.uses \in BOOLEAN /\ put.sends \in BOOLEAN
  /\ IsFiniteSet(DOMAIN Others) /\ \A c \in DOMAIN Others : IsLimit(Others[c])
  /\ "self" \notin DOMAIN Others

Empty == [processes |-> 0, limit |-> Unlimited, memsw |-> Unlimited, mounts |-> {}, nics |-> <<>>, io |-> {}]
-----------------------------------------------------------------------------
(* The copy of the container a request works on.                             *)
containerLoadByName ==
  [config |-> stored.config, devices |-> stored.devices, names |-> stored.names, uses |-> stored.uses]

(* The first free interface name.                                            *)
NextName(names) ==
  LET taken == Range(names) \cup (IF running THEN DOMAIN live.nics ELSE {})
  IN CHOOSE i \in 0..Cardinality(taken) :
       i \notin taken /\ \A j \in 0..Cardinality(taken) : j \notin taken => i <= j

(* Mutant: a name that is in the database already is not looked at.          *)
FillAnew(at, n) ==
  IF n \in DOMAIN at.names THEN at
  ELSE [names |-> Over(at.names, One(n, NextName(at.names))),
        rows |-> Over(One(n, NextName(at.names)), at.rows)]

(* A nic without a name in the copy is given the next one, which is stored   *)
(* at once; when the database has one for it already, that one is taken.     *)
fillNetworkDevice(at, n) ==
  IF n \in DOMAIN at.names THEN at
  ELSE LET name == Or(at.rows, n, NextName(at.names))
       IN [names |-> Over(at.names, One(n, name)), rows |-> Over(at.rows, One(n, name))]

(* The nics are filled in one after the other.                               *)
Filled(names, rows, nics) ==
  LET order == SetToSeq(nics)
      fill[k \in 0..Cardinality(nics)] ==
        IF k = 0 THEN [names |-> names, rows |-> rows] ELSE fillNetworkDevice(fill[k - 1], order[k])
  IN fill[Cardinality(nics)]

(* initLXC fills in the nics in the order of their names.                    *)
initLXC(c) ==
  LET at == Filled(c.names, stored.names, Nics(expandDevices(c)))
  IN [c |-> [c EXCEPT !.names = at.names], rows |-> at.rows]
-----------------------------------------------------------------------------
(* types.Devices.Update: what is removed, added, or differs in limits only.  *)
Diff(old, new) ==
  LET changed == {n \in DOMAIN old \cup DOMAIN new :
                    n \notin DOMAIN old \/ n \notin DOMAIN new \/ old[n] # new[n]}
      updated == {n \in changed \cap DOMAIN old \cap DOMAIN new :
                    [old[n] EXCEPT !.limit = 0] = [new[n] EXCEPT !.limit = 0]}
  IN [rm |-> (changed \cap DOMAIN old) \ updated,
      add |-> (changed \cap DOMAIN new) \ updated,
      upd |-> updated]

(* The keys of the device that was looked at last.                           *)
updateDiff(old, new, n) ==
  IF n \notin DOMAIN old THEN (IF new[n].limit # 0 THEN {"type", "limit"} ELSE {"type"})
  ELSE {k \in {"type", "at", "size", "limit"} : old[n][k] # new[n][k]}

Do(do, x, v) == [do |-> do, x |-> x, v |-> v]

(* The live application of a configuration key.                              *)
ApplyMemory(value) ==
  LET memory == IF value = 0 THEN Unlimited ELSE value
  IN <<Do("memory", "memsw", Unlimited), Do("memory", "limit", Unlimited), Do("memory", "soft", Unlimited),
       Do("memory", "limit", memory), Do("memory", "memsw", memory), Do("memory", "soft", memory)>>

LiveConfig(key, config) ==
  CASE key = "limits.memory" -> ApplyMemory(Or(config, key, 0))
    [] key = "limits.cpu" -> <<Do("trigger", key, 0)>>
    [] key = "limits.processes" -> <<Do("cgroup", key, Or(config, key, 0))>>

(* A device is made on the host and mounted, or attached, in the container.  *)
createUnixDevice(n, d) == Do("node", n, d)
createDiskDevice(n, d) == Do("node", n, d)
createNetworkDevice(n, d) == Do("create", n, d)
insertMount(n, d) == Do("mount", n, d)
removeMount(n, d) == Do("umount", n, d)

insertUnixDevice(n, d) == <<createUnixDevice(n, d), insertMount(n, d)>>
insertDiskDevice(n, d) == <<createDiskDevice(n, d), insertMount(n, d)>>
insertNetworkDevice(n, d) == <<createNetworkDevice(n, d), Do("attach", n, d)>>

removeUnixDevice(n, d) == <<removeMount(n, d), Do("unnode", n, d)>>
removeDiskDevice(n, d) == <<removeMount(n, d), Do("unnode", n, d)>>
removeNetworkDevice(n, d) == <<Do("detach", n, d)>>

setNetworkLimits(n, d) == <<Do("tc", n, d)>>

(* The limit of each disk's block device, of all disks at once.              *)
getDiskLimits(devices) ==
  LET disks == {n \in DOMAIN devices : devices[n].type = "disk" /\ devices[n].limit > 0}
  IN {<<devices[n].at, devices[n].limit>> : n \in disks}

(* The disks of a list one after the other, by path.                         *)
addDiskDevices(disks, new) ==
  LET byPath == SetToSeq(disks)
      inserted == [n \in disks |-> insertDiskDevice(n, new[n])]
  IN [i \in 1..(2 * Cardinality(disks)) |-> inserted[byPath[(i + 1) \div 2]][2 - (i % 2)]]

(* What differs, of the configuration keys.                                  *)
ChangedKeys(old, new) ==
  {k \in DOMAIN old \cup DOMAIN new : ~(k \in DOMAIN old \cap DOMAIN new /\ old[k] = new[k])}

DevicesOf(S, list, type) == {n \in S : list[n].type = type /\ ~IsRoot(list[n])}

(* The live changes: groups one after the other, the changes of a group in   *)
(* any order. The keys of one of the devices that differ are looked at: the  *)
(* last one of a Go map.                                                     *)
LiveSteps(old, oldConfig, new, newConfig, looked) ==
  LET d == Diff(old, new)
      disks == DevicesOf(d.add, new, "disk")
      needsUpdate == \E n \in looked : "limit" \in updateDiff(old, new, n)
  IN <<{LiveConfig(k, newConfig) : k \in ChangedKeys(oldConfig, newConfig)},
       {removeUnixDevice(n, old[n]) : n \in DevicesOf(d.rm, old, "unix")}
         \cup {removeDiskDevice(n, old[n]) : n \in DevicesOf(d.rm, old, "disk")}
         \cup {removeNetworkDevice(n, old[n]) : n \in DevicesOf(d.rm, old, "nic")},
       {insertUnixDevice(n, new[n]) : n \in DevicesOf(d.add, new, "unix")}
         \cup {insertNetworkDevice(n, new[n]) : n \in DevicesOf(d.add, new, "nic")},
       IF disks = {} THEN {} ELSE {addDiskDevices(disks, new)},
       {setNetworkLimits(n, new[n]) : n \in {m \in DevicesOf(d.upd, new, "nic") : needsUpdate}},
       {<<Do("io", n, getDiskLimits(new))>> : n \in {m \in d.upd : new[m].type = "disk"}}>>
-----------------------------------------------------------------------------
NoUpdate == [phase |-> "idle"]
Quiet == up.phase = "idle"

Loaded(args) ==
  [phase |-> "validate", args |-> args, c |-> containerLoadByName,
   config |-> expandConfig(containerLoadByName), devices |-> expandDevices(containerLoadByName),
   newConfig |-> <<>>, newDevices |-> <<>>, mem |-> <<>>,
   group |-> <<>>, doing |-> <<>>, settled |-> FALSE]

Kept == <<online, hotplug, sched, pins, plugged>>

(* A client may or may not send back the nic names it was shown.             *)
containerPut ==
  /\ Quiet /\ served < MaxRequests /\ served' = served + 1
  /\ \E put \in Puts :
       up' = Loaded([config |-> put.config, devices |-> put.devices, uses |-> put.uses,
                     names |-> IF put.sends THEN stored.names ELSE <<>>])
  /\ UNCHANGED <<stored, profile, running, live, nodes, quota, drift, early, harm, events, Kept>>

(* Mutant: the containers are loaded once the profile has changed.           *)
profilePutFirst ==
  /\ Quiet /\ served < MaxRequests /\ served' = served + 1
  /\ \E put \in ProfilePuts :
       /\ profile' = put
       /\ up' = IF stored.uses THEN [Loaded(containerLoadByName) EXCEPT
                  !.config = Over(stored.config, put.config), !.devices = Over(stored.devices, put.devices)]
                ELSE up
  /\ UNCHANGED <<stored, running, live, nodes, quota, drift, early, harm, events, Kept>>

(* The containers of the profile are loaded, the profile is stored and each  *)
(* container updated to what it was.                                         *)
profilePut ==
  /\ Quiet /\ served < MaxRequests /\ served' = served + 1
  /\ \E put \in ProfilePuts :
       /\ containerValidDevices(put.devices, FALSE)
       /\ profile' = put
       /\ up' = IF stored.uses /\ profile' # profile THEN Loaded(containerLoadByName) ELSE up
  /\ UNCHANGED <<stored, running, live, nodes, quota, drift, early, harm, events, Kept>>

(* The deferred function: the copy is dropped and the scheduler woken. What  *)
(* was applied to the running container stays.                               *)
Undo ==
  /\ up' = NoUpdate
  /\ drift' = drift \cup {"live", "quota"}
  /\ deviceTaskSchedulerTrigger
  /\ UNCHANGED <<stored, profile, running, quota, early, served, Kept>>

(* A nic is new, and names that the database has are not in the copy, where  *)
(* nextInterfaceName looks for them.                                         *)
NamesLeftOut ==
  /\ ~(Nics(expandDevices(up.args)) \subseteq DOMAIN stored.names)
  /\ ~(DOMAIN stored.names \subseteq DOMAIN up.args.names)

(* The new configuration is valid, alone and expanded, and the nics of the   *)
(* copy get their names.                                                     *)
Validate ==
  /\ up.phase = "validate"
  /\ containerValidDevices(up.args.devices, FALSE)
  /\ containerValidDevices(expandDevices(up.args), TRUE)
  /\ LET at == initLXC(up.args)
     IN /\ stored' = [stored EXCEPT !.names = at.rows]
        /\ up' = [up EXCEPT !.phase = "live", !.c = at.c, !.newConfig = expandConfig(up.args),
                            !.newDevices = expandDevices(up.args)]
  /\ drift' = IF NamesLeftOut THEN drift \cup {"names"} ELSE drift
  /\ UNCHANGED <<profile, running, live, nodes, quota, early, served, harm, events, Kept>>

Invalid ==
  /\ up.phase = "validate"
  /\ ~containerValidDevices(up.args.devices, FALSE)
  /\ up' = NoUpdate
  /\ UNCHANGED <<stored, profile, running, live, nodes, quota, drift, early, served, harm, events, Kept>>

RootRefused ==
  /\ up.phase = "validate"
  /\ containerValidDevices(up.args.devices, FALSE)
  /\ ~containerValidDevices(expandDevices(up.args), TRUE)
  /\ Undo
  /\ UNCHANGED <<live, nodes, harm>>

(* The quota is set, and the live changes follow when the container runs at  *)
(* this moment.                                                              *)
Live ==
  /\ up.phase = "live"
  /\ quota' = IF RootSize(up.devices) # RootSize(up.newDevices) THEN RootSize(up.newDevices) ELSE quota
  /\ LET d == Diff(up.devices, up.newDevices)
     IN \E looked \in IF d.add \cup d.upd = {} THEN {{}} ELSE {{n} : n \in d.add \cup d.upd} :
          up' = [up EXCEPT !.phase = "apply", !.settled = ~running,
                  !.group = IF running THEN LiveSteps(up.devices, up.config, up.newDevices, up.newConfig, looked)
                            ELSE <<>>]
  /\ UNCHANGED <<stored, profile, running, live, nodes, drift, early, served, harm, events, Kept>>

(* The kernel refuses a memory limit above the memory and swap limit.        *)
KernelTakes(mem, file, v) ==
  CASE file = "limit" -> v <= mem.memsw
    [] file = "memsw" -> v >= mem.limit
    [] OTHER -> TRUE

Write(mem, file, v) == IF file # "soft" /\ KernelTakes(mem, file, v) THEN [mem EXCEPT ![file] = v] ELSE mem

Mem == [limit |-> live.limit, memsw |-> live.memsw]
WithMem(mem) == [live EXCEPT !.limit = mem.limit, !.memsw = mem.memsw]

(* Mutant: nothing is put back.                                              *)
revertNothing(old) == Mem

(* The old values in this order, whatever becomes of each write.             *)
revertMemory(old) == Write(Write(Mem, "limit", old.limit), "memsw", old.memsw)

InContainer(n) == n \in DOMAIN up.c.names /\ up.c.names[n] \in DOMAIN live.nics

Refused(step) ==
  \/ ~running /\ step.do # "trigger"
  \/ step.do = "memory" /\ ~KernelTakes(Mem, step.x, step.v)
  \/ step.do = "attach" /\ InContainer(step.x)
  \/ step.do = "detach" /\ ~InContainer(step.x)
  \/ step.do = "unnode" /\ step.v.type = "unix" /\ Node(step.v) \notin nodes
  \/ step.do = "tc" /\ ~InContainer(step.x)

LiveAfter(step) ==
  CASE step.do = "cgroup" -> [live EXCEPT !.processes = step.v]
    [] step.do = "memory" -> WithMem(Write(Mem, step.x, step.v))
    [] step.do = "io" -> [live EXCEPT !.io = step.v]
    [] step.do = "mount" -> [live EXCEPT !.mounts = @ \cup {Node(step.v)}]
    [] step.do = "umount" -> [live EXCEPT !.mounts = @ \ {Node(step.v)}]
    [] step.do = "attach" ->
         [live EXCEPT !.nics = Over(One(up.c.names[step.x], [dev |-> step.x, at |-> step.v.at, limit |-> 0]), @)]
    [] step.do = "detach" -> [live EXCEPT !.nics = Restrict(@, DOMAIN @ \ {up.c.names[step.x]})]
    [] step.do = "tc" -> [live EXCEPT !.nics[up.c.names[step.x]].limit = step.v.limit]
    [] OTHER -> live

NodesAfter(step) ==
  CASE step.do = "node" -> nodes \cup {Node(step.v)}
    [] step.do = "unnode" -> nodes \ {Node(step.v)}
    [] OTHER -> nodes

(* The groups that are not done, and that nothing is left to do.             *)
Pending == {i \in DOMAIN up.group : up.group[i] # {}}
Applied == up.phase = "apply" /\ up.doing = <<>> /\ Pending = {}

(* One change of the first group that is not done is taken up.               *)
Take ==
  /\ up.phase = "apply" /\ up.doing = <<>> /\ Pending # {}
  /\ LET i == Min(Pending)
     IN \E plan \in up.group[i] :
          up' = [up EXCEPT !.doing = plan, !.mem = Mem, !.group[i] = @ \ {plan}]
  /\ UNCHANGED <<stored, profile, running, live, nodes, quota, drift, early, served, harm, events, Kept>>

(* A nic that is removed is looked up by name too.                           *)
Apply ==
  /\ up.phase = "apply" /\ up.doing # <<>> /\ ~Refused(Head(up.doing))
  /\ LET step == Head(up.doing)
     IN /\ live' = LiveAfter(step)
        /\ nodes' = NodesAfter(step)
        /\ IF step.do = "trigger" THEN deviceTaskSchedulerTrigger ELSE UNCHANGED events
        /\ up' = [up EXCEPT !.doing = Tail(@), !.settled = @ \/ step.do = "trigger"]
  /\ UNCHANGED <<stored, profile, running, quota, drift, early, served, harm, Kept>>

ApplyFails ==
  /\ up.phase = "apply" /\ up.doing # <<>>
  /\ LET step == Head(up.doing)
     IN /\ step.do # "trigger"
        /\ \/ Refused(step) /\ UNCHANGED harm
           \/ ~Refused(step) /\ harm + plugged < MaxUpsets /\ harm' = harm + 1
        /\ live' = IF step.do = "memory" /\ running THEN WithMem(revertMemory(up.mem)) ELSE live
  /\ Undo
  /\ UNCHANGED nodes

(* The names of nics that are gone are dropped, and all is stored.           *)
Commit ==
  /\ Applied
  /\ stored' = [up.c EXCEPT !.names = Restrict(@, DOMAIN @ \cap Nics(up.newDevices))]
  /\ up' = NoUpdate
  /\ UNCHANGED <<profile, running, live, nodes, quota, drift, early, served, harm, events, Kept>>

(* Anything else fails: parsing, the quota, the database.                    *)
Fault ==
  /\ up.phase = "live" \/ Applied
  /\ harm + plugged < MaxUpsets /\ harm' = harm + 1
  /\ Undo
  /\ UNCHANGED <<live, nodes>>
-----------------------------------------------------------------------------
(* What a start sets in the container's cgroups, and attaches to it.         *)
Memory(config) == IF Or(config, "limits.memory", 0) = 0 THEN Unlimited ELSE config["limits.memory"]

InterfacesOf(c, devices) ==
  [i \in {c.names[n] : n \in Nics(devices)} |->
     LET n == CHOOSE m \in Nics(devices) : c.names[m] = i
     IN [dev |-> n, at |-> devices[n].at, limit |-> devices[n].limit]]

CreateDevices(devices) == {Node(devices[n]) : n \in Plugged(devices)}

Started(c, config, devices) ==
  [processes |-> Or(config, "limits.processes", 0), limit |-> Memory(config), memsw |-> Memory(config),
   mounts |-> CreateDevices(devices), io |-> getDiskLimits(devices), nics |-> InterfacesOf(c, devices)]

(* A start sets up what the database says, and wakes the scheduler.          *)
Start ==
  /\ ~running /\ running' = TRUE /\ served < MaxRequests /\ served' = served + 1
  /\ LET c == initLXC(containerLoadByName).c
     IN /\ stored' = [stored EXCEPT !.names = c.names]
        /\ live' = Started(c, expandConfig(c), expandDevices(c))
        /\ nodes' = CreateDevices(expandDevices(c))
  /\ pins' = [pins EXCEPT ![Self] = online]
  /\ drift' = IF Quiet THEN drift \ {"live"} ELSE drift \cup {"live"}
  /\ deviceTaskSchedulerTrigger
  /\ UNCHANGED <<profile, quota, up, early, harm, online, hotplug, sched, plugged>>

removeUnixDevices(dents) == {d \in dents : d[1] # "unix"}
removeDiskDevices(dents) == {d \in dents : d[1] # "disk"}

Stop ==
  /\ running /\ running' = FALSE
  /\ live' = Empty /\ nodes' = removeDiskDevices(removeUnixDevices(nodes))
  /\ drift' = IF Quiet THEN drift ELSE drift \cup {"live"}
  /\ deviceTaskSchedulerTrigger
  /\ UNCHANGED <<stored, profile, quota, up, early, served, harm, Kept>>

(* The scheduler sees what is stored, not what an update is about to store.  *)
Limits ==
  Over(Others, IF running THEN One(Self, Or(expandConfig(stored), "limits.cpu", NoLimit)) ELSE <<>>)

RunningNow == DOMAIN Others \cup (IF running THEN {Self} ELSE {})

Scheduler ==
  /\ \/ Read(Limits) /\ early' = (~Quiet /\ up.settled)
     \/ \E c \in DOMAIN sched.todo : Balance(c) /\ UNCHANGED early
     \/ SetPinning(RunningNow) /\ UNCHANGED early
  /\ UNCHANGED <<stored, profile, running, live, nodes, quota, up, drift, served, harm, plugged>>

Hotplug ==
  /\ harm + plugged < MaxUpsets /\ plugged' = plugged + 1
  /\ deviceNetlinkListener
  /\ UNCHANGED <<stored, profile, running, live, nodes, quota, up, drift, early, served, harm>>

Init ==
  /\ online = Cpus /\ events = 0 /\ hotplug = 0 /\ sched = Asleep
  /\ pins = [c \in DOMAIN Others \cup {Self} |-> Cpus]
  /\ profile \in {put \in ProfilePuts : put.config = <<>> /\ containerValidDevices(put.devices, TRUE)}
  /\ stored = [config |-> <<>>, devices |-> <<>>, uses |-> TRUE, names |-> <<>>]
  /\ quota = RootSize(profile.devices)
  /\ running = FALSE /\ live = Empty /\ nodes = {} /\ up = NoUpdate
  /\ drift = {} /\ early = FALSE /\ served = 0 /\ harm = 0 /\ plugged = 0

Update ==
  \/ Validate \/ Invalid \/ RootRefused \/ Live \/ Take
  \/ Apply \/ ApplyFails \/ Commit \/ Fault

Next == containerPut \/ profilePut \/ Update \/ Start \/ Stop \/ Scheduler \/ Hotplug

Spec == Init /\ [][Next]_vars
-----------------------------------------------------------------------------
(* Every variable has its type, and names are kept for devices there can be. *)
TypeOK ==
  /\ running \in BOOLEAN /\ drift \subseteq {"live", "quota", "names"} /\ early \in BOOLEAN
  /\ online \subseteq Cpus /\ events \in 0..MaxQueue /\ hotplug \in 0..1
  /\ \A c \in DOMAIN pins : pins[c] \subseteq Cpus
  /\ DOMAIN stored.names \subseteq UNION {DOMAIN put.devices : put \in Puts \cup ProfilePuts}
  /\ harm + plugged \in 0..MaxUpsets

(* Whatever sequence of updates, profile changes and restarts, and whatever  *)
(* they left behind when they failed before the last start: a running        *)
(* container has what its stored configuration asks for.                     *)
LiveFollowsConfig ==
  (Quiet /\ running /\ "live" \notin drift) =>
    LET config == expandConfig(stored)
        devices == expandDevices(stored)
        memory == IF Or(config, "limits.memory", 0) = 0 THEN Unlimited ELSE config["limits.memory"]
    IN /\ live.processes = Or(config, "limits.processes", 0)
       /\ live.limit = memory /\ live.memsw = memory
       /\ live.mounts = {Node(devices[n]) : n \in Plugged(devices)} /\ nodes = live.mounts
       /\ "names" \in drift \/
            /\ DOMAIN live.nics = {stored.names[n] : n \in Nics(devices)}
            /\ \A n \in Nics(devices) : live.nics[stored.names[n]].at = devices[n].at
       /\ "quota" \in drift \/ quota = RootSize(devices)

(* Two nics of a container are never given one name, and a nic keeps its     *)
(* name as long as the container has the device, also when a client leaves   *)
(* the name out of an update. But when it leaves out names and a nic is new, *)
(* that one may be given a name that is taken.                               *)
NamesDistinct ==
  "names" \notin drift => \A m, n \in DOMAIN stored.names : stored.names[m] = stored.names[n] => m = n

KeepsNames ==
  \A n \in DOMAIN stored.names :
    n \in Nics(expandDevices(stored)) /\ n \in Nics(expandDevices(stored)') =>
      n \in DOMAIN stored'.names /\ stored'.names[n] = stored.names[n]

NamesKept == []NamesDistinct /\ [][KeepsNames]_vars

(* A container that is limited before and after a change of its memory limit *)
(* is never left without one, wherever the change fails.                     *)
KeepsLimit ==
  (~Quiet /\ up'.phase = "idle" /\ up.phase = "apply" /\ running
     /\ Or(up.config, "limits.memory", 0) # 0 /\ Or(up.newConfig, "limits.memory", 0) # 0 /\ "live" \notin drift) =>
    live'.limit < Unlimited

(* A change of limits reaches the running container: that of a nic when no   *)
(* other device changes with it, that of a disk always.                      *)
RefreshesLimits ==
  (Commit /\ running /\ "live" \notin drift) =>
    LET new == up.newDevices
        d == Diff(up.devices, new)
    IN /\ \A n \in Nics(new) :
            d.upd = {n} /\ d.add = {} => live.nics[up.c.names[n]].limit = new[n].limit
       /\ (\E n \in d.upd : new[n].type = "disk") => live.io = getDiskLimits(new)

(* Once the scheduler has caught up, the cpus of a running container are the *)
(* ones its stored limits.cpu asks for, unless it read the database when an  *)
(* update had woken it, or found the container stopped, and not stored yet.  *)
PinsFollowConfig ==
  (SchedIdle /\ Quiet /\ running /\ ~early) =>
    LET limit == cpulimit(Or(expandConfig(stored), "limits.cpu", NoLimit))
    IN CASE limit.kind = "count" /\ limit.n > 0 ->
              Cardinality(pins[Self]) = Min({limit.n, Cardinality(online)}) /\ pins[Self] \subseteq online
         [] limit.kind = "pin" /\ limit.cpus \cap online # {} -> pins[Self] = limit.cpus \cap online
         [] OTHER -> TRUE

(* A running container has what its stored configuration asks for.           *)
UpdateInv == TypeOK /\ LiveFollowsConfig

(* The scheduler gives every container the cpus its limit asks for, and      *)
(* loads no cpu with two containers more than another it could have used.    *)
SchedulerInv == PinsFollowConfig /\ BalancedFairly

(* Limits that are in force stay so while they are changed, and the new ones *)
(* reach the container.                                                      *)
LimitsEnforced == [][KeepsLimit]_vars /\ [][RefreshesLimits]_vars
=============================================================================
