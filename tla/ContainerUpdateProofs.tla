------------------------ MODULE ContainerUpdateProofs ------------------------
(* Proofs about ContainerUpdate and DeviceScheduler: the scheduler spreads   *)
(* the load evenly and, once it has caught up, has given the container the   *)
(* cpus that its stored configuration asks for, whatever updates, starts,    *)
(* stops and cpus come and go meanwhile; nics keep their names, and limits   *)
(* are in force. All for any number of cpus, containers, configurations and  *)
(* requests.                                                                 *)
EXTENDS ContainerUpdate, FiniteSetTheorems, WellFoundedInduction, TLAPS

Cpu(config) == Or(config, "limits.cpu", NoLimit)
StoredCpu == Cpu(expandConfig(stored))

UpFields == {"phase", "args", "c", "config", "devices", "newConfig", "newDevices", "mem",
             "group", "doing", "settled"}
CopyFields == {"config", "devices", "uses", "names"}
Names == DOMAIN Others \cup {Self}

IsNames(f) == f = [n \in DOMAIN f |-> f[n]] /\ IsFiniteSet(DOMAIN f)

\* A container's rows, or an update's copy of them.
IsCopy(c) ==
  /\ DOMAIN c = CopyFields
  /\ IsConfig(c.config) /\ IsDevices(c.devices) /\ c.uses \in BOOLEAN
  /\ IsNames(c.names)

Updating(phases) == up.phase \in phases

HostType ==
  /\ online \subseteq Cpus /\ online # {} /\ events \in Nat /\ hotplug \in {0, 1}
  /\ running \in BOOLEAN /\ early \in BOOLEAN
  /\ pins = [c \in Names |-> pins[c]]

RowsType == IsCopy(stored) /\ IsConfig(profile.config) /\ IsDevices(profile.devices)

\* The request works on the difference between what was in force and what it has
\* been asked for.
UpType ==
  /\ up = NoUpdate \/ /\ DOMAIN up = UpFields /\ up.phase \in {"validate", "live", "apply"}
                      /\ IsCopy(up.args) /\ IsConfig(up.config) /\ IsDevices(up.devices)
                      /\ up.settled \in BOOLEAN
  /\ Updating({"live", "apply"}) =>
       /\ IsCopy(up.c) /\ up.newConfig = expandConfig(up.args) /\ up.newDevices = expandDevices(up.args)
       /\ up.c.config = up.args.config /\ up.c.devices = up.args.devices /\ up.c.uses = up.args.uses

LiveType ==
  /\ DOMAIN live = {"processes", "limit", "memsw", "mounts", "nics", "io"}
  /\ IsFiniteSet(DOMAIN live.nics)

TypeInv == HostType /\ RowsType /\ UpType /\ LiveType

SchedShape ==
  /\ sched = [phase |-> sched.phase, fixed |-> sched.fixed, todo |-> sched.todo,
              load |-> sched.load, pinning |-> sched.pinning]
  /\ sched.phase \in {"idle", "balance"}
  /\ sched.phase = "idle" => sched = Asleep
  /\ DOMAIN sched.load \subseteq Cpus /\ \A i \in DOMAIN sched.load : sched.load[i] \in Nat
  /\ \A c \in DOMAIN sched.todo :
       sched.todo[c] \in Nat /\ c \notin sched.fixed /\ c \notin DOMAIN sched.pinning
  /\ \A c \in DOMAIN sched.pinning \ sched.fixed : sched.pinning[c] \subseteq DOMAIN sched.load

\* The scheduler will read the limits again.
Woken == events > 0 \/ hotplug = 1

\* The cpuset is the one for this limit, or will be once the scheduler writes it.
PinsAre(k) ==
  /\ k.kind = "count" /\ k.n > 0 =>
       Cardinality(pins[Self]) = Min({k.n, Cardinality(online)}) /\ pins[Self] \subseteq online
  /\ k.kind = "pin" /\ k.cpus \cap online # {} => pins[Self] = k.cpus \cap online

Shares(k) ==
  /\ DOMAIN sched.load = online
  /\ k.kind = "count" /\ k.n > 0 =>
       \/ Self \in DOMAIN sched.todo /\ sched.todo[Self] = Min({k.n, Cardinality(online)})
       \/ /\ Self \notin DOMAIN sched.todo /\ Self \in DOMAIN sched.pinning
          /\ Cardinality(sched.pinning[Self]) = Min({k.n, Cardinality(online)})
          /\ sched.pinning[Self] \subseteq online
  /\ k.kind = "pin" /\ k.cpus \cap online # {} =>
       /\ Self \notin DOMAIN sched.todo /\ Self \in DOMAIN sched.pinning
       /\ sched.pinning[Self] = k.cpus \cap online

UpToDate(limit) ==
  \/ Woken
  \/ sched.phase = "idle" /\ PinsAre(cpulimit(limit))
  \/ sched.phase = "balance" /\ Shares(cpulimit(limit))

\* An update that changes limits.cpu has yet to wake the scheduler.
TriggerPlan == <<Do("trigger", "limits.cpu", 0)>>
ToTrigger == (\E i \in DOMAIN up.group : TriggerPlan \in up.group[i]) \/ up.doing = TriggerPlan

\* Outside of updates the cpus are up to date with what is stored; within one
\* with that or with what was in force before, until it wakes the scheduler.
CpuInv ==
  /\ ~Quiet => StoredCpu = Cpu(up.config) \/ StoredCpu = Cpu(expandConfig(up.args))
  /\ containerValidDevices(stored.devices, FALSE)
  /\ Updating({"validate"}) =>
       StoredCpu = Cpu(up.config) \/ containerValidDevices(up.args.devices, FALSE)
  /\ Updating({"live", "apply"}) => containerValidDevices(up.args.devices, FALSE)
  /\ Updating({"apply"}) /\ ~up.settled => ToTrigger \/ Cpu(up.config) = Cpu(up.newConfig)
  /\ running =>
       /\ Quiet => early \/ UpToDate(StoredCpu)
       /\ Updating({"validate", "live"}) => early \/ UpToDate(StoredCpu) \/ UpToDate(Cpu(up.config))
       /\ Updating({"apply"}) /\ up.settled => Woken \/ early
       /\ Updating({"apply"}) /\ ~up.settled => ToTrigger \/ early \/ UpToDate(StoredCpu)

Within(f, g) == \A n \in DOMAIN f : n \in DOMAIN g /\ f[n] = g[n]
Distinct(f) == \A m, n \in DOMAIN f : f[m] = f[n] => m = n

\* The names that an update has are those of the database, where none is lost.
NamesInv ==
  /\ "names" \notin drift => Distinct(stored.names)
  /\ Updating({"validate"}) => Within(up.args.names, stored.names)
  /\ Updating({"live", "apply"}) =>
       Within(up.c.names, stored.names) /\ Nics(up.newDevices) \subseteq DOMAIN up.c.names

IInv == TypeInv /\ SchedShape /\ BalancedFairly /\ CpuInv /\ NamesInv

-----------------------------------------------------------------------------
(* Lemmas about the operators.                                               *)

(* Min of two numbers (min in deviceTaskBalance).                            *)
LEMMA MinOfTwo ==
  ASSUME NEW a \in Nat, NEW b \in Nat
  PROVE  /\ Min({a, b}) \in Nat /\ Min({a, b}) <= a /\ Min({a, b}) <= b
         /\ Min({a, b}) = a \/ Min({a, b}) = b
<1> DEFINE m == IF a <= b THEN a ELSE b
<1>1. m \in {a, b} /\ \A y \in {a, b} : m <= y
  OBVIOUS
<1>2. Min({a, b}) \in {a, b} /\ \A y \in {a, b} : Min({a, b}) <= y
  BY <1>1, Zenon DEF Min
<1> QED
  BY <1>2

(* The cpus that are online are finitely many, and one at least.             *)
LEMMA OnlineFinite ==
  ASSUME HostType
  PROVE  IsFiniteSet(online) /\ Cardinality(online) \in Nat \ {0}
<1>1. IsFiniteSet(online)
  BY FS_Subset, SchedulerAssumption DEF HostType
<1> QED
  BY <1>1, FS_CardinalityType, FS_EmptySet DEF HostType

(* What deviceTaskBalance takes for the limit is a number or a list.         *)
LEMMA LimitType ==
  ASSUME NEW limit, IsLimit(limit), HostType
  PROVE  /\ cpulimit(limit).kind \in {"count", "pin"}
         /\ cpulimit(limit).kind = "count" => cpulimit(limit).n \in Nat
<1>1. CASE limit.kind = "none" /\ Cardinality(online) = 1
  <2>1. (CHOOSE i \in online : TRUE) \in Nat
    BY SchedulerAssumption DEF HostType
  <2> QED
    BY <1>1, <2>1 DEF cpulimit, Count
<1>2. CASE limit.kind = "none" /\ Cardinality(online) # 1
  BY <1>2 DEF cpulimit, Pin
<1>3. CASE limit.kind # "none"
  BY <1>3 DEF IsLimit, cpulimit, NoLimit
<1> QED
  BY <1>1, <1>2, <1>3

(* One list on top of another: every entry is from one of them.              *)
LEMMA OverEntries ==
  ASSUME NEW f, NEW g
  PROVE  /\ DOMAIN Over(f, g) = DOMAIN f \cup DOMAIN g
         /\ \A k \in DOMAIN f : Over(f, g)[k] = f[k]
         /\ \A k \in DOMAIN g \ DOMAIN f : Over(f, g)[k] = g[k]
  BY DEF Over

(* A configuration on top of another is one, and so are devices.             *)
LEMMA OverKeeps ==
  ASSUME NEW f, NEW g
  PROVE  /\ IsConfig(f) /\ IsConfig(g) => IsConfig(Over(f, g))
         /\ IsDevices(f) /\ IsDevices(g) => IsDevices(Over(f, g))
<1> DEFINE h == Over(f, g)
<1>1. /\ DOMAIN h = DOMAIN f \cup DOMAIN g
      /\ \A k \in DOMAIN h : h[k] = IF k \in DOMAIN f THEN f[k] ELSE g[k]
      /\ h = [k \in DOMAIN h |-> h[k]]
  BY DEF Over
<1> HIDE DEF h
<1>2. IsConfig(f) /\ IsConfig(g) => IsConfig(h)
  BY <1>1 DEF IsConfig
<1>3. IsDevices(f) /\ IsDevices(g) => IsDevices(h)
  <2> SUFFICES ASSUME IsDevices(f), IsDevices(g)
               PROVE  IsDevices(h)
    OBVIOUS
  <2>1. IsFiniteSet(DOMAIN f) /\ IsFiniteSet(DOMAIN g)
    BY DEF IsDevices
  <2>2. IsFiniteSet(DOMAIN h)
    BY <1>1, <2>1, FS_Union
  <2>3. \A k \in DOMAIN h : IsDevice(h[k])
    BY <1>1 DEF IsDevices
  <2>4. h = [k \in DOMAIN h |-> h[k]]
    BY <1>1
  <2> HIDE DEF h
  <2> QED
    BY <2>2, <2>3, <2>4 DEF IsDevices
<1> QED
  BY <1>2, <1>3 DEF h

(* A configuration on top of the profile's is one.                           *)
LEMMA ExpandedConfig ==
  ASSUME NEW c, IsConfig(c.config), IsConfig(profile.config)
  PROVE  IsConfig(expandConfig(c))
<1>1. CASE c.uses
  <2>1. expandConfig(c) = Over(c.config, profile.config)
    BY <1>1 DEF expandConfig
  <2> QED
    BY <2>1, OverKeeps
<1>2. CASE ~c.uses
  BY <1>2 DEF expandConfig
<1> QED
  BY <1>1, <1>2

(* Devices on top of the profile's are devices.                              *)
LEMMA ExpandedDevices ==
  ASSUME NEW c, IsDevices(c.devices), IsDevices(profile.devices)
  PROVE  IsDevices(expandDevices(c))
<1>1. CASE c.uses
  <2>1. expandDevices(c) = Over(c.devices, profile.devices)
    BY <1>1 DEF expandDevices
  <2> QED
    BY <2>1, OverKeeps
<1>2. CASE ~c.uses
  BY <1>2 DEF expandDevices
<1> QED
  BY <1>1, <1>2

(* The limit of a configuration is one.                                      *)
LEMMA CpuType ==
  ASSUME NEW config, IsConfig(config)
  PROVE  IsLimit(Cpu(config))
  BY DEF IsConfig, Cpu, Or, IsLimit

(* What the stored configuration asks for is a limit.                        *)
LEMMA StoredLimit ==
  ASSUME RowsType
  PROVE  IsLimit(StoredCpu)
  BY ExpandedConfig, CpuType DEF RowsType, IsCopy, StoredCpu

(* A trigger leaves an event (the channel holds one at least).               *)
LEMMA TriggerWakes ==
  ASSUME events \in Nat, deviceTaskSchedulerTrigger
  PROVE  events' \in Nat /\ events' > 0
<1>1. events + 1 \in Nat /\ MaxQueue \in Nat /\ MaxQueue > 0
  BY SchedulerAssumption
<1>2. Min({events + 1, MaxQueue}) \in Nat
      /\ (Min({events + 1, MaxQueue}) = events + 1 \/ Min({events + 1, MaxQueue}) = MaxQueue)
  BY <1>1, MinOfTwo
<1> QED
  BY <1>1, <1>2 DEF deviceTaskSchedulerTrigger

-----------------------------------------------------------------------------
(* The steps of the scheduler.                                               *)

(* An idle scheduler has nothing to hand out.                                *)
LEMMA AsleepShape ==
  ASSUME sched' = Asleep
  PROVE  SchedShape' /\ BalancedFairly'
<1>1. DOMAIN <<>> = {}
  OBVIOUS
<1> QED
  BY <1>1 DEF SchedShape, BalancedFairly, Asleep

(* deviceTaskBalance takes the limits: who names its cpus has them, and who  *)
(* does not waits for as many as it may have.                                *)
LEMMA ReadStep ==
  ASSUME HostType, NEW limits, IsFiniteSet(DOMAIN limits),
         \A c \in DOMAIN limits : IsLimit(limits[c]), Read(limits)
  PROVE  /\ SchedShape' /\ BalancedFairly'
         /\ events' \in Nat /\ hotplug' \in {0, 1} /\ sched'.phase = "balance"
         /\ Self \in DOMAIN limits => Shares(cpulimit(limits[Self]))'
<1> DEFINE N == Cardinality(online)
           Portion(c) == Min({cpulimit(limits[c]).n, N})
           fixed == {c \in DOMAIN limits : cpulimit(limits[c]).kind = "pin"}
           listed(c) == cpulimit(limits[c]).cpus \cap online
           todo == [c \in DOMAIN limits \ fixed |-> Portion(c)]
           load == [i \in online |-> Cardinality({c \in fixed : i \in listed(c)})]
           pinning == [c \in {d \in fixed : listed(d) # {}} |-> listed(c)]
<1>1. /\ sched' = [phase |-> "balance", fixed |-> fixed, todo |-> todo, load |-> load, pinning |-> pinning]
      /\ online' = online /\ pins' = pins
  BY DEF Read
<1>2. events' \in Nat /\ hotplug' \in {0, 1}
  BY DEF Read, HostType
<1>3. \A c \in DOMAIN limits \ fixed :
        cpulimit(limits[c]).kind = "count" /\ cpulimit(limits[c]).n \in Nat /\ Portion(c) \in Nat
  <2>1. N \in Nat
    BY OnlineFinite
  <2> SUFFICES ASSUME NEW c \in DOMAIN limits \ fixed
               PROVE  cpulimit(limits[c]).kind = "count" /\ cpulimit(limits[c]).n \in Nat /\ Portion(c) \in Nat
    OBVIOUS
  <2>2. cpulimit(limits[c]).kind = "count" /\ cpulimit(limits[c]).n \in Nat
    BY LimitType
  <2> QED
    BY <2>1, <2>2, MinOfTwo
<1>4. \A i \in online : load[i] \in Nat
  <2> TAKE i \in online
  <2>1. {c \in fixed : i \in listed(c)} \in SUBSET DOMAIN limits
    OBVIOUS
  <2>2. IsFiniteSet({c \in fixed : i \in listed(c)})
    BY <2>1, FS_Subset
  <2> QED
    BY <2>2, FS_CardinalityType
<1>5. /\ DOMAIN todo = DOMAIN limits \ fixed /\ \A c \in DOMAIN todo : todo[c] = Portion(c)
      /\ DOMAIN load = online
      /\ DOMAIN pinning \subseteq fixed /\ \A c \in fixed : listed(c) # {} => c \in DOMAIN pinning
      /\ \A c \in DOMAIN pinning : pinning[c] = listed(c)
  OBVIOUS
<1>6. /\ cpulimit(limits[Self])' = cpulimit(limits[Self])
      /\ cpulimit(limits[Self]).kind = "pin" =>
            listed(Self) = cpulimit(limits[Self]).cpus \cap online
      /\ Portion(Self) = Min({cpulimit(limits[Self]).n, N})
  BY <1>1 DEF cpulimit
<1>7. Self \in DOMAIN limits => (Self \in fixed <=> cpulimit(limits[Self]).kind = "pin")
  OBVIOUS
<1> HIDE DEF fixed, listed, Portion, todo, load, pinning
<1>8. SchedShape' /\ BalancedFairly'
  BY <1>1, <1>3, <1>4, <1>5 DEF SchedShape, BalancedFairly, HostType
<1>9. ASSUME Self \in DOMAIN limits
      PROVE  Shares(cpulimit(limits[Self]))'
  <2> DEFINE k == cpulimit(limits[Self])
  <2>1. k.kind = "count" => Self \in DOMAIN todo /\ todo[Self] = Min({k.n, N})
    BY <1>5, <1>6, <1>7, <1>9
  <2>2. k.kind = "pin" /\ k.cpus \cap online # {} =>
          Self \notin DOMAIN todo /\ Self \in DOMAIN pinning /\ pinning[Self] = k.cpus \cap online
    BY <1>5, <1>6, <1>7, <1>9
  <2>3. sched'.todo = todo /\ sched'.pinning = pinning /\ DOMAIN sched'.load = online'
    BY <1>1, <1>5
  <2>4. k = cpulimit(limits[Self])'
    BY <1>6
  <2> HIDE DEF k
  <2> QED
    BY <1>1, <2>1, <2>2, <2>3, <2>4 DEF Shares
<1> QED
  BY <1>1, <1>2, <1>8, <1>9

(* One container is given as many of the least loaded cpus as it may have:   *)
(* the load stays even.                                                      *)
LEMMA BalanceStep ==
  ASSUME HostType, SchedShape, BalancedFairly, NEW c, Balance(c)
  PROVE  /\ SchedShape' /\ BalancedFairly' /\ sched'.phase = "balance"
         /\ \A k : (k.kind = "count" => k.n \in Nat) /\ Shares(k) => Shares(k)'
<1>1. PICK S \in LeastLoaded(sched.load, sched.todo[c]) :
        sched' = [sched EXCEPT
          !.todo = Restrict(@, DOMAIN @ \ {c}),
          !.load = [i \in DOMAIN @ |-> IF i \in S THEN @[i] + 1 ELSE @[i]],
          !.pinning = [d \in DOMAIN @ \cup (IF S = {} THEN {} ELSE {c}) |-> IF d = c THEN S ELSE @[d]]]
  BY DEF Balance
<1>2. c \in DOMAIN sched.todo /\ sched.phase = "balance" /\ UNCHANGED <<online, events, hotplug, pins>>
  BY DEF Balance
<1> DEFINE todo == [d \in DOMAIN sched.todo \ {c} |-> sched.todo[d]]
           load == [i \in DOMAIN sched.load |-> IF i \in S THEN sched.load[i] + 1 ELSE sched.load[i]]
           pinning == [d \in DOMAIN sched.pinning \cup (IF S = {} THEN {} ELSE {c}) |->
                         IF d = c THEN S ELSE sched.pinning[d]]
<1>3. sched' = [phase |-> "balance", fixed |-> sched.fixed, todo |-> todo, load |-> load,
                pinning |-> pinning]
  BY <1>1, <1>2 DEF SchedShape, Restrict
<1>4. /\ S \subseteq DOMAIN sched.load /\ Cardinality(S) = sched.todo[c]
      /\ \A i \in S, j \in DOMAIN sched.load \ S : sched.load[i] <= sched.load[j]
  BY DEF LeastLoaded
<1>5. /\ DOMAIN todo = DOMAIN sched.todo \ {c} /\ \A d \in DOMAIN todo : todo[d] = sched.todo[d]
      /\ DOMAIN load = DOMAIN sched.load
      /\ \A i \in DOMAIN load : load[i] = IF i \in S THEN sched.load[i] + 1 ELSE sched.load[i]
      /\ DOMAIN pinning = DOMAIN sched.pinning \cup (IF S = {} THEN {} ELSE {c})
      /\ \A d \in DOMAIN pinning : pinning[d] = IF d = c THEN S ELSE sched.pinning[d]
  OBVIOUS
<1> HIDE DEF todo, load, pinning
<1>6. SchedShape'
  BY <1>2, <1>3, <1>4, <1>5 DEF SchedShape
<1>7. BalancedFairly'
  <2> SUFFICES ASSUME NEW d \in DOMAIN pinning \ sched.fixed,
                      NEW i \in pinning[d], NEW j \in DOMAIN load \ pinning[d]
               PROVE  load[i] <= load[j] + 1
    BY <1>3 DEF BalancedFairly
  <2>1. i \in DOMAIN sched.load /\ j \in DOMAIN sched.load
    BY <1>4, <1>5 DEF SchedShape
  <2>2. sched.load[i] \in Nat /\ sched.load[j] \in Nat
    BY <2>1 DEF SchedShape
  <2>3. CASE d = c
    BY <1>4, <1>5, <2>1, <2>2, <2>3
  <2>4. CASE d # c
    <3>1. d \in DOMAIN sched.pinning \ sched.fixed /\ pinning[d] = sched.pinning[d]
      BY <1>5, <2>4
    <3>2. sched.load[i] <= sched.load[j] + 1
      BY <1>5, <3>1 DEF BalancedFairly
    <3>3. i \in S /\ j \notin S => sched.load[i] <= sched.load[j]
      BY <1>4, <2>1
    <3> QED
      BY <1>5, <2>1, <2>2, <3>2, <3>3
  <2> QED
    BY <2>3, <2>4
<1>8. ASSUME NEW k, k.kind = "count" => k.n \in Nat, Shares(k)
      PROVE  Shares(k)'
  <2> DEFINE n == Min({k.n, Cardinality(online)})
  <2>1. k.kind = "count" /\ k.n > 0 => n \in Nat \ {0}
    BY <1>8, OnlineFinite, MinOfTwo
  <2>2. c = Self /\ k.kind = "count" /\ k.n > 0 =>
          S # {} /\ Cardinality(S) = n /\ S \subseteq online
    <3>1. Cardinality({}) = 0
      BY FS_EmptySet
    <3>2. Self \in DOMAIN sched.todo => Self \notin DOMAIN sched.pinning
      BY DEF SchedShape
    <3> QED
      BY <1>2, <1>4, <1>8, <2>1, <3>1, <3>2 DEF Shares
  <2>3. c = Self => ~(k.kind = "pin" /\ k.cpus \cap online # {})
    BY <1>2, <1>8 DEF Shares
  <2>4. sched'.todo = todo /\ sched'.load = load /\ sched'.pinning = pinning /\ online' = online
    BY <1>2, <1>3
  <2>5. CASE c = Self
    BY <1>5, <1>8, <2>2, <2>3, <2>4, <2>5 DEF Shares
  <2>6. CASE c # Self
    BY <1>5, <1>8, <2>4, <2>6 DEF Shares
  <2> QED
    BY <2>5, <2>6
<1> QED
  BY <1>3, <1>6, <1>7, <1>8

(* The cpusets are written: a container that runs has its share.             *)
LEMMA SetPinningStep ==
  ASSUME HostType, NEW alive, SetPinning(alive)
  PROVE  /\ SchedShape' /\ BalancedFairly' /\ sched'.phase = "idle"
         /\ pins' = [c \in Names |-> pins'[c]]
         /\ \A k : Self \in alive /\ Shares(k) => PinsAre(k)'
<1>1. /\ sched' = Asleep /\ sched.todo = <<>> /\ online' = online
      /\ pins' = [c \in DOMAIN pins |->
                    IF c \in alive \cap DOMAIN sched.pinning THEN sched.pinning[c] ELSE pins[c]]
  BY DEF SetPinning
<1>2. DOMAIN sched.todo = {} /\ DOMAIN pins = Names /\ Self \in Names
  BY <1>1 DEF HostType, Names
<1>3. pins' = [c \in Names |-> pins'[c]]
  BY <1>1, <1>2
<1>4. ASSUME NEW k, Self \in alive, Shares(k)
      PROVE  PinsAre(k)'
  <2>1. Self \in DOMAIN sched.pinning => pins'[Self] = sched.pinning[Self]
    BY <1>1, <1>2, <1>4
  <2> QED
    BY <1>1, <1>2, <1>4, <2>1 DEF Shares, PinsAre
<1> QED
  BY <1>1, <1>3, <1>4, AsleepShape DEF Asleep

-----------------------------------------------------------------------------
(* The names of nics: initLXC fills them in one after the other.             *)

(* A set of numbers has a least one (for a loop that ends).                  *)
LEMMA LeastNumber ==
  ASSUME NEW T, T \subseteq Nat, T # {}
  PROVE  \E x \in T : \A y \in T : x <= y
<1>1. PICK x \in T : \A y \in T : <<y, x>> \notin OpToRel(<, Nat)
  BY WFMin, NatLessThanWellFounded
<1>2. ASSUME NEW y \in T, ~(x <= y)
      PROVE  FALSE
  <2>1. <<y, x>> \in Nat \X Nat /\ y < x
    BY <1>2
  <2> QED
    BY <1>1, <2>1 DEF OpToRel
<1> QED
  BY <1>2

(* Induction over the iterations of a loop.                                  *)
LEMMA NatLoop ==
  ASSUME NEW T, T \subseteq Nat, 0 \in T, \A k \in T : k + 1 \in T
  PROVE  T = Nat
<1> SUFFICES ASSUME Nat \ T # {}
             PROVE  FALSE
  OBVIOUS
<1>1. PICK x \in Nat \ T : \A y \in Nat \ T : x <= y
  BY LeastNumber
<1>2. x - 1 \in Nat /\ x - 1 \in T
  BY <1>1
<1> QED
  BY <1>1, <1>2

(* nextInterfaceName ends, with a name that the copy does not have.          *)
LEMMA NextNameIsFree ==
  ASSUME NEW names, IsNames(names), IsFiniteSet(DOMAIN live.nics)
  PROVE  \A n \in DOMAIN names : NextName(names) # names[n]
<1> DEFINE taken == Range(names) \cup (IF running THEN DOMAIN live.nics ELSE {})
           free == {i \in 0..Cardinality(taken) : i \notin taken}
<1>1. IsFiniteSet(Range(names))
  <2>1. names \in Surjection(DOMAIN names, Range(names))
    BY DEF IsNames, Surjection, Range
  <2> QED
    BY <2>1, FS_Surjection DEF IsNames
<1>2. IsFiniteSet(taken) /\ Cardinality(taken) \in Nat
  BY <1>1, FS_Union, FS_EmptySet, FS_CardinalityType
<1> HIDE DEF taken
<1>3. free # {}
  <2> SUFFICES ASSUME free = {}
               PROVE  FALSE
    OBVIOUS
  <2>1. (0..Cardinality(taken)) \in SUBSET taken
    OBVIOUS
  <2>2. Cardinality(0..Cardinality(taken)) <= Cardinality(taken)
    BY <1>2, <2>1, FS_Subset
  <2>3. Cardinality(0..Cardinality(taken)) = Cardinality(taken) + 1
    BY <1>2, FS_Interval
  <2> QED
    BY <1>2, <2>2, <2>3
<1>4. \E i \in 0..Cardinality(taken) :
        i \notin taken /\ \A j \in 0..Cardinality(taken) : j \notin taken => i <= j
  <2>1. free \subseteq Nat
    BY <1>2
  <2>2. PICK i \in free : \A j \in free : i <= j
    BY <1>3, <2>1, LeastNumber
  <2> QED
    BY <2>2
<1>5. NextName(names) \notin taken
  BY <1>4 DEF NextName, taken
<1> QED
  BY <1>5 DEF taken, Range

(* fillNetworkDevice gives a nic a name, and what has one keeps it.          *)
LEMMA FillOne ==
  ASSUME NEW at, NEW n, IsNames(at.names), IsNames(at.rows), IsFiniteSet(DOMAIN live.nics)
  PROVE  LET b == fillNetworkDevice(at, n) IN
         /\ IsNames(b.names) /\ IsNames(b.rows)
         /\ Within(at.names, b.names) /\ Within(at.rows, b.rows) /\ n \in DOMAIN b.names
         /\ Within(at.names, at.rows) => Within(b.names, b.rows)
         /\ DOMAIN b.rows \subseteq DOMAIN at.rows \cup {n}
         /\ DOMAIN at.rows \subseteq DOMAIN at.names /\ Within(at.names, at.rows) =>
              DOMAIN b.rows \subseteq DOMAIN b.names /\ (Distinct(at.rows) => Distinct(b.rows))
<1> DEFINE b == fillNetworkDevice(at, n)
           name == Or(at.rows, n, NextName(at.names))
<1>1. CASE n \in DOMAIN at.names
  <2>1. b = at
    BY <1>1 DEF fillNetworkDevice
  <2> HIDE DEF b
  <2> QED
    BY <1>1, <2>1 DEF Within, b
<1>2. CASE n \notin DOMAIN at.names
  <2>1. b.names = Over(at.names, One(n, name)) /\ b.rows = Over(at.rows, One(n, name))
    BY <1>2 DEF fillNetworkDevice
  <2>2. /\ n \in DOMAIN at.rows => name = at.rows[n]
        /\ n \notin DOMAIN at.rows => \A m \in DOMAIN at.names : name # at.names[m]
    BY NextNameIsFree DEF Or
  <2> HIDE DEF b, name
  <2>3. DOMAIN One(n, name) = {n} /\ One(n, name)[n] = name
    BY DEF One
  <2>4. /\ DOMAIN b.names = DOMAIN at.names \cup {n}
        /\ \A m \in DOMAIN b.names : b.names[m] = IF m \in DOMAIN at.names THEN at.names[m] ELSE name
        /\ b.names = [m \in DOMAIN b.names |-> b.names[m]]
    BY <2>1, <2>3 DEF Over
  <2>5. /\ DOMAIN b.rows = DOMAIN at.rows \cup {n}
        /\ \A m \in DOMAIN b.rows : b.rows[m] = IF m \in DOMAIN at.rows THEN at.rows[m] ELSE name
        /\ b.rows = [m \in DOMAIN b.rows |-> b.rows[m]]
    BY <2>1, <2>3 DEF Over
  <2>6. IsNames(b.names) /\ IsNames(b.rows)
    BY <2>4, <2>5, FS_AddElement DEF IsNames
  <2>7. Within(at.names, b.names) /\ Within(at.rows, b.rows) /\ n \in DOMAIN b.names
    BY <2>4, <2>5 DEF Within
  <2>8. Within(at.names, at.rows) => Within(b.names, b.rows)
    BY <1>2, <2>2, <2>4, <2>5 DEF Within
  <2>9. ASSUME DOMAIN at.rows \subseteq DOMAIN at.names, Within(at.names, at.rows)
        PROVE  DOMAIN b.rows \subseteq DOMAIN b.names /\ (Distinct(at.rows) => Distinct(b.rows))
    <3>1. n \notin DOMAIN at.rows /\ \A m \in DOMAIN at.rows : name # at.rows[m]
      BY <1>2, <2>2, <2>9 DEF Within
    <3> QED
      BY <2>4, <2>5, <2>9, <3>1 DEF Distinct
  <2> QED
    BY <2>5, <2>6, <2>7, <2>8, <2>9 DEF b
<1> QED
  BY <1>1, <1>2

(* SetToSeq goes through all elements of a finite set.                       *)
LEMMA InOrder ==
  ASSUME NEW S, IsFiniteSet(S)
  PROVE  /\ Cardinality(S) \in Nat
         /\ SetToSeq(S) \in [1..Cardinality(S) -> S]
         /\ \A x \in S : \E k \in 1..Cardinality(S) : SetToSeq(S)[k] = x
<1>1. Cardinality(S) \in Nat /\ ExistsBijection(1..Cardinality(S), S)
  BY FS_CardinalityType
<1>2. PICK f \in [1..Cardinality(S) -> S] : IsInjective(f)
  BY <1>1 DEF ExistsBijection, Bijection, Injection
<1>3. SetToSeq(S) \in [1..Cardinality(S) -> S] /\ IsInjective(SetToSeq(S))
  BY <1>2, Zenon DEF SetToSeq
<1>4. SetToSeq(S) \in Injection(1..Cardinality(S), S)
  BY <1>3 DEF Injection
<1>5. Cardinality(1..Cardinality(S)) = Cardinality(S)
  BY <1>1, FS_Interval
<1>6. SetToSeq(S) \in Surjection(1..Cardinality(S), S)
  BY <1>4, <1>5, FS_Injection
<1> QED
  BY <1>1, <1>3, <1>6 DEF Surjection

(* The rounds of the loop over the nics, one after the other.                *)
IsLoop(g, base, order, m) ==
  g = [k \in 0..m |-> IF k = 0 THEN base ELSE fillNetworkDevice(g[k - 1], order[k])]

(* There are such rounds, however many nics there are.                       *)
LEMMA LoopDefined ==
  ASSUME NEW base, NEW order, NEW N \in Nat
  PROVE  \E g : IsLoop(g, base, order, N)
<1> DEFINE Round(g, k) == IF k = 0 THEN base ELSE fillNetworkDevice(g[k - 1], order[k])
           Loop(g, m) == g = [k \in 0..m |-> Round(g, k)]
           T == {m \in Nat : \E g : Loop(g, m)}
<1>1. 0 \in T
  <2>1. Loop([k \in 0..0 |-> base], 0)
    OBVIOUS
  <2> QED
    BY <2>1
<1>2. ASSUME NEW m \in T
      PROVE  m + 1 \in T
  <2>1. PICK g : Loop(g, m)
    OBVIOUS
  <2> DEFINE h == [k \in 0..(m + 1) |-> Round(g, k)]
  <2>2. \A k \in 0..m : h[k] = g[k]
    <3> TAKE k \in 0..m
    <3>1. k \in 0..(m + 1) /\ h[k] = Round(g, k)
      OBVIOUS
    <3>2. g[k] = Round(g, k)
      BY <2>1
    <3> QED
      BY <3>1, <3>2
  <2>3. \A k \in 0..(m + 1) : Round(h, k) = Round(g, k)
    <3> TAKE k \in 0..(m + 1)
    <3>1. CASE k = 0
      BY <3>1
    <3>2. CASE k # 0
      <4>1. k - 1 \in 0..m
        BY <3>2
      <4>2. h[k - 1] = g[k - 1]
        BY <2>2, <4>1
      <4> HIDE DEF h
      <4> QED
        BY <3>2, <4>2
    <3> QED
      BY <3>1, <3>2
  <2>4. Loop(h, m + 1)
    <3>1. h = [k \in 0..(m + 1) |-> Round(g, k)]
      OBVIOUS
    <3> HIDE DEF h, Round
    <3> QED
      BY <2>3, <3>1
  <2>5. \E g1 : Loop(g1, m + 1)
    <3> HIDE DEF h, Loop
    <3> QED
      BY <2>4
  <2> HIDE DEF Loop
  <2> QED
    BY <2>5
<1> HIDE DEF Round
<1>3. T = Nat
  <2>1. T \subseteq Nat
    OBVIOUS
  <2> HIDE DEF T
  <2> QED
    BY <1>1, <1>2, <2>1, NatLoop
<1>4. \E g : Loop(g, N)
  BY <1>3
<1> QED
  BY <1>4 DEF Round, IsLoop

(* What the loop of initLXC makes of the names: no nic loses its name, all   *)
(* have one, and a new one is not one that the copy has.                     *)
LEMMA FilledNames ==
  ASSUME NEW names, NEW rows, NEW nics, IsNames(names), IsNames(rows), Within(names, rows),
         IsFiniteSet(nics), IsFiniteSet(DOMAIN live.nics)
  PROVE  LET at == Filled(names, rows, nics) IN
         /\ IsNames(at.names) /\ IsNames(at.rows) /\ Within(at.names, at.rows)
         /\ Within(names, at.names) /\ Within(rows, at.rows) /\ nics \subseteq DOMAIN at.names
         /\ Distinct(rows) /\ (DOMAIN rows \subseteq DOMAIN names \/ nics \subseteq DOMAIN rows) =>
              Distinct(at.rows)
<1> DEFINE N == Cardinality(nics)
           order == SetToSeq(nics)
           base == [names |-> names, rows |-> rows]
           fill == CHOOSE g : IsLoop(g, base, order, N)
<1>1. /\ N \in Nat
      /\ \A k \in 1..N : order[k] \in nics
      /\ \A n \in nics : \E k \in 1..N : order[k] = n
  BY InOrder
<1>2. Filled(names, rows, nics) = fill[N]
  BY DEF Filled, IsLoop
<1>3. IsLoop(fill, base, order, N)
  <2>1. \E g : IsLoop(g, base, order, N)
    BY <1>1, LoopDefined
  <2> QED
    BY <2>1
<1> HIDE DEF fill, order, N
<1>4. fill[0] = base /\ \A k \in 1..N : fill[k] = fillNetworkDevice(fill[k - 1], order[k])
  BY <1>1, <1>3 DEF IsLoop
<1> HIDE DEF base
<1> DEFINE Filling(at, k) ==
             /\ IsNames(at.names) /\ IsNames(at.rows) /\ Within(at.names, at.rows)
             /\ Within(names, at.names) /\ Within(rows, at.rows)
             /\ \A j \in 1..k : order[j] \in DOMAIN at.names
             /\ DOMAIN at.rows \subseteq DOMAIN rows \cup nics
             /\ DOMAIN rows \subseteq DOMAIN names =>
                  DOMAIN at.rows \subseteq DOMAIN at.names /\ (Distinct(rows) => Distinct(at.rows))
           T == {k \in Nat : k <= N => Filling(fill[k], k)}
<1>5. 0 \in T
  BY <1>1, <1>4 DEF base, Within
<1>6. ASSUME NEW k \in T
      PROVE  k + 1 \in T
  <2> SUFFICES ASSUME k + 1 <= N
               PROVE  Filling(fill[k + 1], k + 1)
    OBVIOUS
  <2> DEFINE at == fill[k]
             n == order[k + 1]
             b == fillNetworkDevice(at, n)
  <2>1. Filling(at, k)
    BY <1>1
  <2>2. k + 1 \in 1..N /\ fill[k + 1] = b /\ n \in nics
    BY <1>1, <1>4
  <2>3. /\ IsNames(b.names) /\ IsNames(b.rows)
        /\ Within(at.names, b.names) /\ Within(at.rows, b.rows) /\ n \in DOMAIN b.names
        /\ Within(at.names, at.rows) => Within(b.names, b.rows)
        /\ DOMAIN b.rows \subseteq DOMAIN at.rows \cup {n}
        /\ DOMAIN at.rows \subseteq DOMAIN at.names /\ Within(at.names, at.rows) =>
              DOMAIN b.rows \subseteq DOMAIN b.names /\ (Distinct(at.rows) => Distinct(b.rows))
    BY <2>1, FillOne
  <2> HIDE DEF at, b
  <2>4. Within(names, b.names) /\ Within(rows, b.rows)
    BY <2>1, <2>3 DEF Within
  <2>5. \A j \in 1..(k + 1) : order[j] \in DOMAIN b.names
    <3> TAKE j \in 1..(k + 1)
    <3>1. j = k + 1 \/ j \in 1..k
      OBVIOUS
    <3> QED
      BY <2>1, <2>3, <3>1 DEF Within
  <2>6. DOMAIN b.rows \subseteq DOMAIN rows \cup nics
    BY <2>1, <2>2, <2>3
  <2>7. Filling(b, k + 1)
    BY <2>1, <2>3, <2>4, <2>5, <2>6
  <2> QED
    BY <2>2, <2>7
<1>7. T = Nat
  <2>1. T \subseteq Nat
    OBVIOUS
  <2> HIDE DEF T
  <2> QED
    BY <1>5, <1>6, <2>1, NatLoop
<1>8. Filling(fill[N], N)
  <2>1. N \in T
    BY <1>1, <1>7
  <2> QED
    BY <1>1, <2>1
<1> DEFINE at == fill[N]
<1> HIDE DEF at
<1>9. nics \subseteq DOMAIN at.names
  <2> SUFFICES ASSUME NEW n \in nics
               PROVE  n \in DOMAIN at.names
    OBVIOUS
  <2>1. PICK k \in 1..N : order[k] = n
    BY <1>1
  <2>2. \A j \in 1..N : order[j] \in DOMAIN at.names
    BY <1>8 DEF at
  <2> QED
    BY <2>1, <2>2
<1>10. ASSUME Distinct(rows), nics \subseteq DOMAIN rows
       PROVE  Distinct(at.rows)
  <2>1. DOMAIN at.rows \subseteq DOMAIN rows /\ \A n \in DOMAIN at.rows : at.rows[n] = rows[n]
    BY <1>8, <1>10 DEF Within, at
  <2> QED
    BY <1>10, <2>1 DEF Distinct
<1> QED
  BY <1>2, <1>8, <1>9, <1>10 DEF at

-----------------------------------------------------------------------------
(* What the handlers do to the rows.                                         *)

(* The nics of a list are finitely many.                                     *)
LEMMA NicsFinite ==
  ASSUME NEW devices, IsDevices(devices)
  PROVE  IsFiniteSet(Nics(devices))
<1>1. Nics(devices) \in SUBSET DOMAIN devices
  BY DEF Nics
<1> QED
  BY <1>1, FS_Subset DEF IsDevices

(* initLXC changes nothing of the copy but names, and loses none.            *)
LEMMA InitLXC ==
  ASSUME NEW c, IsCopy(c), RowsType, LiveType, Within(c.names, stored.names)
  PROVE  LET r == initLXC(c) IN
         /\ IsCopy(r.c) /\ r.c.config = c.config /\ r.c.devices = c.devices /\ r.c.uses = c.uses
         /\ IsNames(r.rows) /\ Within(r.c.names, r.rows) /\ Within(stored.names, r.rows)
         /\ Within(c.names, r.c.names)
         /\ Nics(expandDevices(c)) \subseteq DOMAIN r.c.names
         /\ /\ Distinct(stored.names)
            /\ DOMAIN stored.names \subseteq DOMAIN c.names \/ Nics(expandDevices(c)) \subseteq DOMAIN stored.names
            => Distinct(r.rows)
<1> DEFINE nics == Nics(expandDevices(c))
           at == Filled(c.names, stored.names, nics)
<1>1. IsFiniteSet(nics)
  BY ExpandedDevices, NicsFinite DEF IsCopy, RowsType
<1>2. /\ IsNames(at.names) /\ IsNames(at.rows) /\ Within(at.names, at.rows)
      /\ Within(c.names, at.names) /\ Within(stored.names, at.rows) /\ nics \subseteq DOMAIN at.names
      /\ Distinct(stored.names) /\ (DOMAIN stored.names \subseteq DOMAIN c.names \/ nics \subseteq DOMAIN stored.names)
           => Distinct(at.rows)
  BY <1>1, FilledNames DEF IsCopy, RowsType, LiveType
<1>3. initLXC(c) = [c |-> [c EXCEPT !.names = at.names], rows |-> at.rows]
  BY DEF initLXC
<1> HIDE DEF at, nics
<1>4. IsCopy([c EXCEPT !.names = at.names])
  BY <1>2 DEF IsCopy, CopyFields
<1> QED
  BY <1>2, <1>3, <1>4 DEF IsCopy, CopyFields, nics

(* The names of a list's nics are finitely many.                             *)
LEMMA InterfacesFinite ==
  ASSUME NEW c, NEW devices, IsDevices(devices)
  PROVE  IsFiniteSet(DOMAIN InterfacesOf(c, devices))
<1> DEFINE f == [n \in Nics(devices) |-> c.names[n]]
           T == {c.names[n] : n \in Nics(devices)}
<1>1. f \in Surjection(Nics(devices), T)
  BY DEF Surjection
<1>2. IsFiniteSet(T)
  BY <1>1, NicsFinite, FS_Surjection
<1>3. DOMAIN InterfacesOf(c, devices) = T
  BY DEF InterfacesOf
<1> QED
  BY <1>2, <1>3

(* A live change leaves a container with finitely many interfaces.           *)
LEMMA LiveAfterType ==
  ASSUME LiveType, NEW step
  PROVE  /\ DOMAIN LiveAfter(step) = DOMAIN live
         /\ IsFiniteSet(DOMAIN LiveAfter(step).nics)
<1> DEFINE i == up.c.names[step.x]
<1>1. CASE step.do = "attach"
  <2> DEFINE d == [dev |-> step.x, at |-> step.v.at, limit |-> 0]
  <2>1. LiveAfter(step) = [live EXCEPT !.nics = Over(One(i, d), @)]
    BY <1>1 DEF LiveAfter
  <2>2. DOMAIN Over(One(i, d), live.nics) = DOMAIN live.nics \cup {i}
    BY DEF Over, One
  <2>3. IsFiniteSet(DOMAIN live.nics \cup {i})
    BY FS_AddElement DEF LiveType
  <2> QED
    BY <2>1, <2>2, <2>3 DEF LiveType
<1>2. CASE step.do = "detach"
  <2>1. LiveAfter(step) = [live EXCEPT !.nics = Restrict(@, DOMAIN @ \ {i})]
    BY <1>2 DEF LiveAfter
  <2>2. DOMAIN Restrict(live.nics, DOMAIN live.nics \ {i}) = DOMAIN live.nics \ {i}
    BY DEF Restrict
  <2>3. IsFiniteSet(DOMAIN live.nics \ {i})
    BY FS_RemoveElement DEF LiveType
  <2> QED
    BY <2>1, <2>2, <2>3 DEF LiveType
<1>3. CASE step.do = "tc"
  <2>1. LiveAfter(step) = [live EXCEPT !.nics[i].limit = step.v.limit]
    BY <1>3 DEF LiveAfter
  <2> QED
    BY <2>1 DEF LiveType
<1>4. CASE step.do = "memory"
  <2> DEFINE mem == Write(Mem, step.x, step.v)
  <2>1. LiveAfter(step) = [live EXCEPT !.limit = mem.limit, !.memsw = mem.memsw]
    BY <1>4 DEF LiveAfter, WithMem
  <2> HIDE DEF mem
  <2> QED
    BY <2>1 DEF LiveType
<1>5. CASE step.do \notin {"attach", "detach", "tc", "memory"}
  <2>1. \/ LiveAfter(step) = live
        \/ LiveAfter(step) = [live EXCEPT !.processes = step.v]
        \/ LiveAfter(step) = [live EXCEPT !.io = step.v]
        \/ LiveAfter(step) = [live EXCEPT !.mounts = @ \cup {Node(step.v)}]
        \/ LiveAfter(step) = [live EXCEPT !.mounts = @ \ {Node(step.v)}]
    BY <1>5 DEF LiveAfter
  <2> QED
    BY <2>1 DEF LiveType
<1> QED
  BY <1>1, <1>2, <1>3, <1>4, <1>5

(* While the scheduler, the cpus and the cpusets stay what they are, and no  *)
(* event is taken, what was up to date still is.                             *)
LEMMA UpToDateKept ==
  ASSUME UNCHANGED <<online, hotplug, sched, pins>>, Woken => Woken'
  PROVE  \A limit : UpToDate(limit) => UpToDate(limit)'
  BY DEF UpToDate, Shares, PinsAre, cpulimit

(* Whoever is woken is up to date as far as this goes.                       *)
LEMMA WokenIsUpToDate ==
  ASSUME Woken
  PROVE  \A limit : UpToDate(limit)
  BY DEF UpToDate

-----------------------------------------------------------------------------
(* The requests.                                                             *)

(* What a configuration asks for depends on it and the profile's only.       *)
LEMMA SameCpu ==
  ASSUME NEW c, NEW d, c.config = d.config, c.uses = d.uses
  PROVE  expandConfig(c) = expandConfig(d)
  BY DEF expandConfig

(* As long as the configuration stays, so does what it asks for.             *)
LEMMA StoredCpuKept ==
  ASSUME stored'.config = stored.config, stored'.uses = stored.uses, profile' = profile
  PROVE  StoredCpu' = StoredCpu
  BY DEF StoredCpu, expandConfig

(* containerPut.                                                             *)
LEMMA ContainerPutStep ==
  ASSUME IInv, containerPut
  PROVE  IInv'
<1> USE DEF IInv, TypeInv
<1>1. PICK put \in Puts :
        up' = Loaded([config |-> put.config, devices |-> put.devices, uses |-> put.uses,
                      names |-> IF put.sends THEN stored.names ELSE <<>>])
  BY DEF containerPut
<1> DEFINE args == [config |-> put.config, devices |-> put.devices, uses |-> put.uses,
                    names |-> IF put.sends THEN stored.names ELSE <<>>]
<1>2. /\ Quiet
      /\ UNCHANGED <<stored, profile, running, live, nodes, quota, drift, early, harm, events,
                     online, hotplug, sched, pins>>
  BY DEF containerPut, Kept
<1>3. /\ DOMAIN up' = UpFields /\ up'.phase = "validate" /\ up'.args = args /\ up'.settled = FALSE
      /\ up'.config = expandConfig(containerLoadByName) /\ up'.devices = expandDevices(containerLoadByName)
  BY <1>1 DEF Loaded, UpFields
<1>4. IsCopy(args) /\ Within(args.names, stored.names)
  <2>1. IsNames(<<>>) /\ DOMAIN <<>> = {}
    BY FS_EmptySet DEF IsNames
  <2>2. IsConfig(put.config) /\ IsDevices(put.devices) /\ put.uses \in BOOLEAN
    BY UpdateAssumption
  <2> QED
    BY <2>1, <2>2 DEF IsCopy, CopyFields, Within, RowsType
<1>5. IsConfig(up'.config) /\ IsDevices(up'.devices)
  BY <1>3, ExpandedConfig, ExpandedDevices DEF containerLoadByName, RowsType, IsCopy
<1>6. StoredCpu' = StoredCpu /\ StoredCpu = Cpu(up'.config)
  <2>1. expandConfig(containerLoadByName) = expandConfig(stored)
    BY SameCpu DEF containerLoadByName
  <2> QED
    BY <1>2, <1>3, <2>1, StoredCpuKept DEF StoredCpu
<1> HIDE DEF args
<1>7. HostType' /\ RowsType' /\ LiveType' /\ SchedShape' /\ BalancedFairly'
  BY <1>2 DEF HostType, RowsType, LiveType, SchedShape, BalancedFairly
<1>8. UpType'
  BY <1>3, <1>4, <1>5 DEF UpType, Updating
<1>9. CpuInv'
  <2>1. \A limit : UpToDate(limit) => UpToDate(limit)'
    BY <1>2, UpToDateKept DEF Woken
  <2>2. running => early \/ UpToDate(StoredCpu)
    BY <1>2 DEF CpuInv
  <2>3. running => early \/ UpToDate(StoredCpu)'
    BY <1>6, <2>1, <2>2
  <2>4. containerValidDevices(stored.devices, FALSE)'
    BY <1>2 DEF CpuInv
  <2> QED
    BY <1>2, <1>3, <1>6, <2>3, <2>4 DEF CpuInv, Updating, Quiet
<1>10. NamesInv'
  BY <1>2, <1>3, <1>4 DEF NamesInv, Updating, Within
<1> QED
  BY <1>7, <1>8, <1>9, <1>10

(* profilePut (doProfileUpdate): the profile is stored at once.              *)
LEMMA ProfilePutStep ==
  ASSUME IInv, profilePut
  PROVE  IInv'
<1> USE DEF IInv, TypeInv
<1>1. PICK put \in ProfilePuts :
        /\ profile' = put
        /\ up' = IF stored.uses /\ profile' # profile THEN Loaded(containerLoadByName) ELSE up
  BY DEF profilePut
<1>2. /\ Quiet
      /\ UNCHANGED <<stored, running, live, nodes, quota, drift, early, harm, events,
                     online, hotplug, sched, pins>>
  BY DEF profilePut, Kept
<1>3. IsConfig(profile.config)' /\ IsDevices(profile.devices)'
  BY <1>1, UpdateAssumption
<1>4. HostType' /\ RowsType' /\ LiveType' /\ SchedShape' /\ BalancedFairly'
  BY <1>2, <1>3 DEF HostType, RowsType, LiveType, SchedShape, BalancedFairly
<1>5. \A limit : UpToDate(limit) => UpToDate(limit)'
  BY <1>2, UpToDateKept DEF Woken
<1>6. running => early \/ UpToDate(StoredCpu)
  BY <1>2 DEF CpuInv
<1>7. containerValidDevices(stored.devices, FALSE)'
  BY <1>2 DEF CpuInv
<1>8. CASE stored.uses /\ profile' # profile
  <2> DEFINE args == containerLoadByName
  <2>1. /\ DOMAIN up' = UpFields /\ up'.phase = "validate" /\ up'.args = args /\ up'.settled = FALSE
        /\ up'.config = expandConfig(args) /\ up'.devices = expandDevices(args)
    BY <1>1, <1>8 DEF Loaded, UpFields
  <2>2. /\ IsCopy(args) /\ args.names = stored.names /\ args.config = stored.config
        /\ args.uses = stored.uses /\ args.devices = stored.devices
    BY DEF IsCopy, CopyFields, RowsType, containerLoadByName
  <2>3. IsConfig(up'.config) /\ IsDevices(up'.devices)
    BY <2>1, <2>2, ExpandedConfig, ExpandedDevices DEF RowsType, IsCopy
  <2>4. StoredCpu' = Cpu(expandConfig(up.args))' /\ StoredCpu = Cpu(up'.config)
    BY <1>2, <2>1, <2>2 DEF StoredCpu, expandConfig, Cpu
  <2> HIDE DEF args
  <2>5. UpType'
    BY <2>1, <2>2, <2>3 DEF UpType, Updating
  <2>6. CpuInv'
    <3>1. running => early \/ UpToDate(Cpu(up.config))'
      BY <1>5, <1>6, <2>4
    <3>2. StoredCpu' = Cpu(expandConfig(up.args))'
      BY <2>4
    <3>3. containerValidDevices(up.args.devices, FALSE)'
      BY <1>2, <2>1, <2>2 DEF CpuInv
    <3> QED
      BY <1>2, <1>7, <2>1, <3>1, <3>2, <3>3 DEF CpuInv, Updating, Quiet
  <2>7. NamesInv'
    BY <1>2, <2>1, <2>2 DEF NamesInv, Updating, Within
  <2> QED
    BY <1>4, <2>5, <2>6, <2>7
<1>9. CASE ~(stored.uses /\ profile' # profile)
  <2>1. up' = up
    BY <1>1, <1>9
  <2>2. StoredCpu' = StoredCpu
    BY <1>2, <1>9 DEF StoredCpu, expandConfig
  <2>3. UpType'
    BY <1>2, <2>1 DEF UpType, Updating, Quiet
  <2>4. CpuInv'
    <3>1. running => early \/ UpToDate(StoredCpu)'
      BY <1>5, <1>6, <2>2
    <3> QED
      BY <1>2, <1>7, <2>1, <3>1 DEF CpuInv, Updating, Quiet
  <2>5. NamesInv'
    BY <1>2, <2>1 DEF NamesInv, Updating, Quiet
  <2> QED
    BY <1>4, <2>3, <2>4, <2>5
<1> QED
  BY <1>8, <1>9

(* A request that fails drops its copy and wakes the scheduler (Undo).       *)
LEMMA UndoStep ==
  ASSUME IInv, Undo, LiveType'
  PROVE  IInv'
<1> USE DEF IInv, TypeInv
<1>1. /\ up' = NoUpdate /\ drift' = drift \cup {"live", "quota"}
      /\ UNCHANGED <<stored, profile, running, early, online, hotplug, sched, pins>>
  BY DEF Undo, Kept
<1>2. events' \in Nat /\ events' > 0
  BY TriggerWakes DEF Undo, HostType
<1>3. HostType' /\ RowsType' /\ SchedShape' /\ BalancedFairly'
  BY <1>1, <1>2 DEF HostType, RowsType, SchedShape, BalancedFairly
<1>4. up'.phase = "idle" /\ Quiet'
  BY <1>1 DEF NoUpdate, Quiet
<1>5. UpType' /\ NamesInv'
  BY <1>1, <1>4 DEF UpType, Updating, NamesInv
<1>6. CpuInv'
  <2>1. Woken'
    BY <1>2 DEF Woken
  <2>2. UpToDate(StoredCpu)'
    BY <2>1 DEF UpToDate
  <2>3. containerValidDevices(stored.devices, FALSE)'
    BY <1>1 DEF CpuInv
  <2> QED
    BY <1>4, <2>2, <2>3 DEF CpuInv, Updating
<1> QED
  BY <1>3, <1>5, <1>6

(* The new configuration is accepted (Update, validation).                   *)
LEMMA ValidateStep ==
  ASSUME IInv, Validate
  PROVE  IInv'
<1> USE DEF IInv, TypeInv
<1> DEFINE r == initLXC(up.args)
<1>1. /\ up.phase = "validate" /\ containerValidDevices(up.args.devices, FALSE)
      /\ stored' = [stored EXCEPT !.names = r.rows]
      /\ up' = [up EXCEPT !.phase = "live", !.c = r.c, !.newConfig = expandConfig(up.args),
                          !.newDevices = expandDevices(up.args)]
      /\ drift' = IF NamesLeftOut THEN drift \cup {"names"} ELSE drift
      /\ UNCHANGED <<profile, running, live, early, events, online, hotplug, sched, pins>>
  BY DEF Validate, Kept
<1>2. DOMAIN up = UpFields /\ IsCopy(up.args) /\ IsConfig(up.config) /\ IsDevices(up.devices)
      /\ up.settled \in BOOLEAN
  BY <1>1 DEF UpType, NoUpdate
<1>3. Within(up.args.names, stored.names)
  BY <1>1 DEF NamesInv, Updating
<1>4. /\ IsCopy(r.c) /\ r.c.config = up.args.config /\ r.c.devices = up.args.devices
      /\ r.c.uses = up.args.uses
      /\ IsNames(r.rows) /\ Within(r.c.names, r.rows)
      /\ Nics(expandDevices(up.args)) \subseteq DOMAIN r.c.names
      /\ /\ Distinct(stored.names)
         /\ \/ DOMAIN stored.names \subseteq DOMAIN up.args.names
            \/ Nics(expandDevices(up.args)) \subseteq DOMAIN stored.names
         => Distinct(r.rows)
  BY <1>2, <1>3, InitLXC
<1> HIDE DEF r
<1>5. /\ DOMAIN up' = UpFields /\ up'.phase = "live" /\ up'.c = r.c /\ up'.args = up.args
      /\ up'.config = up.config /\ up'.devices = up.devices /\ up'.settled = up.settled
      /\ up'.newConfig = expandConfig(up.args) /\ up'.newDevices = expandDevices(up.args)
  BY <1>1, <1>2 DEF UpFields
<1>6. /\ DOMAIN stored' = DOMAIN stored /\ stored'.config = stored.config /\ stored'.uses = stored.uses
      /\ stored'.devices = stored.devices /\ stored'.names = r.rows
  BY <1>1 DEF RowsType, IsCopy, CopyFields
<1>7. /\ StoredCpu' = StoredCpu /\ expandConfig(up.args)' = expandConfig(up.args)
      /\ expandDevices(up.args)' = expandDevices(up.args)
  BY <1>1, <1>5, <1>6, StoredCpuKept DEF expandConfig, expandDevices
<1>8. HostType' /\ LiveType' /\ SchedShape' /\ BalancedFairly'
  BY <1>1 DEF HostType, LiveType, SchedShape, BalancedFairly
<1>9. RowsType'
  BY <1>1, <1>4, <1>6 DEF RowsType, IsCopy
<1>10. UpType'
  BY <1>2, <1>4, <1>5, <1>7 DEF UpType, Updating
<1>11. CpuInv'
  <2>1. \A limit : UpToDate(limit) => UpToDate(limit)'
    BY <1>1, UpToDateKept DEF Woken
  <2>2. running => early \/ UpToDate(StoredCpu) \/ UpToDate(Cpu(up.config))
    BY <1>1 DEF CpuInv, Updating
  <2>3. running => early \/ UpToDate(StoredCpu)' \/ UpToDate(Cpu(up.config))'
    BY <1>5, <1>7, <2>1, <2>2
  <2>4. containerValidDevices(stored.devices, FALSE)' /\ containerValidDevices(up.args.devices, FALSE)'
    BY <1>1, <1>5, <1>6 DEF CpuInv
  <2>5. StoredCpu' = Cpu(up'.config) \/ StoredCpu' = Cpu(expandConfig(up.args)')
    BY <1>1, <1>5, <1>7 DEF CpuInv, Quiet
  <2> QED
    BY <1>1, <1>5, <2>3, <2>4, <2>5 DEF CpuInv, Updating, Quiet
<1>12. NamesInv'
  <2>1. "names" \notin drift' => Distinct(r.rows)
    BY <1>1, <1>4 DEF NamesInv, NamesLeftOut
  <2> QED
    BY <1>4, <1>5, <1>6, <2>1 DEF NamesInv, Updating
<1> QED
  BY <1>8, <1>9, <1>10, <1>11, <1>12

(* It is refused before anything is changed: a profile's was accepted with   *)
(* the container's devices.                                                  *)
LEMMA InvalidStep ==
  ASSUME IInv, Invalid
  PROVE  IInv'
<1> USE DEF IInv, TypeInv
<1>1. /\ up.phase = "validate" /\ ~containerValidDevices(up.args.devices, FALSE) /\ up' = NoUpdate
      /\ UNCHANGED <<stored, profile, running, live, drift, early, events, online, hotplug, sched, pins>>
  BY DEF Invalid, Kept
<1>2. up'.phase = "idle" /\ Quiet'
  BY <1>1 DEF NoUpdate, Quiet
<1>3. HostType' /\ RowsType' /\ LiveType' /\ SchedShape' /\ BalancedFairly'
  BY <1>1 DEF HostType, RowsType, LiveType, SchedShape, BalancedFairly
<1>4. UpType' /\ NamesInv'
  BY <1>1, <1>2 DEF UpType, Updating, NamesInv
<1>5. CpuInv'
  <2>1. \A limit : UpToDate(limit) => UpToDate(limit)'
    BY <1>1, UpToDateKept DEF Woken
  <2>2. StoredCpu = Cpu(up.config) /\ StoredCpu' = StoredCpu
    BY <1>1, StoredCpuKept DEF CpuInv, Updating
  <2>3. running => early \/ UpToDate(StoredCpu)'
    BY <1>1, <2>1, <2>2 DEF CpuInv, Updating
  <2>4. containerValidDevices(stored.devices, FALSE)'
    BY <1>1 DEF CpuInv
  <2> QED
    BY <1>1, <1>2, <2>3, <2>4 DEF CpuInv, Updating
<1> QED
  BY <1>3, <1>4, <1>5

-----------------------------------------------------------------------------
(* The live changes, the end of an update, and what comes beside it.         *)

(* A limits.cpu that differs is among the changes of the first group.        *)
LEMMA TriggerPlanned ==
  ASSUME NEW old, NEW oldConfig, NEW new, NEW newConfig, NEW looked, Cpu(oldConfig) # Cpu(newConfig)
  PROVE  1 \in DOMAIN LiveSteps(old, oldConfig, new, newConfig, looked)
         /\ TriggerPlan \in LiveSteps(old, oldConfig, new, newConfig, looked)[1]
<1>1. "limits.cpu" \in ChangedKeys(oldConfig, newConfig)
  BY DEF ChangedKeys, Cpu, Or
<1>2. LiveConfig("limits.cpu", newConfig) = TriggerPlan
  BY DEF LiveConfig, TriggerPlan
<1>3. TriggerPlan \in {LiveConfig(k, newConfig) : k \in ChangedKeys(oldConfig, newConfig)}
  BY <1>1, <1>2
<1>4. /\ 1 \in DOMAIN LiveSteps(old, oldConfig, new, newConfig, looked)
      /\ LiveSteps(old, oldConfig, new, newConfig, looked)[1]
           = {LiveConfig(k, newConfig) : k \in ChangedKeys(oldConfig, newConfig)}
  BY DEF LiveSteps
<1> QED
  BY <1>3, <1>4

(* What to do live is worked out, if the container runs (Update).            *)
LEMMA LiveStep ==
  ASSUME IInv, Live
  PROVE  IInv'
<1> USE DEF IInv, TypeInv
<1>1. PICK looked :
        up' = [up EXCEPT !.phase = "apply", !.settled = ~running,
                  !.group = IF running THEN LiveSteps(up.devices, up.config, up.newDevices, up.newConfig, looked)
                            ELSE <<>>]
  BY DEF Live
<1>2. /\ up.phase = "live"
      /\ UNCHANGED <<stored, profile, running, live, drift, early, events, online, hotplug, sched, pins>>
  BY DEF Live, Kept
<1>3. /\ DOMAIN up = UpFields /\ IsCopy(up.args) /\ IsConfig(up.config) /\ IsDevices(up.devices)
      /\ IsCopy(up.c) /\ up.newConfig = expandConfig(up.args) /\ up.newDevices = expandDevices(up.args)
      /\ up.c.config = up.args.config /\ up.c.devices = up.args.devices /\ up.c.uses = up.args.uses
  BY <1>2 DEF UpType, NoUpdate, Updating
<1>4. /\ DOMAIN up' = UpFields /\ up'.phase = "apply" /\ up'.settled = ~running
      /\ up'.args = up.args /\ up'.c = up.c /\ up'.config = up.config /\ up'.devices = up.devices
      /\ up'.newConfig = up.newConfig /\ up'.newDevices = up.newDevices
  BY <1>1, <1>3 DEF UpFields
<1>5. running => up'.group = LiveSteps(up.devices, up.config, up.newDevices, up.newConfig, looked)
  BY <1>1, <1>3 DEF UpFields
<1>6. /\ StoredCpu' = StoredCpu /\ expandConfig(up.args)' = expandConfig(up.args)
      /\ expandDevices(up.args)' = expandDevices(up.args)
  BY <1>2, <1>4, StoredCpuKept DEF expandConfig, expandDevices
<1>7. HostType' /\ RowsType' /\ LiveType' /\ SchedShape' /\ BalancedFairly'
  BY <1>2 DEF HostType, RowsType, LiveType, SchedShape, BalancedFairly
<1>8. UpType'
  BY <1>3, <1>4, <1>6 DEF UpType, Updating, HostType
<1>9. CpuInv'
  <2>1. \A limit : UpToDate(limit) => UpToDate(limit)'
    BY <1>2, UpToDateKept DEF Woken
  <2>2. running => early \/ UpToDate(StoredCpu) \/ UpToDate(Cpu(up.config))
    BY <1>2 DEF CpuInv, Updating
  <2>3. StoredCpu = Cpu(up.config) \/ StoredCpu = Cpu(up.newConfig)
    BY <1>2, <1>3 DEF CpuInv, Quiet
  <2>4. running /\ Cpu(up.config) # Cpu(up.newConfig) => ToTrigger'
    BY <1>5, TriggerPlanned DEF ToTrigger
  <2>5. running => ToTrigger' \/ early \/ UpToDate(StoredCpu)'
    BY <1>6, <2>1, <2>2, <2>3, <2>4
  <2>6. containerValidDevices(stored.devices, FALSE)' /\ containerValidDevices(up.args.devices, FALSE)'
    BY <1>2, <1>4 DEF CpuInv, Updating
  <2>7. StoredCpu' = Cpu(up'.config) \/ StoredCpu' = Cpu(expandConfig(up.args)')
    BY <1>3, <1>4, <1>6, <2>3
  <2> QED
    BY <1>2, <1>4, <2>4, <2>5, <2>6, <2>7 DEF CpuInv, Updating, Quiet
<1>10. NamesInv'
  BY <1>2, <1>4 DEF NamesInv, Updating
<1> QED
  BY <1>7, <1>8, <1>9, <1>10

(* What the steps of the live changes leave alone.                           *)
AppliesOn ==
  /\ up.phase = "apply"
  /\ DOMAIN up' = UpFields /\ up'.phase = "apply" /\ up'.settled \in BOOLEAN
  /\ up'.args = up.args /\ up'.c = up.c /\ up'.config = up.config /\ up'.devices = up.devices
  /\ up'.newConfig = up.newConfig /\ up'.newDevices = up.newDevices
  /\ UNCHANGED <<stored, profile, running, drift, early, online, hotplug, sched, pins>>
  /\ events' \in Nat /\ (events > 0 => events' > 0)

(* A live change keeps the invariant when it wakes the scheduler if it is    *)
(* the change that has to.                                                   *)
LEMMA AppliesOnStep ==
  ASSUME IInv, AppliesOn, LiveType',
         up'.settled => up.settled \/ Woken',
         ~up'.settled => ~up.settled /\ (ToTrigger => ToTrigger')
  PROVE  IInv'
<1> USE DEF IInv, TypeInv
<1>1. /\ up.phase = "apply"
      /\ DOMAIN up' = UpFields /\ up'.phase = "apply" /\ up'.settled \in BOOLEAN
      /\ up'.args = up.args /\ up'.c = up.c /\ up'.config = up.config /\ up'.devices = up.devices
      /\ up'.newConfig = up.newConfig /\ up'.newDevices = up.newDevices
      /\ UNCHANGED <<stored, profile, running, drift, early, online, hotplug, sched, pins>>
      /\ events' \in Nat /\ (events > 0 => events' > 0)
  BY DEF AppliesOn
<1>2. /\ DOMAIN up = UpFields /\ IsCopy(up.args) /\ IsConfig(up.config) /\ IsDevices(up.devices)
      /\ IsCopy(up.c) /\ up.newConfig = expandConfig(up.args) /\ up.newDevices = expandDevices(up.args)
      /\ up.c.config = up.args.config /\ up.c.devices = up.args.devices /\ up.c.uses = up.args.uses
      /\ up.settled \in BOOLEAN
  BY <1>1 DEF UpType, NoUpdate, Updating
<1>3. /\ StoredCpu' = StoredCpu /\ expandConfig(up.args)' = expandConfig(up.args)
      /\ expandDevices(up.args)' = expandDevices(up.args)
  BY <1>1, StoredCpuKept DEF expandConfig, expandDevices
<1>4. HostType' /\ RowsType' /\ SchedShape' /\ BalancedFairly'
  BY <1>1 DEF HostType, RowsType, SchedShape, BalancedFairly
<1>5. UpType'
  BY <1>1, <1>2, <1>3 DEF UpType, Updating
<1>6. CpuInv'
  <2>1. Woken => Woken'
    BY <1>1 DEF Woken, HostType
  <2>2. \A limit : UpToDate(limit) => UpToDate(limit)'
    BY <1>1, <2>1, UpToDateKept
  <2>3. UpToDate(StoredCpu) => UpToDate(StoredCpu)'
    BY <1>3, <2>2
  <2>4. containerValidDevices(stored.devices, FALSE)' /\ containerValidDevices(up.args.devices, FALSE)'
    BY <1>1 DEF CpuInv, Updating
  <2>5. StoredCpu' = Cpu(up'.config) \/ StoredCpu' = Cpu(expandConfig(up.args)')
    BY <1>1, <1>3 DEF CpuInv, Quiet
  <2>6. /\ ~up.settled => ToTrigger \/ Cpu(up.config) = Cpu(up.newConfig)
        /\ running /\ up.settled => Woken \/ early
        /\ running /\ ~up.settled => ToTrigger \/ early \/ UpToDate(StoredCpu)
    BY <1>1 DEF CpuInv, Updating
  <2>7. ~Quiet' /\ ~Updating({"validate"})' /\ ~Updating({"validate", "live"})'
    BY <1>1 DEF Quiet, Updating
  <2>8. /\ ~up'.settled => ToTrigger' \/ Cpu(up'.config) = Cpu(up'.newConfig)
        /\ running' /\ up'.settled => Woken' \/ early'
        /\ running' /\ ~up'.settled => ToTrigger' \/ early' \/ UpToDate(StoredCpu)'
    BY <1>1, <2>1, <2>3, <2>6
  <2> QED
    BY <2>4, <2>5, <2>7, <2>8 DEF CpuInv
<1>7. NamesInv'
  BY <1>1 DEF NamesInv, Updating
<1> QED
  BY <1>4, <1>5, <1>6, <1>7

(* One of the changes is taken up.                                           *)
LEMMA TakeStep ==
  ASSUME IInv, Take
  PROVE  IInv'
<1> DEFINE i == Min(Pending)
<1>1. PICK plan \in up.group[i] :
        up' = [up EXCEPT !.doing = plan, !.mem = Mem, !.group[i] = @ \ {plan}]
  BY DEF Take
<1>2. /\ up.phase = "apply" /\ up.doing = <<>>
      /\ UNCHANGED <<stored, profile, running, live, drift, early, events, online, hotplug, sched, pins>>
  BY DEF Take, Kept
<1>3. DOMAIN up = UpFields /\ up.settled \in BOOLEAN /\ events \in Nat
  BY <1>2 DEF IInv, TypeInv, UpType, NoUpdate, HostType
<1> HIDE DEF i
<1>4. /\ DOMAIN up' = UpFields /\ up'.phase = "apply" /\ up'.settled = up.settled
      /\ up'.args = up.args /\ up'.c = up.c /\ up'.config = up.config /\ up'.devices = up.devices
      /\ up'.newConfig = up.newConfig /\ up'.newDevices = up.newDevices
      /\ up'.doing = plan /\ up'.group = [up.group EXCEPT ![i] = @ \ {plan}]
  BY <1>1, <1>2, <1>3 DEF UpFields
<1>5. AppliesOn /\ LiveType'
  BY <1>2, <1>3, <1>4 DEF AppliesOn, IInv, TypeInv, LiveType
<1>6. ToTrigger => ToTrigger'
  <2>1. up.doing # TriggerPlan
    BY <1>2 DEF TriggerPlan
  <2> SUFFICES ASSUME NEW j \in DOMAIN up.group, TriggerPlan \in up.group[j]
               PROVE  ToTrigger'
    BY <2>1 DEF ToTrigger
  <2> QED
    BY <1>4 DEF ToTrigger
<1> QED
  BY <1>4, <1>5, <1>6, AppliesOnStep

(* One step of it succeeds.                                                  *)
LEMMA ApplyStep ==
  ASSUME IInv, Apply
  PROVE  IInv'
<1> DEFINE step == Head(up.doing)
<1>1. /\ up.phase = "apply" /\ up.doing # <<>>
      /\ live' = LiveAfter(step)
      /\ IF step.do = "trigger" THEN deviceTaskSchedulerTrigger ELSE UNCHANGED events
      /\ up' = [up EXCEPT !.doing = Tail(@), !.settled = @ \/ step.do = "trigger"]
      /\ UNCHANGED <<stored, profile, running, drift, early, online, hotplug, sched, pins>>
  BY DEF Apply, Kept
<1>2. DOMAIN up = UpFields /\ up.settled \in BOOLEAN /\ events \in Nat
  BY <1>1 DEF IInv, TypeInv, UpType, NoUpdate, HostType
<1>3. up.doing = TriggerPlan => step.do = "trigger"
  BY DEF TriggerPlan, Do
<1>4. LiveType'
  BY <1>1, LiveAfterType DEF IInv, TypeInv, LiveType
<1> HIDE DEF step
<1>5. /\ DOMAIN up' = UpFields /\ up'.phase = "apply"
      /\ up'.settled = (up.settled \/ step.do = "trigger")
      /\ up'.args = up.args /\ up'.c = up.c /\ up'.config = up.config /\ up'.devices = up.devices
      /\ up'.newConfig = up.newConfig /\ up'.newDevices = up.newDevices /\ up'.group = up.group
  BY <1>1, <1>2 DEF UpFields
<1>6. /\ events' \in Nat /\ (events > 0 => events' > 0) /\ (step.do = "trigger" => events' > 0)
  <2>1. CASE step.do = "trigger"
    <3>1. events' > 0 /\ events' \in Nat
      BY <1>1, <1>2, <2>1, TriggerWakes
    <3> QED
      BY <3>1
  <2>2. CASE step.do # "trigger"
    BY <1>1, <1>2, <2>2
  <2> QED
    BY <2>1, <2>2
<1>7. AppliesOn
  BY <1>1, <1>5, <1>6 DEF AppliesOn
<1>8. up'.settled => up.settled \/ Woken'
  BY <1>5, <1>6 DEF Woken
<1>9. ~up'.settled => ~up.settled /\ (ToTrigger => ToTrigger')
  BY <1>3, <1>5 DEF ToTrigger
<1> QED
  BY <1>4, <1>7, <1>8, <1>9, AppliesOnStep


(* The root device is refused once the deferred function is in place.        *)
LEMMA RootRefusedStep ==
  ASSUME IInv, RootRefused
  PROVE  IInv'
<1>1. LiveType'
  BY DEF RootRefused, IInv, TypeInv, LiveType
<1> QED
  BY <1>1, UndoStep DEF RootRefused

(* One step of a live change fails, and what is put back is put back.        *)
LEMMA ApplyFailsStep ==
  ASSUME IInv, ApplyFails
  PROVE  IInv'
<1> DEFINE mem == revertMemory(up.mem)
           back == [live EXCEPT !.limit = mem.limit, !.memsw = mem.memsw]
<1>1. live' = back \/ live' = live
  BY DEF ApplyFails, WithMem
<1>2. DOMAIN back = DOMAIN live /\ back.nics = live.nics
  BY DEF IInv, TypeInv, LiveType
<1> HIDE DEF back
<1>3. LiveType'
  BY <1>1, <1>2 DEF IInv, TypeInv, LiveType
<1> QED
  BY <1>3, UndoStep DEF ApplyFails

(* Anything else fails.                                                      *)
LEMMA FaultStep ==
  ASSUME IInv, Fault
  PROVE  IInv'
<1>1. LiveType'
  BY DEF Fault, IInv, TypeInv, LiveType
<1> QED
  BY <1>1, UndoStep DEF Fault

(* What is left to do when an update is stored is not to wake the scheduler. *)
LEMMA CommitStep ==
  ASSUME IInv, Commit
  PROVE  IInv'
<1> USE DEF IInv, TypeInv
<1> DEFINE names == Restrict(up.c.names, DOMAIN up.c.names \cap Nics(up.newDevices))
<1>1. /\ Applied /\ stored' = [up.c EXCEPT !.names = names] /\ up' = NoUpdate
      /\ UNCHANGED <<profile, running, live, drift, early, events, online, hotplug, sched, pins>>
  BY DEF Commit, Kept
<1>2. up.phase = "apply" /\ up.doing = <<>> /\ Pending = {}
  BY <1>1 DEF Applied
<1>3. /\ IsCopy(up.c) /\ up.newConfig = expandConfig(up.args)
      /\ up.c.config = up.args.config /\ up.c.devices = up.args.devices /\ up.c.uses = up.args.uses
      /\ up.settled \in BOOLEAN
  BY <1>2 DEF UpType, Updating, NoUpdate
<1>4. IsNames(names) /\ Within(names, up.c.names)
  <2>1. DOMAIN names = DOMAIN up.c.names \cap Nics(up.newDevices)
        /\ names = [n \in DOMAIN names |-> up.c.names[n]]
    BY DEF Restrict
  <2>2. IsFiniteSet(DOMAIN up.c.names)
    BY <1>3 DEF IsCopy, IsNames
  <2>3. IsFiniteSet(DOMAIN names)
    BY <2>1, <2>2, FS_Subset
  <2> HIDE DEF names
  <2> QED
    BY <2>1, <2>3 DEF IsNames, Within
<1> HIDE DEF names
<1>5. /\ DOMAIN stored' = DOMAIN up.c /\ stored'.config = up.c.config /\ stored'.uses = up.c.uses
      /\ stored'.devices = up.c.devices /\ stored'.names = names
  BY <1>1, <1>3 DEF IsCopy, CopyFields
<1>6. HostType' /\ LiveType' /\ SchedShape' /\ BalancedFairly'
  BY <1>1 DEF HostType, LiveType, SchedShape, BalancedFairly
<1>7. RowsType'
  BY <1>1, <1>3, <1>4, <1>5 DEF RowsType, IsCopy
<1>8. up'.phase = "idle" /\ Quiet'
  BY <1>1 DEF NoUpdate, Quiet
<1>9. UpType'
  BY <1>1, <1>8 DEF UpType, Updating
<1>10. StoredCpu' = Cpu(up.newConfig)
  BY <1>1, <1>3, <1>5 DEF StoredCpu, expandConfig, Cpu
<1>11. CpuInv'
  <2>1. \A limit : UpToDate(limit) => UpToDate(limit)'
    BY <1>1, UpToDateKept DEF Woken
  <2>2. ~ToTrigger
    BY <1>2 DEF ToTrigger, Pending, TriggerPlan
  <2>3. CASE up.settled
    <3>1. running => Woken \/ early
      BY <1>2, <2>3 DEF CpuInv, Updating
    <3>2. running => early \/ UpToDate(Cpu(up.newConfig))
      BY <3>1, WokenIsUpToDate
    <3>3. running => early \/ UpToDate(StoredCpu)'
      BY <1>10, <2>1, <3>2
    <3> QED
      BY <1>1, <1>2, <1>3, <1>5, <1>8, <3>3 DEF CpuInv, Updating, containerValidDevices
  <2>4. CASE ~up.settled
    <3>1. Cpu(up.config) = Cpu(up.newConfig)
      BY <1>2, <2>2, <2>4 DEF CpuInv, Updating
    <3>2. StoredCpu = Cpu(up.newConfig)
      BY <1>2, <1>3, <3>1 DEF CpuInv, Quiet
    <3>3. running => early \/ UpToDate(Cpu(up.newConfig))
      BY <1>2, <2>2, <2>4, <3>2 DEF CpuInv, Updating
    <3>4. running => early \/ UpToDate(StoredCpu)'
      BY <1>10, <2>1, <3>3
    <3> QED
      BY <1>1, <1>2, <1>3, <1>5, <1>8, <3>4 DEF CpuInv, Updating, containerValidDevices
  <2> QED
    BY <2>3, <2>4
<1>12. NamesInv'
  <2>1. Within(up.c.names, stored.names)
    BY <1>2 DEF NamesInv, Updating
  <2>2. Distinct(stored.names) => Distinct(names)
    BY <1>4, <2>1 DEF Within, Distinct
  <2> QED
    BY <1>1, <1>5, <1>8, <2>2 DEF NamesInv, Updating
<1> QED
  BY <1>6, <1>7, <1>9, <1>11, <1>12

(* A start reads the database, whatever an update is doing (Start).          *)
LEMMA StartStep ==
  ASSUME IInv, Start
  PROVE  IInv'
<1> USE DEF IInv, TypeInv
<1> DEFINE c == initLXC(containerLoadByName).c
           load == containerLoadByName
<1>1. /\ running' = TRUE /\ stored' = [stored EXCEPT !.names = c.names]
      /\ live' = Started(c, expandConfig(c), expandDevices(c))
      /\ pins' = [pins EXCEPT ![Self] = online]
      /\ drift' = IF Quiet THEN drift \ {"live"} ELSE drift \cup {"live"}
      /\ deviceTaskSchedulerTrigger
      /\ UNCHANGED <<profile, up, early, online, hotplug, sched>>
  BY DEF Start
<1>2. events' \in Nat /\ events' > 0
  BY <1>1, TriggerWakes DEF HostType
<1>3. /\ IsCopy(load) /\ load.names = stored.names /\ load.config = stored.config
      /\ load.uses = stored.uses /\ load.devices = stored.devices
      /\ Within(load.names, stored.names)
  BY DEF IsCopy, CopyFields, RowsType, containerLoadByName, Within
<1>4. /\ IsCopy(c) /\ c.config = stored.config /\ c.devices = stored.devices /\ c.uses = stored.uses
      /\ Within(stored.names, c.names) /\ (Distinct(stored.names) => Distinct(c.names))
  <2> DEFINE r == initLXC(load)
  <2>1. /\ IsCopy(r.c) /\ r.c.config = load.config /\ r.c.devices = load.devices /\ r.c.uses = load.uses
        /\ Within(r.c.names, r.rows) /\ Within(load.names, r.c.names)
        /\ /\ Distinct(stored.names)
           /\ \/ DOMAIN stored.names \subseteq DOMAIN load.names
              \/ Nics(expandDevices(load)) \subseteq DOMAIN stored.names
           => Distinct(r.rows)
    BY <1>3, InitLXC
  <2>2. Distinct(r.rows) => Distinct(r.c.names)
    BY <2>1 DEF Within, Distinct
  <2>3. c = r.c
    OBVIOUS
  <2> HIDE DEF load, c, r
  <2> QED
    BY <1>3, <2>1, <2>2, <2>3
<1> HIDE DEF c, load
<1>5. /\ DOMAIN stored' = DOMAIN stored /\ stored'.config = stored.config /\ stored'.uses = stored.uses
      /\ stored'.devices = stored.devices /\ stored'.names = c.names
  BY <1>1 DEF RowsType, IsCopy, CopyFields
<1>6. RowsType'
  BY <1>1, <1>4, <1>5 DEF RowsType, IsCopy
<1>7. LiveType'
  <2>1. IsDevices(expandDevices(c))
    BY <1>4, ExpandedDevices DEF RowsType, IsCopy
  <2>2. IsFiniteSet(DOMAIN InterfacesOf(c, expandDevices(c)))
    BY <2>1, InterfacesFinite
  <2> QED
    BY <1>1, <2>2 DEF LiveType, Started
<1>8. HostType' /\ SchedShape' /\ BalancedFairly'
  <2>1. pins' = [n \in Names |-> pins'[n]]
    BY <1>1 DEF HostType
  <2> QED
    BY <1>1, <1>2, <2>1 DEF HostType, SchedShape, BalancedFairly
<1>9. UpType'
  BY <1>1 DEF UpType, Updating, expandConfig, expandDevices
<1>10. CpuInv'
  <2>1. Woken'
    BY <1>2 DEF Woken
  <2>2. UpToDate(StoredCpu)'
    BY <2>1 DEF UpToDate
  <2>3. StoredCpu' = StoredCpu /\ expandConfig(up.args)' = expandConfig(up.args)
    BY <1>1, <1>5, StoredCpuKept DEF expandConfig
  <2>4. ToTrigger' = ToTrigger
    BY <1>1 DEF ToTrigger
  <2>5. /\ containerValidDevices(stored.devices, FALSE)' = containerValidDevices(stored.devices, FALSE)
        /\ containerValidDevices(up.args.devices, FALSE)' = containerValidDevices(up.args.devices, FALSE)
    BY <1>1, <1>5
  <2> QED
    BY <1>1, <2>1, <2>2, <2>3, <2>4, <2>5 DEF CpuInv, Updating, Quiet
<1>11. NamesInv'
  <2>1. "names" \notin drift' => Distinct(c.names)
    BY <1>1, <1>4 DEF NamesInv
  <2>2. \A f : Within(f, stored.names) => Within(f, c.names)
    BY <1>4 DEF Within
  <2> QED
    BY <1>1, <1>5, <2>1, <2>2 DEF NamesInv, Updating
<1> QED
  BY <1>6, <1>7, <1>8, <1>9, <1>10, <1>11

(* A stop leaves nothing that runs (Stop).                                   *)
LEMMA StopStep ==
  ASSUME IInv, Stop
  PROVE  IInv'
<1> USE DEF IInv, TypeInv
<1>1. /\ running' = FALSE /\ live' = Empty /\ (drift' = drift \/ drift' = drift \cup {"live"})
      /\ deviceTaskSchedulerTrigger
      /\ UNCHANGED <<stored, profile, up, early, online, hotplug, sched, pins>>
  BY DEF Stop, Kept
<1>2. events' \in Nat /\ events' > 0
  BY <1>1, TriggerWakes DEF HostType
<1>3. LiveType'
  <2>1. DOMAIN <<>> = {} /\ IsFiniteSet({})
    BY FS_EmptySet
  <2>2. live'.nics = <<>> /\ DOMAIN live' = {"processes", "limit", "memsw", "mounts", "nics", "io"}
    BY <1>1 DEF Empty
  <2> QED
    BY <2>1, <2>2 DEF LiveType
<1>4. HostType' /\ RowsType' /\ SchedShape' /\ BalancedFairly'
  <2>1. RowsType' /\ SchedShape' /\ BalancedFairly'
    BY <1>1 DEF RowsType, SchedShape, BalancedFairly
  <2>2. running' \in BOOLEAN /\ early' \in BOOLEAN
    BY <1>1 DEF HostType
  <2> QED
    BY <1>1, <1>2, <2>1, <2>2 DEF HostType
<1>5. UpType'
  BY <1>1 DEF UpType, Updating, expandConfig, expandDevices
<1>6. CpuInv'
  <2>1. StoredCpu' = StoredCpu /\ expandConfig(up.args)' = expandConfig(up.args)
    BY <1>1, StoredCpuKept DEF expandConfig
  <2>2. ToTrigger' = ToTrigger
    BY <1>1 DEF ToTrigger
  <2>3. /\ containerValidDevices(stored.devices, FALSE)' = containerValidDevices(stored.devices, FALSE)
        /\ containerValidDevices(up.args.devices, FALSE)' = containerValidDevices(up.args.devices, FALSE)
    BY <1>1
  <2> QED
    BY <1>1, <2>1, <2>2, <2>3 DEF CpuInv, Updating, Quiet
<1>7. NamesInv'
  BY <1>1 DEF NamesInv, Updating
<1> QED
  BY <1>3, <1>4, <1>5, <1>6, <1>7

(* The scheduler reads the limits, hands out the cpus, writes the cpusets    *)
(* (Scheduler).                                                              *)
LEMMA SchedulerStep ==
  ASSUME IInv, Scheduler
  PROVE  IInv'
<1> USE DEF IInv, TypeInv
<1>1. UNCHANGED <<stored, profile, running, live, up, drift>>
  BY DEF Scheduler
<1>2. StoredCpu' = StoredCpu /\ expandConfig(up.args)' = expandConfig(up.args)
      /\ expandDevices(up.args)' = expandDevices(up.args) /\ ToTrigger' = ToTrigger
  BY <1>1, StoredCpuKept DEF expandConfig, expandDevices, ToTrigger
<1>3. RowsType' /\ LiveType' /\ UpType' /\ NamesInv'
  BY <1>1, <1>2 DEF RowsType, LiveType, UpType, Updating, NamesInv
<1>4. /\ containerValidDevices(stored.devices, FALSE)' = containerValidDevices(stored.devices, FALSE)
      /\ containerValidDevices(up.args.devices, FALSE)' = containerValidDevices(up.args.devices, FALSE)
  BY <1>1
<1>5. CASE Read(Limits) /\ early' = (~Quiet /\ up.settled)
  <2> DEFINE self == IF running THEN One(Self, StoredCpu) ELSE <<>>
  <2>1. Limits = Over(Others, self)
    BY DEF Limits, StoredCpu, Cpu
  <2>2. DOMAIN self = (IF running THEN {Self} ELSE {}) /\ \A c \in DOMAIN self : self[c] = StoredCpu
    BY DEF One
  <2>3. IsLimit(StoredCpu) /\ Self \notin DOMAIN Others /\ IsFiniteSet(DOMAIN Others)
        /\ \A c \in DOMAIN Others : IsLimit(Others[c])
    BY StoredLimit, UpdateAssumption DEF Self
  <2> HIDE DEF self
  <2>4. /\ DOMAIN Limits = DOMAIN Others \cup DOMAIN self
        /\ \A c \in DOMAIN Others : Limits[c] = Others[c]
        /\ \A c \in DOMAIN self \ DOMAIN Others : Limits[c] = self[c]
    <3> DEFINE all == Over(Others, self)
    <3>1. /\ DOMAIN all = DOMAIN Others \cup DOMAIN self
          /\ \A c \in DOMAIN Others : all[c] = Others[c]
          /\ \A c \in DOMAIN self \ DOMAIN Others : all[c] = self[c]
      BY OverEntries, Zenon
    <3> QED
      BY <2>1, <3>1
  <2>5. \A c \in DOMAIN Limits : IsLimit(Limits[c])
    BY <2>2, <2>3, <2>4
  <2>6. IsFiniteSet(DOMAIN Limits)
    <3>1. IsFiniteSet(DOMAIN Others \cup {Self})
      BY <2>3, FS_AddElement
    <3> QED
      BY <2>2, <2>3, <2>4, <3>1
  <2>7. running => Self \in DOMAIN Limits /\ Limits[Self] = StoredCpu
    <3> HAVE running
    <3>1. Self \in DOMAIN self \ DOMAIN Others
      BY <2>2, <2>3
    <3> QED
      BY <2>2, <2>4, <3>1
  <2> PICK limits : limits = Limits
    OBVIOUS
  <2>8. /\ SchedShape' /\ BalancedFairly'
        /\ events' \in Nat /\ hotplug' \in {0, 1} /\ sched'.phase = "balance"
        /\ Self \in DOMAIN limits => Shares(cpulimit(limits[Self]))'
    <3>1. Read(limits) /\ IsFiniteSet(DOMAIN limits) /\ \A c \in DOMAIN limits : IsLimit(limits[c])
      BY <1>5, <2>5, <2>6
    <3> QED
      BY <3>1, ReadStep
  <2>9. online' = online /\ pins' = pins
    BY <1>5 DEF Read
  <2>10. HostType'
    BY <1>1, <1>5, <2>8, <2>9 DEF HostType, Quiet
  <2>11. running => UpToDate(StoredCpu)'
    <3> HAVE running
    <3>1. Shares(cpulimit(StoredCpu))'
      <4>1. limits[Self] = StoredCpu' /\ Self \in DOMAIN limits
        BY <1>2, <2>7
      <4> QED
        BY <2>8, <4>1
    <3> QED
      BY <2>8, <3>1 DEF UpToDate
  <2>12. CpuInv'
    <3>1. Updating({"apply"}) /\ up.settled => early'
      BY <1>5 DEF Updating, Quiet
    <3> QED
      BY <1>1, <1>2, <1>4, <2>11, <3>1 DEF CpuInv, Updating, Quiet
  <2> QED
    BY <1>3, <2>8, <2>10, <2>12
<1>6. ASSUME UNCHANGED <<online, events, hotplug, early>>, HostType', SchedShape', BalancedFairly',
             \A limit : running /\ IsLimit(limit) /\ UpToDate(limit) => UpToDate(limit)'
      PROVE  IInv'
  <2>1. running => (UpToDate(StoredCpu) => UpToDate(StoredCpu)')
    BY <1>2, <1>6, StoredLimit
  <2>2. Updating({"validate", "live"}) => IsLimit(Cpu(up.config))
    BY CpuType DEF UpType, Updating, NoUpdate
  <2>3. running /\ Updating({"validate", "live"}) => (UpToDate(Cpu(up.config)) => UpToDate(Cpu(up.config))')
    BY <1>1, <1>6, <2>2
  <2>4. Woken' = Woken
    BY <1>6 DEF Woken
  <2>5. CpuInv'
    BY <1>1, <1>2, <1>4, <1>6, <2>1, <2>3, <2>4 DEF CpuInv, Updating, Quiet
  <2> QED
    BY <1>3, <1>6, <2>5
<1>7. CASE \E c \in DOMAIN sched.todo : Balance(c) /\ UNCHANGED early
  <2>1. PICK c \in DOMAIN sched.todo : Balance(c) /\ UNCHANGED early
    BY <1>7
  <2>2. UNCHANGED <<online, events, hotplug, pins>> /\ sched.phase = "balance"
    BY <2>1 DEF Balance
  <2>3. /\ SchedShape' /\ BalancedFairly' /\ sched'.phase = "balance"
        /\ \A k : (k.kind = "count" => k.n \in Nat) /\ Shares(k) => Shares(k)'
    BY <2>1, BalanceStep
  <2>4. HostType'
    BY <1>1, <2>1, <2>2 DEF HostType
  <2>5. ASSUME NEW limit, running, IsLimit(limit), UpToDate(limit)
        PROVE  UpToDate(limit)'
    <3>1. Woken \/ Shares(cpulimit(limit))
      BY <2>2, <2>5 DEF UpToDate
    <3>2. cpulimit(limit).kind = "count" => cpulimit(limit).n \in Nat
      BY <2>5, LimitType
    <3>3. cpulimit(limit)' = cpulimit(limit)
      BY <2>2 DEF cpulimit
    <3>4. Woken => Woken'
      BY <2>2 DEF Woken
    <3>5. Shares(cpulimit(limit)) => Shares(cpulimit(limit))'
      BY <2>3, <3>2, <3>3
    <3> QED
      BY <2>3, <3>1, <3>4, <3>5 DEF UpToDate
  <2> QED
    BY <1>6, <2>1, <2>2, <2>3, <2>4, <2>5
<1>8. CASE SetPinning(RunningNow) /\ UNCHANGED early
  <2>1. UNCHANGED <<online, events, hotplug>> /\ sched.phase = "balance"
    BY <1>8 DEF SetPinning
  <2>2. /\ SchedShape' /\ BalancedFairly' /\ sched'.phase = "idle"
        /\ pins' = [c \in Names |-> pins'[c]]
        /\ \A k : Self \in RunningNow /\ Shares(k) => PinsAre(k)'
    BY <1>8, SetPinningStep
  <2>3. HostType'
    BY <1>1, <1>8, <2>1, <2>2 DEF HostType
  <2>4. ASSUME NEW limit, running, IsLimit(limit), UpToDate(limit)
        PROVE  UpToDate(limit)'
    <3>1. Woken \/ Shares(cpulimit(limit))
      BY <2>1, <2>4 DEF UpToDate
    <3>2. Self \in RunningNow
      BY <2>4 DEF RunningNow
    <3>3. cpulimit(limit)' = cpulimit(limit)
      BY <2>1 DEF cpulimit
    <3>4. Woken => Woken'
      BY <2>1 DEF Woken
    <3>5. Shares(cpulimit(limit)) => PinsAre(cpulimit(limit))'
      BY <2>2, <3>2, <3>3
    <3> QED
      BY <2>2, <3>1, <3>4, <3>5 DEF UpToDate
  <2> QED
    BY <1>6, <1>8, <2>1, <2>2, <2>3, <2>4
<1> QED
  BY <1>5, <1>7, <1>8 DEF Scheduler

(* Cpus come or go: the scheduler will read the limits again (Hotplug).      *)
LEMMA HotplugStep ==
  ASSUME IInv, Hotplug
  PROVE  IInv'
<1> USE DEF IInv, TypeInv
<1>1. /\ UNCHANGED <<stored, profile, running, live, up, drift, early, events, sched, pins>>
      /\ hotplug' = 1 /\ online' \subseteq Cpus /\ online' # {}
  BY DEF Hotplug, deviceNetlinkListener
<1>2. StoredCpu' = StoredCpu /\ expandConfig(up.args)' = expandConfig(up.args)
      /\ expandDevices(up.args)' = expandDevices(up.args) /\ ToTrigger' = ToTrigger
  BY <1>1, StoredCpuKept DEF expandConfig, expandDevices, ToTrigger
<1>3. HostType' /\ RowsType' /\ LiveType' /\ SchedShape' /\ BalancedFairly'
  BY <1>1 DEF HostType, RowsType, LiveType, SchedShape, BalancedFairly
<1>4. UpType' /\ NamesInv'
  BY <1>1, <1>2 DEF UpType, Updating, NamesInv
<1>5. CpuInv'
  <2>1. Woken'
    BY <1>1 DEF Woken
  <2>2. UpToDate(StoredCpu)'
    BY <2>1 DEF UpToDate
  <2>3. /\ containerValidDevices(stored.devices, FALSE)' = containerValidDevices(stored.devices, FALSE)
        /\ containerValidDevices(up.args.devices, FALSE)' = containerValidDevices(up.args.devices, FALSE)
    BY <1>1
  <2> QED
    BY <1>1, <1>2, <2>1, <2>2, <2>3 DEF CpuInv, Updating, Quiet
<1> QED
  BY <1>3, <1>4, <1>5

-----------------------------------------------------------------------------
(* Theorems.                                                                 *)

(* Nothing runs and nothing is asked for yet.                                *)
LEMMA InitHolds ==
  ASSUME Init
  PROVE  IInv
<1>1. /\ online = Cpus /\ events = 0 /\ hotplug = 0 /\ sched = Asleep
      /\ pins = [c \in Names |-> Cpus] /\ profile \in ProfilePuts
      /\ stored = [config |-> <<>>, devices |-> <<>>, uses |-> TRUE, names |-> <<>>]
      /\ running = FALSE /\ live = Empty /\ up = NoUpdate /\ drift = {} /\ early = FALSE
  BY DEF Init, Names
<1>2. DOMAIN <<>> = {} /\ IsFiniteSet({}) /\ IsNames(<<>>)
  BY FS_EmptySet DEF IsNames
<1>3. HostType
  BY <1>1, SchedulerAssumption DEF HostType
<1>4. RowsType
  <2>1. IsConfig(profile.config) /\ IsDevices(profile.devices)
    BY <1>1, UpdateAssumption
  <2>2. IsConfig(<<>>) /\ IsDevices(<<>>)
    BY <1>2 DEF IsConfig, IsDevices
  <2> QED
    BY <1>1, <1>2, <2>1, <2>2 DEF RowsType, IsCopy, CopyFields
<1>5. up.phase = "idle" /\ Quiet
  BY <1>1 DEF NoUpdate, Quiet
<1>6. UpType
  BY <1>1, <1>5 DEF UpType, Updating
<1>7. LiveType
  <2>1. live.nics = <<>> /\ DOMAIN live = {"processes", "limit", "memsw", "mounts", "nics", "io"}
    BY <1>1 DEF Empty
  <2> QED
    BY <1>2, <2>1 DEF LiveType
<1>8. SchedShape /\ BalancedFairly
  BY <1>1, <1>2 DEF SchedShape, BalancedFairly, Asleep
<1>9. CpuInv
  BY <1>1, <1>2, <1>5 DEF CpuInv, Updating, containerValidDevices
<1>10. NamesInv
  BY <1>1, <1>2, <1>5 DEF NamesInv, Updating, Distinct
<1> QED
  BY <1>3, <1>4, <1>6, <1>7, <1>8, <1>9, <1>10 DEF IInv, TypeInv

(* No step of the update, of what runs beside it or of the scheduler breaks  *)
(* the invariant.                                                            *)
LEMMA NextKeeps ==
  ASSUME IInv, [Next]_vars
  PROVE  IInv'
<1>1. CASE containerPut
  BY <1>1, ContainerPutStep
<1>2. CASE profilePut
  BY <1>2, ProfilePutStep
<1>3. CASE Validate
  BY <1>3, ValidateStep
<1>4. CASE Invalid
  BY <1>4, InvalidStep
<1>5. CASE RootRefused
  BY <1>5, RootRefusedStep
<1>6. CASE Live
  BY <1>6, LiveStep
<1>7. CASE Take
  BY <1>7, TakeStep
<1>8. CASE Apply
  BY <1>8, ApplyStep
<1>9. CASE ApplyFails
  BY <1>9, ApplyFailsStep
<1>10. CASE Commit
  BY <1>10, CommitStep
<1>11. CASE Fault
  BY <1>11, FaultStep
<1>12. CASE Start
  BY <1>12, StartStep
<1>13. CASE Stop
  BY <1>13, StopStep
<1>14. CASE Scheduler
  BY <1>14, SchedulerStep
<1>15. CASE Hotplug
  BY <1>15, HotplugStep
<1>16. CASE UNCHANGED vars
  <2>1. UNCHANGED <<online, events, hotplug, sched, pins, stored, profile, running, live, up, drift, early>>
    BY <1>16 DEF vars
  <2>2. UNCHANGED <<StoredCpu, Woken, ToTrigger>>
    BY <2>1 DEF StoredCpu, expandConfig, Woken, ToTrigger, Cpu
  <2>3. \A limit : UpToDate(limit) => UpToDate(limit)'
    BY <2>1, <2>2, UpToDateKept
  <2>4. HostType' /\ RowsType' /\ UpType' /\ LiveType' /\ SchedShape' /\ BalancedFairly' /\ NamesInv'
    BY <2>1 DEF IInv, TypeInv, HostType, RowsType, UpType, LiveType, SchedShape, BalancedFairly,
                NamesInv, Updating, expandConfig, expandDevices
  <2>5. CpuInv'
    <3>1. expandConfig(up.args)' = expandConfig(up.args)
      BY <2>1 DEF expandConfig
    <3>2. /\ containerValidDevices(stored.devices, FALSE)' = containerValidDevices(stored.devices, FALSE)
          /\ containerValidDevices(up.args.devices, FALSE)' = containerValidDevices(up.args.devices, FALSE)
      BY <2>1
    <3>3. UpToDate(StoredCpu) => UpToDate(StoredCpu)'
      BY <2>2, <2>3
    <3>4. UpToDate(Cpu(up.config)) => UpToDate(Cpu(up.config))'
      BY <2>1, <2>3
    <3> QED
      BY <2>1, <2>2, <3>1, <3>2, <3>3, <3>4 DEF IInv, CpuInv, Updating, Quiet
  <2> QED
    BY <2>4, <2>5 DEF IInv, TypeInv
<1> QED
  BY <1>1, <1>2, <1>3, <1>4, <1>5, <1>6, <1>7, <1>8, <1>9, <1>10, <1>11, <1>12, <1>13, <1>14, <1>15,
     <1>16 DEF Next, Update

(* The inductive invariant, for whatever is asked for, whatever fails and    *)
(* whatever comes beside it.                                                 *)
THEOREM UpdateInvariant == Spec => []IInv
<1>1. Init => IInv
  BY InitHolds
<1>2. IInv /\ [Next]_vars => IInv'
  BY NextKeeps
<1> QED
  BY <1>1, <1>2, PTL DEF Spec

(* The scheduler gives every container the cpus its limit asks for, and      *)
(* loads no cpu with two containers more than another it could have used     *)
(* (deviceTaskBalance), for any cpus, other containers and requests.         *)
THEOREM SchedulerWorks == Spec => []SchedulerInv
<1>1. IInv => SchedulerInv
  <2> SUFFICES ASSUME IInv, SchedIdle, Quiet, running, ~early
               PROVE  PinsFollowConfig
    BY DEF SchedulerInv, PinsFollowConfig, IInv
  <2> DEFINE k == cpulimit(StoredCpu)
  <2>1. k = cpulimit(Or(expandConfig(stored), "limits.cpu", NoLimit))
    BY DEF StoredCpu, Cpu
  <2>2. UpToDate(StoredCpu)
    BY DEF IInv, CpuInv
  <2>3. PinsAre(k)
    BY <2>2 DEF UpToDate, Woken, SchedIdle, IInv, TypeInv, HostType
  <2> HIDE DEF k
  <2>4. CASE k.kind = "count" /\ k.n > 0
    BY <2>1, <2>3, <2>4 DEF PinsAre, PinsFollowConfig
  <2>5. CASE k.kind = "pin" /\ k.cpus \cap online # {}
    BY <2>1, <2>3, <2>5 DEF PinsAre, PinsFollowConfig
  <2>6. CASE ~(k.kind = "count" /\ k.n > 0) /\ ~(k.kind = "pin" /\ k.cpus \cap online # {})
    BY <2>1, <2>6 DEF PinsFollowConfig
  <2> QED
    BY <2>4, <2>5, <2>6
<1> QED
  BY <1>1, UpdateInvariant, PTL

(* Filling in names loses none that is stored.                               *)
LEMMA FillingKeepsNames ==
  ASSUME IInv
  PROVE  /\ Validate => Within(stored.names, stored'.names)
         /\ Start => Within(stored.names, stored'.names)
<1> USE DEF IInv, TypeInv
<1>1. ASSUME Validate
      PROVE  Within(stored.names, stored'.names)
  <2> DEFINE r == initLXC(up.args)
  <2>1. up.phase = "validate" /\ stored' = [stored EXCEPT !.names = r.rows]
    BY <1>1 DEF Validate
  <2>2. IsCopy(up.args) /\ Within(up.args.names, stored.names)
    BY <2>1 DEF UpType, NoUpdate, NamesInv, Updating
  <2>3. Within(stored.names, r.rows)
    BY <2>2, InitLXC
  <2> HIDE DEF r
  <2>4. stored'.names = r.rows
    BY <2>1 DEF RowsType, IsCopy, CopyFields
  <2> QED
    BY <2>3, <2>4
<1>2. ASSUME Start
      PROVE  Within(stored.names, stored'.names)
  <2> DEFINE load == containerLoadByName
             r == initLXC(load)
  <2>1. stored' = [stored EXCEPT !.names = r.c.names]
    BY <1>2 DEF Start
  <2>2. IsCopy(load) /\ load.names = stored.names /\ Within(load.names, stored.names)
    BY DEF IsCopy, CopyFields, RowsType, containerLoadByName, Within
  <2> HIDE DEF load
  <2>3. Within(load.names, r.c.names)
    BY <2>2, InitLXC
  <2> HIDE DEF r
  <2>4. stored'.names = r.c.names
    BY <2>1 DEF RowsType, IsCopy, CopyFields
  <2> QED
    BY <2>2, <2>3, <2>4
<1> QED
  BY <1>1, <1>2

(* What is stored is the copy, with the names of its nics.                   *)
LEMMA CommitKeepsNames ==
  ASSUME IInv, Commit
  PROVE  \A n \in DOMAIN stored.names : n \in Nics(expandDevices(stored)') =>
           n \in DOMAIN stored'.names /\ stored'.names[n] = stored.names[n]
<1> USE DEF IInv, TypeInv
<1> DEFINE names == Restrict(up.c.names, DOMAIN up.c.names \cap Nics(up.newDevices))
<1>1. /\ Applied /\ stored' = [up.c EXCEPT !.names = names] /\ UNCHANGED profile
  BY DEF Commit
<1>2. up.phase = "apply"
  BY <1>1 DEF Applied
<1>3. /\ IsCopy(up.c) /\ up.newDevices = expandDevices(up.args)
      /\ up.c.devices = up.args.devices /\ up.c.uses = up.args.uses
      /\ Within(up.c.names, stored.names) /\ Nics(up.newDevices) \subseteq DOMAIN up.c.names
  BY <1>2 DEF UpType, Updating, NoUpdate, NamesInv
<1>4. DOMAIN names = DOMAIN up.c.names \cap Nics(up.newDevices)
      /\ \A n \in DOMAIN names : names[n] = up.c.names[n]
  BY DEF Restrict
<1> HIDE DEF names
<1>5. /\ stored'.uses = up.c.uses /\ stored'.devices = up.c.devices /\ stored'.names = names
  BY <1>1, <1>3 DEF IsCopy, CopyFields
<1>6. expandDevices(stored)' = up.newDevices
  BY <1>1, <1>3, <1>5 DEF expandDevices
<1> QED
  BY <1>3, <1>4, <1>5, <1>6 DEF Within

(* Two nics are never given one name, and a nic keeps its name as long as    *)
(* the container has the device (initLXC, fillNetworkDevice, Update).        *)
THEOREM NamesStay == Spec => NamesKept
<1>1. IInv => NamesDistinct
  BY DEF IInv, NamesInv, NamesDistinct, Distinct
<1>2. IInv /\ [Next]_vars => [KeepsNames]_vars
  <2> SUFFICES ASSUME IInv, Next, NEW n \in DOMAIN stored.names, n \in Nics(expandDevices(stored)')
               PROVE  n \in DOMAIN stored'.names /\ stored'.names[n] = stored.names[n]
    BY DEF KeepsNames
  <2>1. CASE Validate \/ Start
    BY <2>1, FillingKeepsNames DEF Within
  <2>2. CASE Commit
    BY <2>2, CommitKeepsNames
  <2>3. CASE UNCHANGED stored
    BY <2>3
  <2>4. Next => Validate \/ Start \/ Commit \/ UNCHANGED stored
    BY DEF Next, Update, containerPut, profilePut, Invalid, RootRefused, Live, Take, Apply, ApplyFails,
           Fault, Undo, Stop, Scheduler, Hotplug, Kept
  <2> QED
    BY <2>1, <2>2, <2>3, <2>4
<1>3. Spec => []NamesDistinct
  BY <1>1, UpdateInvariant, PTL
<1>4. Spec => [][KeepsNames]_vars
  BY <1>2, UpdateInvariant, PTL DEF Spec
<1> QED
  BY <1>3, <1>4, PTL DEF NamesKept

-----------------------------------------------------------------------------
(* What is applied to the running container.                                 *)

Processes(config) == Or(config, "limits.processes", 0)

\* Nothing has failed or come between since the container was started.
Calm == running /\ "live" \notin drift

Limited(config) ==
  /\ live.processes = Processes(config)
  /\ live.limit = Memory(config) /\ live.memsw = Memory(config)

MemoryPlan == ApplyMemory(Or(up.newConfig, "limits.memory", 0))
ProcessesPlan == <<Do("cgroup", "limits.processes", Processes(up.newConfig))>>
DiskPlan(n) == <<Do("io", n, getDiskLimits(up.newDevices))>>
NicPlan(n) == setNetworkLimits(n, up.newDevices[n])

\* A plan that sets no limit of the container as a whole, and those of the disks as
\* they are to be.
Beside(plan) ==
  /\ plan \in Seq(Range(plan))
  /\ \A step \in Range(plan) :
       /\ step.do # "memory" /\ step.do # "cgroup"
       /\ step.do = "io" => step.v = getDiskLimits(up.newDevices)

\* What the groups consist of.
PlansAre ==
  /\ DOMAIN up.group = 1..6
  /\ \A plan \in up.group[1] : plan = MemoryPlan \/ plan = ProcessesPlan \/ Beside(plan)
  /\ \A i \in 2..6 : \A plan \in up.group[i] : Beside(plan)
  /\ \A plan \in up.group[5] :
       \E n \in Diff(up.devices, up.newDevices).upd : plan = NicPlan(n)
  /\ \A plan \in up.group[6] : \E n : plan = DiskPlan(n)

\* The k-th write to the memory cgroup and those after it are left, of six.
MemoryLeft(k) == [i \in 1..(7 - k) |-> MemoryPlan[i + k - 1]]
MemoryAt(k) ==
  /\ live.limit = IF k <= 2 THEN Memory(up.config) ELSE IF k <= 4 THEN Unlimited ELSE Memory(up.newConfig)
  /\ live.memsw = IF k = 1 THEN Memory(up.config) ELSE IF k <= 5 THEN Unlimited ELSE Memory(up.newConfig)

DoesNotLimit == up.doing = ProcessesPlan \/ Beside(up.doing)

\* The memory limit is the old one, in the middle of the change, or the new one.
MemoryInv ==
  \/ MemoryPlan \in up.group[1] /\ DoesNotLimit
       /\ live.limit = Memory(up.config) /\ live.memsw = Memory(up.config)
  \/ /\ MemoryPlan \notin up.group[1]
     /\ \E k \in 1..6 : up.doing = MemoryLeft(k) /\ MemoryAt(k)
     /\ up.mem = [limit |-> Memory(up.config), memsw |-> Memory(up.config)]
  \/ MemoryPlan \notin up.group[1] /\ DoesNotLimit
       /\ live.limit = Memory(up.newConfig) /\ live.memsw = Memory(up.newConfig)

ProcessesInv ==
  ProcessesPlan \in up.group[1] \/ up.doing = ProcessesPlan \/ live.processes = Processes(up.newConfig)

DisksInv ==
  (\E n \in Diff(up.devices, up.newDevices).upd : up.newDevices[n].type = "disk") =>
    \/ \E n : DiskPlan(n) \in up.group[6] \/ up.doing = DiskPlan(n)
    \/ live.io = getDiskLimits(up.newDevices)

\* The limits of a nic are changed after all that attaches or detaches one.
NicsInv ==
  LET d == Diff(up.devices, up.newDevices)
  IN \A n \in Nics(up.newDevices) : d.upd = {n} /\ d.add = {} =>
       \/ NicPlan(n) \in up.group[5]
       \/ /\ \A i \in 1..5 : up.group[i] = {}
          /\ \/ up.doing = NicPlan(n)
             \/ /\ up.doing = <<>> \/ \E m : up.doing = DiskPlan(m)
                /\ live.nics[up.c.names[n]].limit = up.newDevices[n].limit

ApplyInv == PlansAre /\ MemoryInv /\ ProcessesInv /\ DisksInv /\ NicsInv

NicsType ==
  live.nics = [i \in DOMAIN live.nics |-> live.nics[i]]
    /\ \A i \in DOMAIN live.nics : DOMAIN live.nics[i] = {"dev", "at", "limit"}

\* The size that the root volume has been given.
QuotaInv ==
  "quota" \notin drift =>
    /\ Quiet => quota = RootSize(expandDevices(stored))
    /\ Updating({"validate", "live"}) => quota = RootSize(up.devices)
    /\ Updating({"apply"}) => quota = RootSize(up.newDevices)

LimitsInv ==
  /\ NicsType /\ QuotaInv
  /\ Updating({"validate", "live"}) => up.doing = <<>>
  /\ Updating({"validate"}) =>
       \/ expandConfig(stored) = up.config /\ expandDevices(stored) = up.devices
       \/ containerValidDevices(up.args.devices, FALSE)
  /\ Calm =>
       /\ Quiet => Limited(expandConfig(stored))
       /\ Updating({"validate", "live"}) => Limited(up.config)
       /\ Updating({"apply"}) => ApplyInv
-----------------------------------------------------------------------------
(* The memory limit of a configuration.                                      *)
LEMMA MemoryType ==
  ASSUME NEW config, IsConfig(config)
  PROVE  /\ Memory(config) \in Nat /\ Memory(config) <= Unlimited
         /\ Memory(config) = IF Or(config, "limits.memory", 0) = 0 THEN Unlimited
                             ELSE Or(config, "limits.memory", 0)
         /\ Or(config, "limits.memory", 0) # 0 => Memory(config) < Unlimited
  BY DEF Memory, Or, IsConfig, Unlimited

(* A change touches the part of the container that it is about.              *)
LEMMA LiveAfterIs ==
  ASSUME LiveType, NicsType, NEW step
  PROVE  LET after == LiveAfter(step)
             mem == Write(Mem, step.x, step.v) IN
         /\ after.processes = IF step.do = "cgroup" THEN step.v ELSE live.processes
         /\ after.limit = IF step.do = "memory" THEN mem.limit ELSE live.limit
         /\ after.memsw = IF step.do = "memory" THEN mem.memsw ELSE live.memsw
         /\ after.io = IF step.do = "io" THEN step.v ELSE live.io
         /\ step.do \notin {"attach", "detach", "tc"} => after.nics = live.nics
         /\ LET i == up.c.names[step.x] IN
              step.do = "tc" /\ i \in DOMAIN live.nics =>
                i \in DOMAIN after.nics /\ after.nics[i].limit = step.v.limit
<1> DEFINE i == up.c.names[step.x]
           mem == Write(Mem, step.x, step.v)
<1>1. CASE step.do = "attach"
  <2> DEFINE nics == Over(One(i, [dev |-> step.x, at |-> step.v.at, limit |-> 0]), live.nics)
  <2>1. LiveAfter(step) = [live EXCEPT !.nics = nics]
    BY <1>1 DEF LiveAfter
  <2> HIDE DEF nics
  <2> QED
    BY <1>1, <2>1 DEF LiveType
<1>2. CASE step.do = "detach"
  <2> DEFINE nics == Restrict(live.nics, DOMAIN live.nics \ {i})
  <2>1. LiveAfter(step) = [live EXCEPT !.nics = nics]
    BY <1>2 DEF LiveAfter
  <2> HIDE DEF nics
  <2> QED
    BY <1>2, <2>1 DEF LiveType
<1>3. CASE step.do = "tc"
  <2> DEFINE nics == [live.nics EXCEPT ![i].limit = step.v.limit]
  <2>1. LiveAfter(step) = [live EXCEPT !.nics = nics]
    BY <1>3 DEF LiveAfter
  <2>2. i \in DOMAIN live.nics => i \in DOMAIN nics /\ nics[i].limit = step.v.limit
    BY DEF NicsType
  <2> HIDE DEF nics
  <2> QED
    BY <1>3, <2>1, <2>2 DEF LiveType
<1>4. CASE step.do = "memory"
  <2>1. LiveAfter(step) = [live EXCEPT !.limit = mem.limit, !.memsw = mem.memsw]
    BY <1>4 DEF LiveAfter, WithMem
  <2> HIDE DEF mem
  <2> QED
    BY <1>4, <2>1 DEF LiveType, mem
<1>5. CASE step.do \notin {"attach", "detach", "tc", "memory"}
  <2>1. LiveAfter(step) = CASE step.do = "cgroup" -> [live EXCEPT !.processes = step.v]
                            [] step.do = "io" -> [live EXCEPT !.io = step.v]
                            [] step.do = "mount" -> [live EXCEPT !.mounts = @ \cup {Node(step.v)}]
                            [] step.do = "umount" -> [live EXCEPT !.mounts = @ \ {Node(step.v)}]
                            [] OTHER -> live
    BY <1>5 DEF LiveAfter
  <2> QED
    BY <1>5, <2>1 DEF LiveType
<1> QED
  BY <1>1, <1>2, <1>3, <1>4, <1>5

(* The interfaces stay what they are but for what a change sets of one.      *)
LEMMA LiveAfterNics ==
  ASSUME LiveType, NicsType, NEW step, live' = LiveAfter(step)
  PROVE  NicsType'
<1> DEFINE i == up.c.names[step.x]
<1>1. CASE step.do = "attach"
  <2> DEFINE d == [dev |-> step.x, at |-> step.v.at, limit |-> 0]
             nics == Over(One(i, d), live.nics)
  <2>1. LiveAfter(step) = [live EXCEPT !.nics = nics]
    BY <1>1 DEF LiveAfter
  <2>2. nics = [n \in DOMAIN nics |-> nics[n]] /\ \A n \in DOMAIN nics : DOMAIN nics[n] = {"dev", "at", "limit"}
    BY DEF NicsType, Over, One
  <2> HIDE DEF nics
  <2>3. live'.nics = nics
    BY <2>1 DEF LiveType
  <2> QED
    BY <2>2, <2>3 DEF NicsType
<1>2. CASE step.do = "detach"
  <2> DEFINE nics == Restrict(live.nics, DOMAIN live.nics \ {i})
  <2>1. LiveAfter(step) = [live EXCEPT !.nics = nics]
    BY <1>2 DEF LiveAfter
  <2>2. nics = [n \in DOMAIN nics |-> nics[n]] /\ \A n \in DOMAIN nics : DOMAIN nics[n] = {"dev", "at", "limit"}
    BY DEF NicsType, Restrict
  <2> HIDE DEF nics
  <2>3. live'.nics = nics
    BY <2>1 DEF LiveType
  <2> QED
    BY <2>2, <2>3 DEF NicsType
<1>3. CASE step.do = "tc"
  <2> DEFINE nics == [live.nics EXCEPT ![i].limit = step.v.limit]
  <2>1. LiveAfter(step) = [live EXCEPT !.nics = nics]
    BY <1>3 DEF LiveAfter
  <2>2. nics = [n \in DOMAIN nics |-> nics[n]] /\ \A n \in DOMAIN nics : DOMAIN nics[n] = {"dev", "at", "limit"}
    BY DEF NicsType
  <2> HIDE DEF nics
  <2>3. live'.nics = nics
    BY <2>1 DEF LiveType
  <2> QED
    BY <2>2, <2>3 DEF NicsType
<1>4. CASE step.do \notin {"attach", "detach", "tc"}
  <2>1. live'.nics = live.nics
    BY <1>4, LiveAfterIs
  <2> QED
    BY <2>1 DEF NicsType
<1> QED
  BY <1>1, <1>2, <1>3, <1>4

(* A sequence is one of the entries it has.                                  *)
LEMMA SeqOfEntries ==
  ASSUME NEW S, NEW T, NEW s \in Seq(S), \A i \in 1..Len(s) : s[i] \in T
  PROVE  s \in Seq(T)
  OBVIOUS

(* What is left of a plan.                                                   *)
LEMMA RestOfPlan ==
  ASSUME NEW plan, Beside(plan), plan # <<>>
  PROVE  /\ Beside(Tail(plan))
         /\ Head(plan).do # "memory" /\ Head(plan).do # "cgroup"
         /\ Head(plan).do = "io" => Head(plan).v = getDiskLimits(up.newDevices)
<1>1. /\ plan \in Seq(Range(plan))
      /\ \A step \in Range(plan) :
           /\ step.do # "memory" /\ step.do # "cgroup"
           /\ step.do = "io" => step.v = getDiskLimits(up.newDevices)
  BY DEF Beside
<1>2. Len(plan) \in Nat \ {0} /\ plan = [i \in 1..Len(plan) |-> plan[i]]
  BY <1>1
<1>3. /\ Head(plan) = plan[1] /\ DOMAIN Tail(plan) = 1..(Len(plan) - 1)
      /\ \A i \in DOMAIN Tail(plan) : Tail(plan)[i] = plan[i + 1]
  BY <1>1, <1>2
<1>4. Head(plan) \in Range(plan)
  BY <1>2, <1>3 DEF Range
<1>5. Range(Tail(plan)) \subseteq Range(plan)
  BY <1>2, <1>3 DEF Range
<1>6. Tail(plan) \in Seq(Range(Tail(plan)))
  <2>1. Tail(plan) \in Seq(Range(plan)) /\ Len(Tail(plan)) \in Nat
    BY <1>1, <1>2
  <2>2. \A i \in 1..Len(Tail(plan)) : Tail(plan)[i] \in Range(Tail(plan))
    BY <2>1 DEF Range
  <2> QED
    BY <2>1, <2>2, SeqOfEntries
<1> QED
  BY <1>1, <1>4, <1>5, <1>6 DEF Beside

(* Plans of a step or two.                                                   *)
LEMMA OneStep ==
  ASSUME NEW s, s.do # "memory", s.do # "cgroup", s.do = "io" => s.v = getDiskLimits(up.newDevices)
  PROVE  Beside(<<s>>)
<1>1. Range(<<s>>) = {s} /\ <<s>> \in Seq({s})
  BY DEF Range
<1> QED
  BY <1>1 DEF Beside

(* A plan of two.                                                            *)
LEMMA TwoSteps ==
  ASSUME NEW s, NEW t, s.do \notin {"memory", "cgroup", "io"}, t.do \notin {"memory", "cgroup", "io"}
  PROVE  Beside(<<s, t>>)
<1>1. Range(<<s, t>>) = {s, t} /\ <<s, t>> \in Seq({s, t})
  BY DEF Range
<1> QED
  BY <1>1 DEF Beside

(* No step is left.                                                          *)
LEMMA NoStep == Beside(<<>>)
<1>1. Range(<<>>) = {} /\ <<>> \in Seq({})
  BY DEF Range
<1> QED
  BY <1>1 DEF Beside

(* The disks are made and mounted, whatever their number.                    *)
LEMMA DisksPlan ==
  ASSUME NEW disks, NEW new, IsFiniteSet(disks)
  PROVE  Beside(addDiskDevices(disks, new))
<1> DEFINE byPath == SetToSeq(disks)
           inserted == [n \in disks |-> insertDiskDevice(n, new[n])]
           N == Cardinality(disks)
           plan == addDiskDevices(disks, new)
           at(i) == inserted[byPath[(i + 1) \div 2]][2 - (i % 2)]
<1>1. N \in Nat /\ byPath \in [1..N -> disks]
  BY InOrder
<1>2. plan = [i \in 1..(2 * N) |-> at(i)]
  BY DEF addDiskDevices
<1>3. \A i \in 1..(2 * N) : at(i).do \in {"node", "mount"}
  <2> TAKE i \in 1..(2 * N)
  <2>1. (i + 1) \div 2 \in 1..N
    BY <1>1
  <2> DEFINE n == byPath[(i + 1) \div 2]
  <2>2. n \in disks
    BY <1>1, <2>1
  <2>3. inserted[n] = <<Do("node", n, new[n]), Do("mount", n, new[n])>>
    BY <2>2 DEF insertDiskDevice, createDiskDevice, insertMount
  <2>4. i % 2 = 0 \/ i % 2 = 1
    OBVIOUS
  <2> HIDE DEF n, inserted
  <2>5. inserted[n][1].do = "node" /\ inserted[n][2].do = "mount"
    BY <2>3 DEF Do
  <2> QED
    BY <2>4, <2>5 DEF n
<1> HIDE DEF at
<1>4. plan \in Seq(Range(plan))
  BY <1>1, <1>2 DEF Range
<1>5. \A step \in Range(plan) : step.do \in {"node", "mount"}
  BY <1>2, <1>3 DEF Range
<1> QED
  BY <1>4, <1>5 DEF Beside

(* What there is to apply for a change of configuration keys.                *)
LEMMA ConfigPlans ==
  ASSUME IsConfig(up.config), IsConfig(up.newConfig)
  PROVE  LET group == {LiveConfig(k, up.newConfig) : k \in ChangedKeys(up.config, up.newConfig)} IN
         /\ \A plan \in group : plan = MemoryPlan \/ plan = ProcessesPlan \/ Beside(plan)
         /\ MemoryPlan \in group \/ Memory(up.config) = Memory(up.newConfig)
         /\ ProcessesPlan \in group \/ Processes(up.config) = Processes(up.newConfig)
<1> DEFINE keys == ChangedKeys(up.config, up.newConfig)
           group == {LiveConfig(k, up.newConfig) : k \in keys}
<1>1. keys \subseteq {"limits.memory", "limits.cpu", "limits.processes"}
  BY DEF ChangedKeys, IsConfig
<1>2. /\ LiveConfig("limits.memory", up.newConfig) = MemoryPlan
      /\ LiveConfig("limits.cpu", up.newConfig) = TriggerPlan
      /\ LiveConfig("limits.processes", up.newConfig) = ProcessesPlan
  BY DEF LiveConfig, MemoryPlan, TriggerPlan, ProcessesPlan, Processes
<1>3. Beside(TriggerPlan)
  <2>1. Do("trigger", "limits.cpu", 0).do = "trigger"
    BY DEF Do
  <2> QED
    BY <2>1, OneStep DEF TriggerPlan
<1>4. "limits.memory" \notin keys => Memory(up.config) = Memory(up.newConfig)
  BY DEF ChangedKeys, Memory, Or
<1>5. "limits.processes" \notin keys => Processes(up.config) = Processes(up.newConfig)
  BY DEF ChangedKeys, Processes, Or
<1>6. /\ "limits.memory" \in keys => MemoryPlan \in group
      /\ "limits.processes" \in keys => ProcessesPlan \in group
  BY <1>2
<1>7. ASSUME NEW plan \in group
      PROVE  plan = MemoryPlan \/ plan = ProcessesPlan \/ Beside(plan)
  <2>1. PICK k \in keys : plan = LiveConfig(k, up.newConfig)
    OBVIOUS
  <2> HIDE DEF keys, group
  <2> QED
    BY <1>1, <1>2, <1>3, <2>1
<1> HIDE DEF keys
<1> QED
  BY <1>4, <1>5, <1>6, <1>7 DEF keys

(* What there is to apply for a change of devices.                           *)
LEMMA DevicePlans ==
  ASSUME NEW looked, IsDevices(up.devices), IsDevices(up.newDevices)
  PROVE  LET group == LiveSteps(up.devices, up.config, up.newDevices, up.newConfig, looked)
             d == Diff(up.devices, up.newDevices) IN
         /\ DOMAIN group = 1..6
         /\ \A i \in 2..6 : \A plan \in group[i] : Beside(plan)
         /\ \A plan \in group[5] : \E n \in d.upd : plan = NicPlan(n)
         /\ \A plan \in group[6] : \E n : plan = DiskPlan(n)
         /\ \A n \in d.upd : up.newDevices[n].type = "disk" => DiskPlan(n) \in group[6]
         /\ \A n \in Nics(up.newDevices) :
              d.upd = {n} /\ d.add = {} /\ looked \subseteq d.add \cup d.upd /\ looked # {} => NicPlan(n) \in group[5]
<1> DEFINE old == up.devices
           new == up.newDevices
           d == Diff(old, new)
           disks == DevicesOf(d.add, new, "disk")
           needsUpdate == \E n \in looked : "limit" \in updateDiff(old, new, n)
           tc == {n \in DevicesOf(d.upd, new, "nic") : needsUpdate}
           io == {n \in d.upd : new[n].type = "disk"}
           g2 == {removeUnixDevice(n, old[n]) : n \in DevicesOf(d.rm, old, "unix")}
                   \cup {removeDiskDevice(n, old[n]) : n \in DevicesOf(d.rm, old, "disk")}
                   \cup {removeNetworkDevice(n, old[n]) : n \in DevicesOf(d.rm, old, "nic")}
           g3 == {insertUnixDevice(n, new[n]) : n \in DevicesOf(d.add, new, "unix")}
                   \cup {insertNetworkDevice(n, new[n]) : n \in DevicesOf(d.add, new, "nic")}
           g4 == IF disks = {} THEN {} ELSE {addDiskDevices(disks, new)}
           g5 == {setNetworkLimits(n, new[n]) : n \in tc}
           g6 == {<<Do("io", n, getDiskLimits(new))>> : n \in io}
           group == LiveSteps(up.devices, up.config, up.newDevices, up.newConfig, looked)
<1>1. PICK g1 : group = <<g1, g2, g3, g4, g5, g6>>
  BY DEF LiveSteps
<1>2. /\ DOMAIN group = 1..6 /\ group[2] = g2 /\ group[3] = g3 /\ group[4] = g4
      /\ group[5] = g5 /\ group[6] = g6
  <2> HIDE DEF g2, g3, g4, g5, g6, group
  <2> QED
    BY <1>1
<1>3. \A plan \in g2 : Beside(plan)
  <2>1. \A n : Beside(removeUnixDevice(n, old[n])) /\ Beside(removeDiskDevice(n, old[n]))
    BY TwoSteps DEF removeUnixDevice, removeDiskDevice, removeMount, Do
  <2>2. \A n : Beside(removeNetworkDevice(n, old[n]))
    BY OneStep DEF removeNetworkDevice, Do
  <2> QED
    BY <2>1, <2>2
<1>4. \A plan \in g3 : Beside(plan)
  <2>1. \A n : Beside(insertUnixDevice(n, new[n]))
    BY TwoSteps DEF insertUnixDevice, createUnixDevice, insertMount, Do
  <2>2. \A n : Beside(insertNetworkDevice(n, new[n]))
    BY TwoSteps DEF insertNetworkDevice, createNetworkDevice, Do
  <2> QED
    BY <2>1, <2>2
<1>5. \A plan \in g4 : Beside(plan)
  <2>1. IsFiniteSet(disks)
    <3>1. disks \in SUBSET DOMAIN new
      BY DEF DevicesOf, Diff
    <3> QED
      BY <3>1, FS_Subset DEF IsDevices
  <2> HIDE DEF disks
  <2> QED
    BY <2>1, DisksPlan
<1>6. \A plan \in g5 : Beside(plan) /\ \E n \in d.upd : plan = NicPlan(n)
  <2>1. \A n : Beside(NicPlan(n))
    BY OneStep DEF NicPlan, setNetworkLimits, Do
  <2>2. \A n \in tc : n \in d.upd
    BY DEF DevicesOf
  <2> HIDE DEF d, tc
  <2> QED
    BY <2>1, <2>2 DEF NicPlan
<1>7. \A plan \in g6 : Beside(plan) /\ \E n : plan = DiskPlan(n)
  <2>1. \A n : Beside(DiskPlan(n))
    BY OneStep DEF DiskPlan, Do
  <2> HIDE DEF io
  <2> QED
    BY <2>1 DEF DiskPlan
<1>8. \A n \in d.upd : new[n].type = "disk" => DiskPlan(n) \in g6
  BY DEF DiskPlan
<1>9. ASSUME NEW n \in Nics(new), d.upd = {n}, d.add = {}, looked \subseteq d.add \cup d.upd, looked # {}
      PROVE  NicPlan(n) \in g5
  <2>1. n \in looked
    BY <1>9
  <2>2. n \in DOMAIN old /\ n \in DOMAIN new /\ old[n] # new[n]
        /\ [old[n] EXCEPT !.limit = 0] = [new[n] EXCEPT !.limit = 0]
    BY <1>9 DEF Diff
  <2>3. IsDevice(old[n]) /\ IsDevice(new[n])
    BY <2>2 DEF IsDevices
  <2>4. old[n].limit # new[n].limit
    <3> DEFINE o == old[n]
               w == new[n]
    <3>1. /\ o = [type |-> o.type, at |-> o.at, limit |-> o.limit, size |-> o.size]
          /\ w = [type |-> w.type, at |-> w.at, limit |-> w.limit, size |-> w.size]
      BY <2>3 DEF IsDevice
    <3>2. o # w /\ [o EXCEPT !.limit = 0] = [w EXCEPT !.limit = 0]
      BY <2>2
    <3> HIDE DEF o, w
    <3>3. [o EXCEPT !.limit = 0] = [type |-> o.type, at |-> o.at, limit |-> 0, size |-> o.size]
      BY <3>1
    <3>4. [w EXCEPT !.limit = 0] = [type |-> w.type, at |-> w.at, limit |-> 0, size |-> w.size]
      BY <3>1
    <3>5. o.type = w.type /\ o.at = w.at /\ o.size = w.size
      BY <3>2, <3>3, <3>4
    <3>6. o.limit # w.limit
      BY <3>1, <3>2, <3>5
    <3> QED
      BY <3>6 DEF o, w
  <2>5. "limit" \in updateDiff(old, new, n)
    <3>1. updateDiff(old, new, n) = {k \in {"type", "at", "size", "limit"} : old[n][k] # new[n][k]}
      BY <2>2 DEF updateDiff
    <3>2. old[n]["limit"] # new[n]["limit"]
      BY <2>4
    <3> QED
      BY <3>1, <3>2
  <2>6. n \in DevicesOf(d.upd, new, "nic")
    BY <1>9 DEF DevicesOf, Nics, IsRoot
  <2>7. n \in tc
    BY <1>9, <2>1, <2>5, <2>6
  <2> HIDE DEF tc
  <2> QED
    BY <2>7 DEF NicPlan
<1> HIDE DEF d, g2, g3, g4, g5, g6, group
<1> SUFFICES /\ DOMAIN group = 1..6
             /\ \A i \in 2..6 : \A plan \in group[i] : Beside(plan)
             /\ \A plan \in group[5] : \E n \in d.upd : plan = NicPlan(n)
             /\ \A plan \in group[6] : \E n : plan = DiskPlan(n)
             /\ \A n \in d.upd : new[n].type = "disk" => DiskPlan(n) \in group[6]
             /\ \A n \in Nics(new) :
                  d.upd = {n} /\ d.add = {} /\ looked \subseteq d.add \cup d.upd /\ looked # {} => NicPlan(n) \in group[5]
  BY DEF d, group
<1>10. \A i \in 2..6 : i = 2 \/ i = 3 \/ i = 4 \/ i = 5 \/ i = 6
  OBVIOUS
<1>11. \A i \in 2..6 : \A plan \in group[i] : Beside(plan)
  BY <1>2, <1>3, <1>4, <1>5, <1>6, <1>7, <1>10
<1> QED
  BY <1>2, <1>6, <1>7, <1>8, <1>9, <1>11

-----------------------------------------------------------------------------
(* The limits beside the requests.                                           *)

(* containerPut: the request starts from what is in force.                   *)
LEMMA PutLimits ==
  ASSUME IInv, LimitsInv, containerPut
  PROVE  LimitsInv'
<1>1. PICK args : up' = Loaded(args)
  BY DEF containerPut
<1>2. Quiet /\ UNCHANGED <<stored, profile, running, live, quota, drift>>
  BY DEF containerPut
<1>3. /\ up'.phase = "validate" /\ up'.doing = <<>>
      /\ up'.config = expandConfig(containerLoadByName) /\ up'.devices = expandDevices(containerLoadByName)
  BY <1>1 DEF Loaded
<1>4. /\ expandConfig(containerLoadByName) = expandConfig(stored)
      /\ expandDevices(containerLoadByName) = expandDevices(stored)
  BY DEF containerLoadByName, expandConfig, expandDevices
<1>5. expandConfig(stored)' = expandConfig(stored) /\ expandDevices(stored)' = expandDevices(stored)
  BY <1>2 DEF expandConfig, expandDevices
<1> QED
  BY <1>2, <1>3, <1>4, <1>5 DEF LimitsInv, NicsType, QuotaInv, Limited, Calm, Updating, Quiet

(* profilePut: the container's own update starts from what was in force.     *)
LEMMA ProfileLimits ==
  ASSUME IInv, LimitsInv, profilePut
  PROVE  LimitsInv'
<1>1. /\ up' = IF stored.uses /\ profile' # profile THEN Loaded(containerLoadByName) ELSE up
      /\ Quiet /\ UNCHANGED <<stored, running, live, quota, drift>>
  BY DEF profilePut
<1>2. CASE stored.uses /\ profile' # profile
  <2>1. /\ up'.phase = "validate" /\ up'.doing = <<>> /\ up'.args = containerLoadByName
        /\ up'.config = expandConfig(containerLoadByName) /\ up'.devices = expandDevices(containerLoadByName)
    BY <1>1, <1>2 DEF Loaded
  <2>2. /\ expandConfig(containerLoadByName) = expandConfig(stored)
        /\ expandDevices(containerLoadByName) = expandDevices(stored)
        /\ containerLoadByName.devices = stored.devices
    BY DEF containerLoadByName, expandConfig, expandDevices
  <2>3. containerValidDevices(up.args.devices, FALSE)'
    BY <2>1, <2>2 DEF IInv, CpuInv, containerValidDevices
  <2> QED
    BY <1>1, <2>1, <2>2, <2>3 DEF LimitsInv, NicsType, QuotaInv, Limited, Calm, Updating, Quiet
<1>3. CASE ~(stored.uses /\ profile' # profile)
  <2>1. up' = up /\ up.phase = "idle"
    BY <1>1, <1>3 DEF Quiet
  <2>2. expandConfig(stored)' = expandConfig(stored) /\ expandDevices(stored)' = expandDevices(stored)
    BY <1>1, <1>3 DEF expandConfig, expandDevices
  <2> QED
    BY <1>1, <2>1, <2>2 DEF LimitsInv, NicsType, QuotaInv, Limited, Calm, Updating, Quiet
<1> QED
  BY <1>2, <1>3

(* A request that fails leaves what it has done of it.                       *)
LEMMA UndoLimits ==
  ASSUME IInv, LimitsInv, Undo, live'.nics = live.nics
  PROVE  LimitsInv'
<1>1. up' = NoUpdate /\ drift' = drift \cup {"live", "quota"}
  BY DEF Undo
<1>2. up'.phase = "idle"
  BY <1>1 DEF NoUpdate
<1>3. ~Calm' /\ "quota" \in drift'
  BY <1>1 DEF Calm
<1> QED
  BY <1>2, <1>3 DEF LimitsInv, NicsType, QuotaInv, Updating

(* RootRefused, ApplyFails, Fault.                                           *)
LEMMA FailureLimits ==
  ASSUME IInv, LimitsInv, RootRefused \/ ApplyFails \/ Fault
  PROVE  LimitsInv'
<1>1. Undo
  BY DEF RootRefused, ApplyFails, Fault
<1>2. live'.nics = live.nics
  <2>1. CASE RootRefused \/ Fault
    BY <2>1 DEF RootRefused, Fault
  <2>2. CASE ApplyFails
    <3> DEFINE mem == revertMemory(up.mem)
               back == [live EXCEPT !.limit = mem.limit, !.memsw = mem.memsw]
    <3>1. live' = back \/ live' = live
      BY <2>2 DEF ApplyFails, WithMem
    <3>2. back.nics = live.nics
      BY DEF IInv, TypeInv, LiveType
    <3> HIDE DEF back
    <3> QED
      BY <3>1, <3>2
  <2> QED
    BY <2>1, <2>2
<1> QED
  BY <1>1, <1>2, UndoLimits

(* Validate: the names are filled in, no more.                               *)
LEMMA ValidateLimits ==
  ASSUME IInv, LimitsInv, Validate
  PROVE  LimitsInv'
<1> DEFINE r == initLXC(up.args)
<1>1. /\ up.phase = "validate" /\ containerValidDevices(up.args.devices, FALSE)
      /\ up' = [up EXCEPT !.phase = "live", !.c = r.c, !.newConfig = expandConfig(up.args),
                          !.newDevices = expandDevices(up.args)]
      /\ (drift' = drift \/ drift' = drift \cup {"names"})
      /\ UNCHANGED <<running, live, quota>>
  BY DEF Validate
<1>2. DOMAIN up = UpFields
  BY <1>1 DEF IInv, TypeInv, UpType, NoUpdate
<1> HIDE DEF r
<1>3. up'.phase = "live" /\ up'.doing = up.doing /\ up'.config = up.config /\ up'.devices = up.devices
  BY <1>1, <1>2 DEF UpFields
<1> QED
  BY <1>1, <1>3 DEF LimitsInv, NicsType, QuotaInv, Limited, Calm, Updating, Quiet

(* Invalid: what is in force is what is stored, since a profile's request is *)
(* about devices that were accepted before.                                  *)
LEMMA InvalidLimits ==
  ASSUME IInv, LimitsInv, Invalid
  PROVE  LimitsInv'
<1>1. /\ up.phase = "validate" /\ ~containerValidDevices(up.args.devices, FALSE) /\ up' = NoUpdate
      /\ UNCHANGED <<stored, profile, running, live, quota, drift>>
  BY DEF Invalid
<1>2. up'.phase = "idle"
  BY <1>1 DEF NoUpdate
<1>3. expandConfig(stored) = up.config /\ expandDevices(stored) = up.devices
  BY <1>1 DEF LimitsInv, Updating
<1>4. expandConfig(stored)' = expandConfig(stored) /\ expandDevices(stored)' = expandDevices(stored)
  BY <1>1 DEF expandConfig, expandDevices
<1> QED
  BY <1>1, <1>2, <1>3, <1>4 DEF LimitsInv, NicsType, QuotaInv, Limited, Calm, Updating, Quiet

(* The plans are those for what the request asks for.                        *)
LEMMA PlansKept ==
  ASSUME up'.newConfig = up.newConfig, up'.newDevices = up.newDevices
  PROVE  /\ MemoryPlan' = MemoryPlan /\ ProcessesPlan' = ProcessesPlan
         /\ \A plan : Beside(plan)' = Beside(plan)
         /\ \A n : NicPlan(n)' = NicPlan(n) /\ DiskPlan(n)' = DiskPlan(n)
<1>1. MemoryPlan' = MemoryPlan /\ ProcessesPlan' = ProcessesPlan
  BY DEF MemoryPlan, ProcessesPlan
<1>2. \A plan : Beside(plan)' = Beside(plan)
  BY Zenon DEF Beside
<1>3. \A n : NicPlan(n)' = NicPlan(n) /\ DiskPlan(n)' = DiskPlan(n)
  BY DEF NicPlan, DiskPlan
<1> QED
  BY <1>1, <1>2, <1>3

(* Live: all that differs is to be applied.                                  *)
LEMMA LiveLimits ==
  ASSUME IInv, LimitsInv, Live
  PROVE  LimitsInv'
<1> DEFINE d == Diff(up.devices, up.newDevices)
<1>1. PICK looked \in IF d.add \cup d.upd = {} THEN {{}} ELSE {{n} : n \in d.add \cup d.upd} :
        up' = [up EXCEPT !.phase = "apply", !.settled = ~running,
                  !.group = IF running THEN LiveSteps(up.devices, up.config, up.newDevices, up.newConfig, looked)
                            ELSE <<>>]
  BY DEF Live
<1> DEFINE group == LiveSteps(up.devices, up.config, up.newDevices, up.newConfig, looked)
<1>2. /\ up.phase = "live" /\ UNCHANGED <<stored, profile, running, live, drift>>
      /\ quota' = IF RootSize(up.devices) # RootSize(up.newDevices) THEN RootSize(up.newDevices) ELSE quota
  BY DEF Live
<1>3. /\ DOMAIN up = UpFields /\ IsConfig(up.config) /\ IsDevices(up.devices)
      /\ IsConfig(up.newConfig) /\ IsDevices(up.newDevices)
  <2>1. /\ DOMAIN up = UpFields /\ IsCopy(up.args) /\ IsConfig(up.config) /\ IsDevices(up.devices)
        /\ up.newConfig = expandConfig(up.args) /\ up.newDevices = expandDevices(up.args)
        /\ RowsType
    BY <1>2 DEF IInv, TypeInv, UpType, NoUpdate, Updating
  <2>2. IsConfig(expandConfig(up.args)) /\ IsDevices(expandDevices(up.args))
    BY <2>1, ExpandedConfig, ExpandedDevices DEF IsCopy, RowsType
  <2> QED
    BY <2>1, <2>2
<1>4. /\ up'.phase = "apply" /\ up'.doing = up.doing /\ up'.c = up.c /\ up'.config = up.config
      /\ up'.devices = up.devices /\ up'.newConfig = up.newConfig /\ up'.newDevices = up.newDevices
      /\ running => up'.group = group
  BY <1>1, <1>3 DEF UpFields
<1>5. up.doing = <<>> /\ (Calm => Limited(up.config))
  BY <1>2 DEF LimitsInv, Updating
<1>6. QuotaInv'
  BY <1>2, <1>4 DEF LimitsInv, QuotaInv, Updating, Quiet
<1>7. ASSUME Calm
      PROVE  ApplyInv'
  <2>1. up'.group = group /\ live' = live /\ Limited(up.config)
    BY <1>2, <1>4, <1>5, <1>7 DEF Calm
  <2>2. group[1] = {LiveConfig(k, up.newConfig) : k \in ChangedKeys(up.config, up.newConfig)}
    BY DEF LiveSteps
  <2>3. /\ \A plan \in group[1] : plan = MemoryPlan \/ plan = ProcessesPlan \/ Beside(plan)
        /\ MemoryPlan \in group[1] \/ Memory(up.config) = Memory(up.newConfig)
        /\ ProcessesPlan \in group[1] \/ Processes(up.config) = Processes(up.newConfig)
    BY <1>3, <2>2, ConfigPlans
  <2>4. /\ DOMAIN group = 1..6
        /\ \A i \in 2..6 : \A plan \in group[i] : Beside(plan)
        /\ \A plan \in group[5] : \E n \in d.upd : plan = NicPlan(n)
        /\ \A plan \in group[6] : \E n : plan = DiskPlan(n)
        /\ \A n \in d.upd : up.newDevices[n].type = "disk" => DiskPlan(n) \in group[6]
        /\ \A n \in Nics(up.newDevices) :
             d.upd = {n} /\ d.add = {} /\ looked \subseteq d.add \cup d.upd /\ looked # {} => NicPlan(n) \in group[5]
    BY <1>3, DevicePlans
  <2>5. d.add \cup d.upd # {} => looked \subseteq d.add \cup d.upd /\ looked # {}
    BY <1>1
  <2> HIDE DEF group, d
  <2>6. /\ MemoryPlan' = MemoryPlan /\ ProcessesPlan' = ProcessesPlan
        /\ \A plan : Beside(plan)' = Beside(plan)
        /\ \A n : NicPlan(n)' = NicPlan(n) /\ DiskPlan(n)' = DiskPlan(n)
    BY <1>4, PlansKept
  <2>7. Diff(up.devices, up.newDevices)' = d
    BY <1>4 DEF d
  <2>8. PlansAre'
    BY <2>1, <2>3, <2>4, <2>6, <2>7 DEF PlansAre
  <2>9. MemoryInv'
    <3>1. DoesNotLimit'
      BY <1>4, <1>5, <2>6, NoStep DEF DoesNotLimit
    <3>2. live'.limit = Memory(up'.config) /\ live'.memsw = Memory(up'.config)
      BY <1>4, <2>1 DEF Limited
    <3>3. MemoryPlan' \in up'.group[1] \/ Memory(up'.config) = Memory(up'.newConfig)
      BY <1>4, <2>1, <2>3, <2>6
    <3> QED
      BY <3>1, <3>2, <3>3 DEF MemoryInv
  <2>10. ProcessesInv'
    BY <1>4, <2>1, <2>3, <2>6 DEF ProcessesInv, Limited
  <2>11. DisksInv'
    BY <1>4, <2>1, <2>4, <2>6, <2>7 DEF DisksInv
  <2>12. NicsInv'
    BY <1>4, <2>1, <2>4, <2>5, <2>6, <2>7 DEF NicsInv
  <2> QED
    BY <2>8, <2>9, <2>10, <2>11, <2>12 DEF ApplyInv
<1> QED
  BY <1>2, <1>4, <1>6, <1>7 DEF LimitsInv, NicsType, Calm, Updating, Quiet

(* The memory plan is the only one with writes to the memory cgroup.         *)
LEMMA MemoryPlanIs ==
  /\ DOMAIN MemoryPlan = 1..6
  /\ \A k \in 1..6 : MemoryPlan[k].do = "memory"
  /\ ~Beside(MemoryPlan) /\ MemoryPlan # ProcessesPlan /\ ~Beside(ProcessesPlan)
<1> DEFINE v == Or(up.newConfig, "limits.memory", 0)
           memory == IF v = 0 THEN Unlimited ELSE v
<1>1. MemoryPlan =
        <<Do("memory", "memsw", Unlimited), Do("memory", "limit", Unlimited), Do("memory", "soft", Unlimited),
          Do("memory", "limit", memory), Do("memory", "memsw", memory), Do("memory", "soft", memory)>>
  BY DEF MemoryPlan, ApplyMemory
<1> HIDE DEF memory
<1>2. DOMAIN MemoryPlan = 1..6
  BY <1>1
<1>3. \A k \in 1..6 : MemoryPlan[k].do = "memory"
  <2> TAKE k \in 1..6
  <2>1. k = 1 \/ k = 2 \/ k = 3 \/ k = 4 \/ k = 5 \/ k = 6
    OBVIOUS
  <2> QED
    BY <1>1, <2>1 DEF Do
<1>4. MemoryPlan[1] \in Range(MemoryPlan)
  BY <1>2 DEF Range
<1>5. ProcessesPlan[1] \in Range(ProcessesPlan) /\ ProcessesPlan[1].do = "cgroup"
  BY DEF Range, ProcessesPlan, Do
<1> QED
  BY <1>2, <1>3, <1>4, <1>5 DEF Beside

(* The plan is what is left of it at first, and something is left until the  *)
(* end.                                                                      *)
LEMMA MemoryLeftIs ==
  /\ MemoryLeft(1) = MemoryPlan
  /\ \A k \in 1..6 : /\ MemoryLeft(k) # <<>> /\ Head(MemoryLeft(k)) = MemoryPlan[k]
                     /\ Tail(MemoryLeft(k)) = IF k = 6 THEN <<>> ELSE MemoryLeft(k + 1)
<1> DEFINE v == Or(up.newConfig, "limits.memory", 0)
           memory == IF v = 0 THEN Unlimited ELSE v
<1>1. MemoryPlan =
        <<Do("memory", "memsw", Unlimited), Do("memory", "limit", Unlimited), Do("memory", "soft", Unlimited),
          Do("memory", "limit", memory), Do("memory", "memsw", memory), Do("memory", "soft", memory)>>
  BY DEF MemoryPlan, ApplyMemory
<1>2. MemoryPlan = [i \in 1..6 |-> MemoryPlan[i]]
  BY <1>1
<1>3. MemoryLeft(1) = MemoryPlan
  BY <1>2 DEF MemoryLeft
<1>4. ASSUME NEW k \in 1..6
      PROVE  /\ MemoryLeft(k) # <<>> /\ Head(MemoryLeft(k)) = MemoryPlan[k]
             /\ Tail(MemoryLeft(k)) = IF k = 6 THEN <<>> ELSE MemoryLeft(k + 1)
  <2> DEFINE s == MemoryLeft(k)
             S == {MemoryPlan[i] : i \in 1..6}
  <2>1. s \in Seq(S) /\ Len(s) = 7 - k /\ \A i \in 1..(7 - k) : s[i] = MemoryPlan[i + k - 1]
    BY DEF MemoryLeft
  <2>2. s # <<>> /\ Head(s) = MemoryPlan[k]
    BY <2>1
  <2>3. Tail(s) \in Seq(S) /\ Len(Tail(s)) = 6 - k /\ \A i \in 1..(6 - k) : Tail(s)[i] = MemoryPlan[i + k]
    BY <2>1
  <2>4. CASE k = 6
    <3>1. Tail(s) = <<>>
      <4> DEFINE t == Tail(s)
      <4>1. t \in Seq(S) /\ Len(t) = 0
        BY <2>3, <2>4
      <4> HIDE DEF t
      <4>2. t = <<>>
        BY <4>1
      <4> QED
        BY <4>2 DEF t
    <3> QED
      BY <2>2, <2>4, <3>1
  <2>5. CASE k # 6
    <3> DEFINE t == MemoryLeft(k + 1)
    <3>1. t \in Seq(S) /\ Len(t) = 6 - k /\ \A i \in 1..(6 - k) : t[i] = MemoryPlan[i + k]
      BY <2>5 DEF MemoryLeft
    <3> HIDE DEF s, t
    <3>2. Tail(s) = t
      BY <2>3, <3>1
    <3> QED
      BY <2>2, <2>5, <3>2 DEF s, t
  <2> QED
    BY <2>2, <2>4, <2>5
<1> QED
  BY <1>3, <1>4

(* The first of the groups that are not done.                                *)
LEMMA FirstPending ==
  ASSUME DOMAIN up.group = 1..6, Pending # {}
  PROVE  Min(Pending) \in 1..6 /\ up.group[Min(Pending)] # {}
         /\ \A j \in 1..6 : j < Min(Pending) => up.group[j] = {}
<1>1. Pending \subseteq 1..6
  BY DEF Pending
<1>2. \E x \in Pending : \A y \in Pending : x <= y
  <2>1. Pending \subseteq Nat
    BY <1>1
  <2> QED
    BY <2>1, LeastNumber
<1>3. Min(Pending) \in Pending /\ \A y \in Pending : Min(Pending) <= y
  BY <1>2 DEF Min
<1> DEFINE i == Min(Pending)
<1> HIDE DEF i
<1>4. i \in Pending /\ \A y \in Pending : i <= y
  BY <1>3 DEF i
<1>5. i \in 1..6 /\ up.group[i] # {} /\ \A j \in 1..6 : j < i => up.group[j] = {}
  BY <1>4 DEF Pending
<1> QED
  BY <1>5 DEF i

(* Take: the plans of a group before those of the next.                      *)
LEMMA TakeLimits ==
  ASSUME IInv, LimitsInv, Take
  PROVE  LimitsInv'
<1> DEFINE first == Min(Pending)
<1>1. PICK plan \in up.group[first] :
        up' = [up EXCEPT !.doing = plan, !.mem = Mem, !.group[first] = @ \ {plan}]
  BY DEF Take
<1>2. /\ up.phase = "apply" /\ up.doing = <<>> /\ Pending # {}
      /\ UNCHANGED <<stored, profile, running, live, quota, drift>>
  BY DEF Take
<1>3. DOMAIN up = UpFields
  BY <1>2 DEF IInv, TypeInv, UpType, NoUpdate
<1> PICK i : i = first
  OBVIOUS
<1> HIDE DEF first
<1>4. /\ up'.phase = "apply" /\ up'.doing = plan /\ up'.mem = Mem /\ up'.c = up.c /\ up'.config = up.config
      /\ up'.devices = up.devices /\ up'.newConfig = up.newConfig /\ up'.newDevices = up.newDevices
      /\ up'.group = [up.group EXCEPT ![i] = @ \ {plan}] /\ plan \in up.group[i]
  BY <1>1, <1>2, <1>3 DEF UpFields
<1>5. ASSUME Calm
      PROVE  ApplyInv'
  <2>1. PlansAre /\ MemoryInv /\ ProcessesInv /\ DisksInv /\ NicsInv
    BY <1>2, <1>5 DEF LimitsInv, ApplyInv, Updating
  <2>2. DOMAIN up.group = 1..6
    BY <2>1 DEF PlansAre
  <2>3. i \in 1..6 /\ \A j \in 1..6 : j < i => up.group[j] = {}
    BY <1>2, <2>2, FirstPending DEF first
  <2>4. /\ MemoryPlan' = MemoryPlan /\ ProcessesPlan' = ProcessesPlan
        /\ \A p : Beside(p)' = Beside(p)
        /\ \A n : NicPlan(n)' = NicPlan(n) /\ DiskPlan(n)' = DiskPlan(n)
    BY <1>4, PlansKept
  <2>5. /\ DOMAIN up'.group = 1..6 /\ \A j \in 1..6 : j # i => up'.group[j] = up.group[j]
        /\ up'.group[i] = up.group[i] \ {plan}
    BY <1>4, <2>2, <2>3
  <2>6. \A j \in 1..6 : up'.group[j] \subseteq up.group[j] /\ up.group[j] \subseteq up'.group[j] \cup {plan}
    BY <2>5
  <2>7. Diff(up.devices, up.newDevices)' = Diff(up.devices, up.newDevices)
    BY <1>4
  <2>8. PlansAre'
    BY <2>1, <2>4, <2>5, <2>6, <2>7 DEF PlansAre
  <2>9. /\ plan = MemoryPlan \/ plan = ProcessesPlan \/ Beside(plan)
        /\ plan = MemoryPlan => i = 1
    <3>1. i = 1 \/ i \in 2..6
      BY <2>3
    <3> QED
      BY <1>4, <2>1, <3>1, MemoryPlanIs DEF PlansAre
  <2>10. MemoryInv'
    <3>1. \A k \in 1..6 : up.doing # MemoryLeft(k)
      BY <1>2, MemoryLeftIs
    <3>2. CASE plan = MemoryPlan
      <4>1. MemoryPlan \in up.group[1]
        BY <1>4, <2>9, <3>2
      <4>2. live.limit = Memory(up.config) /\ live.memsw = Memory(up.config)
        BY <2>1, <4>1 DEF MemoryInv
      <4>3. MemoryPlan' \notin up'.group[1]
        BY <2>4, <2>5, <2>9, <3>2
      <4>4. up'.doing = MemoryLeft(1)'
        BY <1>4, <2>4, <3>2, MemoryLeftIs DEF MemoryLeft
      <4>5. MemoryAt(1)' /\ up'.mem = [limit |-> Memory(up'.config), memsw |-> Memory(up'.config)]
        BY <1>2, <1>4, <4>2 DEF MemoryAt, Mem
      <4> QED
        BY <4>3, <4>4, <4>5 DEF MemoryInv
    <3>3. CASE plan # MemoryPlan
      <4>1. MemoryPlan' \in up'.group[1] <=> MemoryPlan \in up.group[1]
        BY <2>4, <2>6, <3>3
      <4>2. DoesNotLimit'
        BY <1>4, <2>4, <2>9, <3>3 DEF DoesNotLimit
      <4>3. \/ MemoryPlan \in up.group[1]
                 /\ live.limit = Memory(up.config) /\ live.memsw = Memory(up.config)
            \/ MemoryPlan \notin up.group[1]
                 /\ live.limit = Memory(up.newConfig) /\ live.memsw = Memory(up.newConfig)
        BY <2>1, <3>1 DEF MemoryInv
      <4> QED
        BY <1>2, <1>4, <4>1, <4>2, <4>3 DEF MemoryInv
    <3> QED
      BY <3>2, <3>3
  <2>11. ProcessesInv'
    <3>1. up.doing # ProcessesPlan
      BY <1>2 DEF ProcessesPlan
    <3> QED
      BY <1>2, <1>4, <2>1, <2>4, <2>6, <3>1 DEF ProcessesInv
  <2>12. DisksInv'
    <3>1. \A n : up.doing # DiskPlan(n)
      BY <1>2 DEF DiskPlan
    <3> QED
      BY <1>2, <1>4, <2>1, <2>4, <2>6, <2>7, <3>1 DEF DisksInv
  <2>13. NicsInv'
    <3> DEFINE d == Diff(up.devices, up.newDevices)
    <3> HIDE DEF d
    <3> SUFFICES ASSUME NEW n \in Nics(up.newDevices), d.upd = {n}, d.add = {}
                 PROVE  \/ NicPlan(n) \in up'.group[5]
                        \/ /\ \A j \in 1..5 : up'.group[j] = {}
                           /\ \/ up'.doing = NicPlan(n)
                              \/ /\ up'.doing = <<>> \/ \E m : up'.doing = DiskPlan(m)
                                 /\ live'.nics[up'.c.names[n]].limit = up'.newDevices[n].limit
      BY <1>4, <2>4, <2>7 DEF NicsInv, d
    <3>1. /\ \A p \in up.group[5] : p = NicPlan(n)
          /\ \A p \in up.group[6] : \E m : p = DiskPlan(m)
      BY <2>1 DEF PlansAre, d
    <3>2. CASE NicPlan(n) \in up.group[5] /\ (i # 5 \/ plan # NicPlan(n))
      BY <2>5, <3>2
    <3>3. CASE i = 5 /\ plan = NicPlan(n)
      <4>1. up'.group[5] = {}
        BY <2>5, <3>1, <3>3
      <4>2. \A j \in 1..5 : j = 5 \/ j < 5
        OBVIOUS
      <4> QED
        BY <1>4, <2>3, <2>5, <3>3, <4>1, <4>2
    <3>4. CASE NicPlan(n) \notin up.group[5]
      <4>1. /\ \A j \in 1..5 : up.group[j] = {}
            /\ live.nics[up.c.names[n]].limit = up.newDevices[n].limit
        <5>1. up.doing # NicPlan(n)
          BY <1>2 DEF NicPlan, setNetworkLimits
        <5> QED
          BY <2>1, <3>4, <5>1 DEF NicsInv, d
      <4>2. i = 6
        <5>1. i \notin 1..5
          BY <1>4, <4>1
        <5> QED
          BY <2>3, <5>1
      <4>3. \E m : up'.doing = DiskPlan(m)
        BY <1>4, <3>1, <4>2
      <4> QED
        BY <1>2, <1>4, <2>5, <4>1, <4>2, <4>3
    <3> QED
      BY <3>2, <3>3, <3>4
  <2> QED
    BY <2>8, <2>10, <2>11, <2>12, <2>13 DEF ApplyInv
<1> QED
  BY <1>2, <1>4, <1>5 DEF LimitsInv, NicsType, QuotaInv, Calm, Updating, Quiet

(* One write to the memory cgroup, which the kernel takes.                   *)
LEMMA MemoryWrite ==
  ASSUME NEW k \in 1..6, MemoryAt(k), IsConfig(up.newConfig), LiveType, NicsType, running,
         ~Refused(MemoryPlan[k]), live' = LiveAfter(MemoryPlan[k]),
         up'.config = up.config, up'.newConfig = up.newConfig
  PROVE  MemoryAt(k + 1)'
<1> DEFINE v == Or(up.newConfig, "limits.memory", 0)
           memory == IF v = 0 THEN Unlimited ELSE v
           step == MemoryPlan[k]
<1>1. MemoryPlan =
        <<Do("memory", "memsw", Unlimited), Do("memory", "limit", Unlimited), Do("memory", "soft", Unlimited),
          Do("memory", "limit", memory), Do("memory", "memsw", memory), Do("memory", "soft", memory)>>
  BY DEF MemoryPlan, ApplyMemory
<1>2. memory = Memory(up.newConfig)
  BY MemoryType
<1> HIDE DEF memory
<1>3. k = 1 \/ k = 2 \/ k = 3 \/ k = 4 \/ k = 5 \/ k = 6
  OBVIOUS
<1>4. /\ step.do = "memory"
      /\ step.x = IF k = 1 \/ k = 5 THEN "memsw" ELSE IF k = 2 \/ k = 4 THEN "limit" ELSE "soft"
      /\ step.v = IF k <= 3 THEN Unlimited ELSE memory
  BY <1>1, <1>3 DEF Do
<1> DEFINE mem == Write(Mem, step.x, step.v)
<1>5. live'.limit = mem.limit /\ live'.memsw = mem.memsw
  BY <1>4, LiveAfterIs
<1> HIDE DEF step
<1>6. KernelTakes(Mem, step.x, step.v)
  BY <1>4 DEF Refused, step
<1>7. /\ mem.limit = IF step.x = "limit" THEN step.v ELSE live.limit
      /\ mem.memsw = IF step.x = "memsw" THEN step.v ELSE live.memsw
  BY <1>4, <1>6 DEF Write, Mem
<1> HIDE DEF mem
<1> QED
  BY <1>2, <1>3, <1>4, <1>5, <1>7 DEF MemoryAt

(* Apply: a step does to the container what the plan is for.                 *)
LEMMA ApplyLimits ==
  ASSUME IInv, LimitsInv, Apply
  PROVE  LimitsInv'
<1> DEFINE head == Head(up.doing)
<1>1. /\ up.phase = "apply" /\ up.doing # <<>> /\ ~Refused(head) /\ live' = LiveAfter(head)
      /\ up' = [up EXCEPT !.doing = Tail(@), !.settled = @ \/ head.do = "trigger"]
      /\ UNCHANGED <<stored, profile, running, quota, drift>>
  BY DEF Apply
<1>2. /\ DOMAIN up = UpFields /\ LiveType /\ IsConfig(up.newConfig)
  <2>1. /\ DOMAIN up = UpFields /\ IsCopy(up.args) /\ up.newConfig = expandConfig(up.args) /\ RowsType
    BY <1>1 DEF IInv, TypeInv, UpType, NoUpdate, Updating
  <2>2. IsConfig(expandConfig(up.args))
    BY <2>1, ExpandedConfig DEF IsCopy, RowsType
  <2> QED
    BY <2>1, <2>2 DEF IInv, TypeInv
<1> PICK step : step = head
  OBVIOUS
<1> HIDE DEF head
<1>3. /\ up'.phase = "apply" /\ up'.doing = Tail(up.doing) /\ up'.mem = up.mem /\ up'.c = up.c
      /\ up'.config = up.config /\ up'.devices = up.devices /\ up'.newConfig = up.newConfig
      /\ up'.newDevices = up.newDevices /\ up'.group = up.group
  BY <1>1, <1>2 DEF UpFields
<1>4. NicsType /\ NicsType'
  BY <1>1, <1>2, LiveAfterNics DEF LimitsInv
<1>5. ASSUME Calm
      PROVE  ApplyInv'
  <2>1. PlansAre /\ MemoryInv /\ ProcessesInv /\ DisksInv /\ NicsInv /\ running
    BY <1>1, <1>5 DEF LimitsInv, ApplyInv, Updating, Calm
  <2>2. /\ MemoryPlan' = MemoryPlan /\ ProcessesPlan' = ProcessesPlan
        /\ \A p : Beside(p)' = Beside(p)
        /\ \A n : NicPlan(n)' = NicPlan(n) /\ DiskPlan(n)' = DiskPlan(n)
    BY <1>3, PlansKept
  <2>3. /\ Diff(up.devices, up.newDevices)' = Diff(up.devices, up.newDevices)
        /\ step = Head(up.doing) /\ live' = LiveAfter(step) /\ ~Refused(step)
    BY <1>1, <1>3 DEF head
  <2>4. /\ live'.processes = IF step.do = "cgroup" THEN step.v ELSE live.processes
        /\ step.do # "memory" => live'.limit = live.limit /\ live'.memsw = live.memsw
        /\ live'.io = IF step.do = "io" THEN step.v ELSE live.io
        /\ step.do \notin {"attach", "detach", "tc"} => live'.nics = live.nics
        /\ step.do = "tc" /\ up.c.names[step.x] \in DOMAIN live.nics =>
             live'.nics[up.c.names[step.x]].limit = step.v.limit
    BY <1>2, <1>4, <2>3, LiveAfterIs
  <2>5. ASSUME up.doing = ProcessesPlan
        PROVE  /\ step.do = "cgroup" /\ step.v = Processes(up.newConfig) /\ up'.doing = <<>>
    BY <1>3, <2>3, <2>5 DEF ProcessesPlan, Do
  <2>6. ASSUME Beside(up.doing)
        PROVE  /\ step.do # "memory" /\ step.do # "cgroup" /\ Beside(up'.doing)
               /\ step.do = "io" => step.v = getDiskLimits(up.newDevices)
    BY <1>1, <1>3, <2>3, <2>6, RestOfPlan
  <2>7. ASSUME NEW k \in 1..6, up.doing = MemoryLeft(k)
        PROVE  step = MemoryPlan[k] /\ step.do = "memory"
               /\ up'.doing = IF k = 6 THEN <<>> ELSE MemoryLeft(k + 1)
    BY <1>3, <2>3, <2>7, MemoryLeftIs, MemoryPlanIs
  <2>8. DoesNotLimit \/ \E k \in 1..6 : up.doing = MemoryLeft(k)
    BY <2>1 DEF MemoryInv
  <2>9. PlansAre'
    BY <1>3, <2>1, <2>2, <2>3 DEF PlansAre
  <2>10. ASSUME DoesNotLimit
         PROVE  DoesNotLimit' /\ live'.limit = live.limit /\ live'.memsw = live.memsw
    <3>1. CASE up.doing = ProcessesPlan
      BY <2>2, <2>4, <2>5, <3>1, NoStep DEF DoesNotLimit
    <3>2. CASE Beside(up.doing)
      BY <2>2, <2>4, <2>6, <3>2 DEF DoesNotLimit
    <3> QED
      BY <2>10, <3>1, <3>2 DEF DoesNotLimit
  <2>11. MemoryInv'
    <3>1. CASE /\ MemoryPlan \in up.group[1] /\ DoesNotLimit
               /\ live.limit = Memory(up.config) /\ live.memsw = Memory(up.config)
      BY <1>3, <2>2, <2>10, <3>1 DEF MemoryInv
    <3>2. CASE /\ MemoryPlan \notin up.group[1] /\ DoesNotLimit
               /\ live.limit = Memory(up.newConfig) /\ live.memsw = Memory(up.newConfig)
      BY <1>3, <2>2, <2>10, <3>2 DEF MemoryInv
    <3>3. CASE /\ MemoryPlan \notin up.group[1]
               /\ \E k \in 1..6 : up.doing = MemoryLeft(k) /\ MemoryAt(k)
               /\ up.mem = [limit |-> Memory(up.config), memsw |-> Memory(up.config)]
      <4>1. PICK k \in 1..6 : up.doing = MemoryLeft(k) /\ MemoryAt(k)
        BY <3>3
      <4>2. MemoryAt(k + 1)'
        BY <1>2, <1>3, <1>4, <2>1, <2>3, <2>7, <4>1, MemoryWrite
      <4>3. CASE k = 6
        <5>1. DoesNotLimit'
          BY <2>2, <2>7, <4>1, <4>3, NoStep DEF DoesNotLimit
        <5>2. live'.limit = Memory(up'.newConfig) /\ live'.memsw = Memory(up'.newConfig)
          BY <4>2, <4>3 DEF MemoryAt
        <5> QED
          BY <1>3, <2>2, <3>3, <5>1, <5>2 DEF MemoryInv
      <4>4. CASE k # 6
        <5>1. k + 1 \in 1..6 /\ up'.doing = MemoryLeft(k + 1)'
          <6>1. MemoryLeft(k + 1)' = MemoryLeft(k + 1)
            BY <2>2 DEF MemoryLeft
          <6>2. up'.doing = MemoryLeft(k + 1)
            BY <2>7, <4>1, <4>4
          <6> QED
            BY <4>4, <6>1, <6>2
        <5>2. up'.mem = [limit |-> Memory(up'.config), memsw |-> Memory(up'.config)]
          BY <1>3, <3>3
        <5>3. MemoryPlan' \notin up'.group[1]
          BY <1>3, <2>2, <3>3
        <5>4. \E m \in 1..6 : up'.doing = MemoryLeft(m)' /\ MemoryAt(m)'
          BY <4>2, <5>1
        <5> QED
          BY <5>2, <5>3, <5>4 DEF MemoryInv
      <4> QED
        BY <4>3, <4>4
    <3> QED
      BY <2>1, <3>1, <3>2, <3>3 DEF MemoryInv
  <2>12. ProcessesInv'
    <3>1. CASE up.doing = ProcessesPlan
      BY <1>3, <2>4, <2>5, <3>1 DEF ProcessesInv
    <3>2. CASE up.doing # ProcessesPlan
      <4>1. step.do # "cgroup"
        BY <2>6, <2>7, <2>8, <3>2 DEF DoesNotLimit
      <4> QED
        BY <1>3, <2>1, <2>2, <2>4, <3>2, <4>1 DEF ProcessesInv
    <3> QED
      BY <3>1, <3>2
  <2>13. DisksInv'
    <3>1. step.do = "io" => step.v = getDiskLimits(up.newDevices)
      <4>1. CASE up.doing = ProcessesPlan
        BY <2>5, <4>1
      <4>2. CASE up.doing # ProcessesPlan
        BY <2>6, <2>7, <2>8, <4>2 DEF DoesNotLimit
      <4> QED
        BY <4>1, <4>2
    <3>2. (\E n : up.doing = DiskPlan(n)) => step.do = "io"
      BY <2>3 DEF DiskPlan, Do
    <3>3. \/ \E n : DiskPlan(n) \in up.group[6]
          \/ live'.io = getDiskLimits(up.newDevices)
          \/ ~\E n \in Diff(up.devices, up.newDevices).upd : up.newDevices[n].type = "disk"
      BY <2>1, <2>4, <3>1, <3>2 DEF DisksInv
    <3> QED
      BY <1>3, <2>2, <2>3, <3>3 DEF DisksInv
  <2>14. NicsInv'
    <3> DEFINE d == Diff(up.devices, up.newDevices)
    <3> HIDE DEF d
    <3> SUFFICES ASSUME NEW n \in Nics(up.newDevices), d.upd = {n}, d.add = {}, NicPlan(n) \notin up.group[5]
                 PROVE  /\ \A j \in 1..5 : up.group[j] = {}
                        /\ up'.doing = <<>>
                        /\ live'.nics[up.c.names[n]].limit = up.newDevices[n].limit
      BY <1>3, <2>2, <2>3 DEF NicsInv, d
    <3>1. /\ \A j \in 1..5 : up.group[j] = {}
          /\ \/ up.doing = NicPlan(n)
             \/ /\ up.doing = <<>> \/ \E m : up.doing = DiskPlan(m)
                /\ live.nics[up.c.names[n]].limit = up.newDevices[n].limit
      BY <2>1 DEF NicsInv, d
    <3>2. CASE up.doing = NicPlan(n)
      <4>1. /\ step.do = "tc" /\ step.x = n /\ step.v = up.newDevices[n] /\ up'.doing = <<>>
        BY <1>3, <2>3, <3>2 DEF NicPlan, setNetworkLimits, Do
      <4>2. up.c.names[n] \in DOMAIN live.nics
        BY <2>3, <4>1 DEF Refused, InContainer
      <4> QED
        BY <2>4, <3>1, <4>1, <4>2
    <3>3. CASE up.doing # NicPlan(n)
      <4>1. PICK m : up.doing = DiskPlan(m)
        BY <1>1, <3>1, <3>3
      <4>2. step.do = "io" /\ up'.doing = <<>>
        BY <1>3, <2>3, <4>1 DEF DiskPlan, Do
      <4> QED
        BY <2>4, <3>1, <3>3, <4>2
    <3> QED
      BY <3>2, <3>3
  <2> QED
    BY <2>9, <2>11, <2>12, <2>13, <2>14 DEF ApplyInv
<1> QED
  BY <1>1, <1>3, <1>4, <1>5 DEF LimitsInv, QuotaInv, Calm, Updating, Quiet

(* When nothing is left to do, what has been asked for is applied.           *)
LEMMA AppliedLimits ==
  ASSUME ApplyInv, Applied
  PROVE  Limited(up.newConfig)
<1>1. PlansAre /\ MemoryInv /\ ProcessesInv /\ up.doing = <<>> /\ Pending = {}
  BY DEF ApplyInv, Applied
<1>2. up.group[1] = {}
  BY <1>1 DEF PlansAre, Pending
<1>3. live.limit = Memory(up.newConfig) /\ live.memsw = Memory(up.newConfig)
  <2>1. \A k \in 1..6 : up.doing # MemoryLeft(k)
    BY <1>1, MemoryLeftIs
  <2> QED
    BY <1>1, <1>2, <2>1 DEF MemoryInv
<1>4. live.processes = Processes(up.newConfig)
  <2>1. up.doing # ProcessesPlan
    BY <1>1 DEF ProcessesPlan
  <2> QED
    BY <1>1, <1>2, <2>1 DEF ProcessesInv
<1> QED
  BY <1>3, <1>4 DEF Limited

(* Commit: what has been asked for is applied.                               *)
LEMMA CommitLimits ==
  ASSUME IInv, LimitsInv, Commit
  PROVE  LimitsInv'
<1> DEFINE names == Restrict(up.c.names, DOMAIN up.c.names \cap Nics(up.newDevices))
<1>1. /\ Applied /\ stored' = [up.c EXCEPT !.names = names] /\ up' = NoUpdate
      /\ UNCHANGED <<profile, running, live, quota, drift>>
  BY DEF Commit
<1>2. up.phase = "apply" /\ up.doing = <<>> /\ Pending = {}
  BY <1>1 DEF Applied
<1>3. /\ IsCopy(up.c) /\ up.newConfig = expandConfig(up.args) /\ up.newDevices = expandDevices(up.args)
      /\ up.c.config = up.args.config /\ up.c.devices = up.args.devices /\ up.c.uses = up.args.uses
  BY <1>2 DEF IInv, TypeInv, UpType, Updating, NoUpdate
<1> HIDE DEF names
<1>4. /\ stored'.config = up.c.config /\ stored'.uses = up.c.uses /\ stored'.devices = up.c.devices
  BY <1>1, <1>3 DEF IsCopy, CopyFields
<1>5. expandConfig(stored)' = up.newConfig /\ expandDevices(stored)' = up.newDevices
  BY <1>1, <1>3, <1>4 DEF expandConfig, expandDevices
<1>6. up'.phase = "idle"
  BY <1>1 DEF NoUpdate
<1>7. Calm => Limited(up.newConfig)
  BY <1>1, <1>2, AppliedLimits DEF LimitsInv, Updating
<1>8. Calm' = Calm /\ (Limited(up.newConfig) => Limited(expandConfig(stored))')
  BY <1>1, <1>5 DEF Calm, Limited
<1>9. QuotaInv'
  BY <1>1, <1>2, <1>5, <1>6 DEF LimitsInv, QuotaInv, Updating, Quiet
<1> QED
  BY <1>1, <1>6, <1>7, <1>8, <1>9 DEF LimitsInv, NicsType, Updating, Quiet

(* Start: a container is started with its limits.                            *)
LEMMA StartLimits ==
  ASSUME IInv, LimitsInv, Start
  PROVE  LimitsInv'
<1> DEFINE r == initLXC(containerLoadByName)
           load == containerLoadByName
           c == r.c
<1>1. /\ stored' = [stored EXCEPT !.names = c.names]
      /\ live' = Started(c, expandConfig(c), expandDevices(c))
      /\ drift' = IF Quiet THEN drift \ {"live"} ELSE drift \cup {"live"}
      /\ UNCHANGED <<profile, quota, up>>
  BY DEF Start
<1>2. c.config = stored.config /\ c.devices = stored.devices /\ c.uses = stored.uses
  <2>1. /\ IsCopy(load) /\ load.config = stored.config /\ load.uses = stored.uses
        /\ load.devices = stored.devices /\ Within(load.names, stored.names)
    BY DEF IInv, TypeInv, IsCopy, CopyFields, RowsType, containerLoadByName, Within
  <2>2. c.config = load.config /\ c.devices = load.devices /\ c.uses = load.uses
    BY <2>1, InitLXC DEF IInv, TypeInv
  <2> HIDE DEF c, load, r
  <2> QED
    BY <2>1, <2>2
<1> HIDE DEF c, load, r
<1>3. /\ stored'.config = stored.config /\ stored'.uses = stored.uses /\ stored'.devices = stored.devices
  BY <1>1 DEF IInv, TypeInv, RowsType, IsCopy, CopyFields
<1>4. /\ expandConfig(c) = expandConfig(stored) /\ expandConfig(stored)' = expandConfig(stored)
      /\ expandDevices(stored)' = expandDevices(stored)
  BY <1>1, <1>2, <1>3 DEF expandConfig, expandDevices
<1>5. Limited(expandConfig(stored))'
  BY <1>1, <1>4 DEF Limited, Started, Processes, Memory
<1>6. NicsType'
  <2> DEFINE nics == InterfacesOf(c, expandDevices(c))
  <2>1. nics = [i \in DOMAIN nics |-> nics[i]] /\ \A i \in DOMAIN nics : DOMAIN nics[i] = {"dev", "at", "limit"}
    BY DEF InterfacesOf
  <2> HIDE DEF nics
  <2>2. live'.nics = nics
    BY <1>1 DEF Started, nics
  <2> QED
    BY <2>1, <2>2 DEF NicsType
<1>7. CASE Quiet
  <2>1. "quota" \in drift' <=> "quota" \in drift
    BY <1>1
  <2> QED
    BY <1>1, <1>4, <1>5, <1>6, <1>7, <2>1 DEF LimitsInv, QuotaInv, Updating, Quiet
<1>8. CASE ~Quiet
  <2>1. ~Calm' /\ ("quota" \in drift' <=> "quota" \in drift)
    BY <1>1, <1>8 DEF Calm
  <2> QED
    BY <1>1, <1>3, <1>4, <1>6, <1>8, <2>1 DEF LimitsInv, QuotaInv, Updating, Quiet
<1> QED
  BY <1>7, <1>8

(* Where the request and the container stay as they are, so does this.       *)
LEMMA ApplyInvKept ==
  ASSUME ApplyInv, UNCHANGED <<up, live>>
  PROVE  ApplyInv'
<1>1. up' = up /\ live' = live
  OBVIOUS
<1>2. /\ MemoryPlan' = MemoryPlan /\ ProcessesPlan' = ProcessesPlan
      /\ \A p : Beside(p)' = Beside(p)
      /\ \A n : NicPlan(n)' = NicPlan(n) /\ DiskPlan(n)' = DiskPlan(n)
  BY <1>1, PlansKept
<1>3. PlansAre'
  BY <1>1, <1>2 DEF ApplyInv, PlansAre
<1>4. MemoryInv'
  <2>1. DoesNotLimit' = DoesNotLimit
    BY <1>1, <1>2 DEF DoesNotLimit
  <2>2. \A k \in 1..6 : MemoryLeft(k)' = MemoryLeft(k) /\ (MemoryAt(k) => MemoryAt(k)')
    BY <1>1, <1>2 DEF MemoryLeft, MemoryAt
  <2> QED
    BY <1>1, <1>2, <2>1, <2>2 DEF ApplyInv, MemoryInv
<1>5. ProcessesInv' /\ DisksInv' /\ NicsInv'
  BY <1>1, <1>2 DEF ApplyInv, ProcessesInv, DisksInv, NicsInv
<1> QED
  BY <1>3, <1>4, <1>5 DEF ApplyInv

(* Stop, and what the scheduler and the cpus do: no limit is concerned.      *)
LEMMA BesideLimits ==
  ASSUME IInv, LimitsInv, Stop \/ Scheduler \/ Hotplug
  PROVE  LimitsInv'
<1>1. UNCHANGED <<stored, profile, up, quota>>
  BY DEF Stop, Scheduler, Hotplug
<1>2. expandConfig(stored)' = expandConfig(stored) /\ expandDevices(stored)' = expandDevices(stored)
  BY <1>1 DEF expandConfig, expandDevices
<1>3. CASE Stop
  <2>1. ~Calm' /\ live'.nics = <<>> /\ ("quota" \in drift' <=> "quota" \in drift)
    BY <1>3 DEF Stop, Calm, Empty
  <2>2. DOMAIN <<>> = {} /\ <<>> = [i \in {} |-> <<>>[i]]
    OBVIOUS
  <2>3. NicsType'
    BY <2>1, <2>2 DEF NicsType
  <2> QED
    BY <1>1, <1>2, <2>1, <2>3 DEF LimitsInv, QuotaInv, Updating, Quiet
<1>4. CASE Scheduler \/ Hotplug
  <2>1. UNCHANGED <<running, live, drift>>
    BY <1>4 DEF Scheduler, Hotplug
  <2> QED
    BY <1>1, <1>2, <2>1, ApplyInvKept
    DEF LimitsInv, QuotaInv, Updating, Quiet, Calm, Limited, NicsType
<1> QED
  BY <1>3, <1>4

(* No step breaks what is known of the limits.                               *)
LEMMA LimitsStep ==
  ASSUME IInv, LimitsInv, [Next]_vars
  PROVE  LimitsInv'
<1>1. CASE containerPut
  BY <1>1, PutLimits
<1>2. CASE profilePut
  BY <1>2, ProfileLimits
<1>3. CASE Validate
  BY <1>3, ValidateLimits
<1>4. CASE Invalid
  BY <1>4, InvalidLimits
<1>5. CASE RootRefused \/ ApplyFails \/ Fault
  BY <1>5, FailureLimits
<1>6. CASE Live
  BY <1>6, LiveLimits
<1>7. CASE Take
  BY <1>7, TakeLimits
<1>8. CASE Apply
  BY <1>8, ApplyLimits
<1>9. CASE Commit
  BY <1>9, CommitLimits
<1>10. CASE Start
  BY <1>10, StartLimits
<1>11. CASE Stop \/ Scheduler \/ Hotplug
  BY <1>11, BesideLimits
<1>12. CASE UNCHANGED vars
  <2>1. UNCHANGED <<stored, profile, up, quota, running, live, drift>>
    BY <1>12 DEF vars
  <2>2. expandConfig(stored)' = expandConfig(stored) /\ expandDevices(stored)' = expandDevices(stored)
    BY <2>1 DEF expandConfig, expandDevices
  <2> QED
    BY <2>1, <2>2, ApplyInvKept
    DEF LimitsInv, QuotaInv, Updating, Quiet, Calm, Limited, NicsType
<1> QED
  BY <1>1, <1>2, <1>3, <1>4, <1>5, <1>6, <1>7, <1>8, <1>9, <1>10, <1>11, <1>12 DEF Next, Update

(* What is known of the limits holds throughout.                             *)
LEMMA LimitsInvariant == Spec => []LimitsInv
<1>1. Init => LimitsInv
  <2> SUFFICES ASSUME Init
               PROVE  LimitsInv
    OBVIOUS
  <2>1. /\ running = FALSE /\ live = Empty /\ up = NoUpdate
        /\ stored = [config |-> <<>>, devices |-> <<>>, uses |-> TRUE, names |-> <<>>]
        /\ quota = RootSize(profile.devices)
    BY DEF Init
  <2>2. up.phase = "idle" /\ ~Calm
    BY <2>1 DEF NoUpdate, Calm
  <2>3. live.nics = <<>> /\ DOMAIN <<>> = {} /\ <<>> = [i \in {} |-> <<>>[i]]
    BY <2>1 DEF Empty
  <2>4. expandDevices(stored) = profile.devices
    <3> DEFINE all == Over(<<>>, profile.devices)
    <3>1. expandDevices(stored) = all
      BY <2>1 DEF expandDevices
    <3>2. profile.devices = [n \in DOMAIN profile.devices |-> profile.devices[n]]
      BY UpdateAssumption DEF Init, IsDevices
    <3>3. all = [n \in DOMAIN profile.devices |-> profile.devices[n]]
      BY <2>3 DEF Over
    <3> QED
      BY <3>1, <3>2, <3>3
  <2> QED
    BY <2>1, <2>2, <2>3, <2>4 DEF LimitsInv, NicsType, QuotaInv, Updating, Quiet
<1>2. IInv /\ LimitsInv /\ [Next]_vars => LimitsInv'
  BY LimitsStep
<1> QED
  BY <1>1, <1>2, UpdateInvariant, PTL DEF Spec

(* Wherever a change fails, the container has the old memory limit or the    *)
(* new one (SetCgroup's revertMemory).                                       *)
LEMMA FailureKeepsLimit ==
  ASSUME IInv, ApplyInv, ApplyFails, running,
         Or(up.config, "limits.memory", 0) # 0, Or(up.newConfig, "limits.memory", 0) # 0
  PROVE  live'.limit < Unlimited
<1>1. up.phase = "apply" /\ up.doing # <<>>
  BY DEF ApplyFails
<1>2. LiveType /\ IsConfig(up.config) /\ IsConfig(up.newConfig)
  <2>1. /\ IsCopy(up.args) /\ up.newConfig = expandConfig(up.args) /\ RowsType /\ LiveType
        /\ IsConfig(up.config)
    BY <1>1 DEF IInv, TypeInv, UpType, NoUpdate, Updating
  <2>2. IsConfig(expandConfig(up.args))
    BY <2>1, ExpandedConfig DEF IsCopy, RowsType
  <2> QED
    BY <2>1, <2>2
<1> PICK old : old = Memory(up.config)
  OBVIOUS
<1> PICK new : new = Memory(up.newConfig)
  OBVIOUS
<1>3. old \in Nat /\ old < Unlimited /\ new \in Nat /\ new < Unlimited /\ Unlimited \in Nat
  BY <1>2, MemoryType DEF Unlimited
<1> DEFINE step == Head(up.doing)
           mem == revertMemory(up.mem)
<1>4. live' = IF step.do = "memory" /\ running THEN WithMem(mem) ELSE live
  BY DEF ApplyFails
<1>5. PlansAre /\ MemoryInv
  BY DEF ApplyInv
<1>6. CASE DoesNotLimit /\ (live.limit = old \/ live.limit = new)
  <2>1. step.do # "memory"
    <3>1. CASE up.doing = ProcessesPlan
      BY <3>1 DEF ProcessesPlan, Do
    <3>2. CASE Beside(up.doing)
      BY <1>1, <3>2, RestOfPlan
    <3> QED
      BY <1>6, <3>1, <3>2 DEF DoesNotLimit
  <2> HIDE DEF step, mem
  <2> QED
    BY <1>3, <1>4, <1>6, <2>1
<1>7. CASE (\E k \in 1..6 : up.doing = MemoryLeft(k) /\ MemoryAt(k)) /\ up.mem = [limit |-> old, memsw |-> old]
  <2>1. PICK k \in 1..6 : up.doing = MemoryLeft(k) /\ MemoryAt(k)
    BY <1>7
  <2>2. step.do = "memory"
    BY <2>1, MemoryLeftIs, MemoryPlanIs
  <2>3. live'.limit = mem.limit
    <3> HIDE DEF mem, step
    <3>1. live' = [live EXCEPT !.limit = mem.limit, !.memsw = mem.memsw]
      BY <1>4, <2>2 DEF WithMem
    <3> QED
      BY <1>2, <3>1 DEF LiveType
  <2> DEFINE once == Write(Mem, "limit", old)
  <2>4. mem = Write(once, "memsw", old)
    BY <1>7 DEF revertMemory
  <2>5. /\ once = [limit |-> once.limit, memsw |-> once.memsw]
        /\ once.limit = old \/ (once.limit = live.limit /\ ~(old <= live.memsw))
    BY DEF Write, KernelTakes, Mem
  <2> HIDE DEF once
  <2>6. mem.limit = once.limit
    BY <2>4, <2>5 DEF Write
  <2>7. ~(old <= live.memsw) => live.limit = new
    <3>1. k = 1 \/ k = 2 \/ k = 3 \/ k = 4 \/ k = 5 \/ k = 6
      OBVIOUS
    <3> QED
      BY <1>3, <2>1, <3>1 DEF MemoryAt
  <2> HIDE DEF mem
  <2> QED
    BY <1>3, <2>3, <2>5, <2>6, <2>7
<1> QED
  BY <1>5, <1>6, <1>7 DEF MemoryInv

(* A container's limits are never lost in a change, and a change of them     *)
(* reaches it (Update, SetCgroup's revertMemory, the live update of devices),*)
(* for any limits and devices.                                               *)
THEOREM LimitsWork == Spec => LimitsEnforced
<1>1. ASSUME IInv, LimitsInv, Next
      PROVE  KeepsLimit
  <2> SUFFICES ASSUME up'.phase = "idle", up.phase = "apply", Calm,
                      Or(up.config, "limits.memory", 0) # 0, Or(up.newConfig, "limits.memory", 0) # 0
               PROVE  live'.limit < Unlimited
    BY DEF KeepsLimit, Calm
  <2>1. ApplyInv /\ running
    BY <1>1 DEF LimitsInv, Updating, Calm
  <2>2. CASE ApplyFails
    BY <1>1, <2>1, <2>2, FailureKeepsLimit
  <2>3. CASE Commit \/ Fault
    <3>1. Applied /\ live' = live
      BY <2>3 DEF Commit, Fault
    <3>2. Limited(up.newConfig)
      BY <2>1, <3>1, AppliedLimits
    <3>3. IsConfig(up.newConfig)
      <4>1. /\ IsCopy(up.args) /\ up.newConfig = expandConfig(up.args) /\ RowsType
        BY <1>1 DEF IInv, TypeInv, UpType, NoUpdate, Updating
      <4> QED
        BY <4>1, ExpandedConfig DEF IsCopy, RowsType
    <3> QED
      BY <3>1, <3>2, <3>3, MemoryType DEF Limited
  <2>4. CASE containerPut \/ profilePut \/ Validate \/ Invalid \/ RootRefused \/ Live
    BY <2>4 DEF containerPut, profilePut, Validate, Invalid, RootRefused, Live, Quiet
  <2>5. CASE Take \/ Apply
    <3>1. DOMAIN up = UpFields
      BY <1>1 DEF IInv, TypeInv, UpType, NoUpdate
    <3>2. up'.phase = up.phase
      BY <2>5, <3>1 DEF Take, Apply, UpFields
    <3> QED
      BY <3>2
  <2>6. CASE Start \/ Stop \/ Scheduler \/ Hotplug
    BY <2>6 DEF Start, Stop, Scheduler, Hotplug
  <2> QED
    BY <1>1, <2>2, <2>3, <2>4, <2>5, <2>6 DEF Next, Update
<1>2. ASSUME IInv, LimitsInv, Next
      PROVE  RefreshesLimits
  <2> SUFFICES ASSUME Commit, Calm
               PROVE  LET new == up.newDevices
                          d == Diff(up.devices, new)
                      IN /\ \A n \in Nics(new) :
                              d.upd = {n} /\ d.add = {} => live.nics[up.c.names[n]].limit = new[n].limit
                         /\ (\E n \in d.upd : new[n].type = "disk") => live.io = getDiskLimits(new)
    BY DEF RefreshesLimits, Calm
  <2>1. up.phase = "apply" /\ up.doing = <<>> /\ Pending = {}
    BY DEF Commit, Applied
  <2>2. PlansAre /\ DisksInv /\ NicsInv
    BY <1>2, <2>1 DEF LimitsInv, ApplyInv, Updating
  <2>3. up.group[5] = {} /\ up.group[6] = {}
    BY <2>1, <2>2 DEF PlansAre, Pending
  <2>4. \A n : up.doing # NicPlan(n) /\ up.doing # DiskPlan(n)
    BY <2>1 DEF NicPlan, setNetworkLimits, DiskPlan
  <2> QED
    BY <2>2, <2>3, <2>4 DEF DisksInv, NicsInv
<1>3. IInv /\ LimitsInv /\ [Next]_vars => [KeepsLimit]_vars /\ [RefreshesLimits]_vars
  BY <1>1, <1>2
<1>4. Spec => [][KeepsLimit]_vars
  BY <1>3, UpdateInvariant, LimitsInvariant, PTL DEF Spec
<1>5. Spec => [][RefreshesLimits]_vars
  BY <1>3, UpdateInvariant, LimitsInvariant, PTL DEF Spec
<1> QED
  BY <1>4, <1>5, PTL DEF LimitsEnforced
=============================================================================
