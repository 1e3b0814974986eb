------------------------------- MODULE Storage -------------------------------
(* What the storage interface of lxd/storage.go promises to the rest of the  *)
(* daemon, whatever the backend: a call owns the volumes it is about; every  *)
(* other volume keeps its content while the call runs and when it fails; and *)
(* a call that returns no error leaves its volumes as asked for.             *)

CONSTANTS Threads, Volumes, Data,
          Absent          \* what is seen of a volume that is not there

VARIABLES vols,           \* Volume -> what is seen of it
          calls           \* Thread -> the storage call it is in

vars == <<vols, calls>>

Content == Data \cup {Absent}

NoCall == [phase |-> "idle", src |-> {}, want |-> <<>>]

(* A call: its progress, the volumes it reads, and for each volume it owns   *)
(* the contents that are a correct result.                                   *)
IsCall(c) == /\ DOMAIN c = {"phase", "src", "want"}
             /\ c.phase = "busy"
             /\ c.src \subseteq Volumes
             /\ DOMAIN c.want \subseteq Volumes
             /\ \A v \in DOMAIN c.want : c.want[v] \subseteq Content

Owned(t) == DOMAIN calls[t].want

(* The parts of a volume (its root and what is mounted below) are copied one *)
(* after the other: each must be what was asked for.                         *)
Shows(x, allowed) == \A i \in DOMAIN x : \E w \in allowed : x[i] = w[i]

(* A copy of a volume that changes while it is being copied may show the     *)
(* volume as it was at any moment of the call.                               *)
Grown(c, now) ==
  [v \in DOMAIN c.want |->
     c.want[v] \cup (IF c.phase = "busy" THEN {now[x] : x \in c.src} ELSE {})]

AllGrown(now) == [t \in Threads |-> [calls[t] EXCEPT !.want = Grown(calls[t], now)]]

Init == /\ vols = [v \in Volumes |-> Absent]
        /\ calls = [t \in Threads |-> NoCall]

Begin(t) ==
  /\ calls[t].phase = "idle"
  /\ IsCall(calls'[t])
  /\ \A u \in Threads \ {t} : Owned(u) \cap DOMAIN calls'[t].want = {}
  /\ calls' = [calls EXCEPT ![t] = calls'[t]]
  /\ UNCHANGED vols

(* A command of the backend changes only the volumes of its own call; the    *)
(* last one of a call that succeeds completes what was asked for.            *)
Command(t) ==
  /\ calls[t].phase = "busy"
  /\ DOMAIN vols' = Volumes
  /\ \A v \in Owned(t) : vols'[v] \in Content
  /\ \A v \in Volumes \ Owned(t) : vols'[v] = vols[v]
  /\ \E p \in {"busy", "ok", "error"} :
       /\ calls' = [AllGrown(vols') EXCEPT ![t].phase = p]
       /\ p = "ok" => \A v \in Owned(t) : Shows(vols'[v], calls'[t].want[v])

Return(t) ==
  /\ calls[t].phase \in {"ok", "error"}
  /\ calls' = [calls EXCEPT ![t] = NoCall]
  /\ UNCHANGED vols

(* The container writes to its root file system.                             *)
Write(v) ==
  /\ vols[v] # Absent
  /\ \A t \in Threads : v \notin Owned(t)
  /\ vols'[v] \in Data
  /\ \A w \in Volumes \ {v} : vols'[w] = vols[w]
  /\ calls' = AllGrown(vols')

(* The daemon stops in the middle of its calls.                              *)
Crash ==
  /\ calls' = [t \in Threads |-> NoCall]
  /\ UNCHANGED vols

Next == \/ \E t \in Threads : Begin(t) \/ Command(t) \/ Return(t)
        \/ \E v \in Volumes : Write(v)
        \/ Crash

Spec == Init /\ [][Next]_vars
=============================================================================
