------------------------------- MODULE IdMap ---------------------------------
(* The id maps of shared/idmap: sequences of entries that map a range of     *)
(* container ids (Nsid) to a range of host ids (Hostid), for uids, gids or   *)
(* both; how the host's own allocation is found, how the raw.idmap of a      *)
(* container is worked into it, and how an id is shifted.                    *)
EXTENDS Integers, Sequences, SequencesExt, FiniteSetsExt, TLC

CONSTANTS MinIds,       \* 65536: the smallest allocation worth using
          Reserved,     \* 100000: the ids below belong to the host's own users
          TopId,        \* 4294967294: the last id of the kernel
          FallbackHost, FallbackRange   \* the map used when all ids are mapped

ASSUME BoundsAssumption ==
  /\ {MinIds, Reserved, TopId, FallbackHost, FallbackRange} \subseteq Nat \ {0}
  /\ Reserved <= FallbackHost /\ FallbackHost + FallbackRange <= TopId + 1

Kinds == {"uid", "gid", "both"}
Entry(kind, host, ns, range) ==
  [Isuid |-> kind \in {"uid", "both"}, Isgid |-> kind \in {"gid", "both"},
   Hostid |-> host, Nsid |-> ns, Maprange |-> range]

(* The two classes of ids; ids outside of every entry shift to None.         *)
Classes == {"uid", "gid"}
Covers(e, class) == IF class = "uid" THEN e.Isuid ELSE e.Isgid
None == -1

----------------------------------------------------------------------------
(* Shifting.                                                                 *)

is_between(x, low, high) == x >= low /\ x < high

shift_into_ns(e, id) ==
  IF is_between(id, e.Nsid, e.Nsid + e.Maprange) THEN id - e.Nsid + e.Hostid ELSE None
shift_from_ns(e, id) ==
  IF is_between(id, e.Hostid, e.Hostid + e.Maprange) THEN id - e.Hostid + e.Nsid ELSE None

(* The first entry of the class that applies decides.                        *)
doShiftIntoNs(m, class, id, how) ==
  LET via(e) == IF how = "in" THEN shift_into_ns(e, id) ELSE shift_from_ns(e, id)
      hits   == {k \in DOMAIN m : Covers(m[k], class) /\ via(m[k]) # None}
  IN IF hits = {} THEN None ELSE via(m[Min(hits)])

ShiftIntoNs(m, class, id) == doShiftIntoNs(m, class, id, "in")
ShiftFromNs(m, class, id) == doShiftIntoNs(m, class, id, "out")

----------------------------------------------------------------------------
(* Adding an entry to a map.                                                 *)

SameClass(e, i) == (e.Isuid /\ i.Isuid) \/ (e.Isgid /\ i.Isgid)

(* One of the four ends lies within the other range; `last` is what the      *)
(* length of a range counts to.                                              *)
Touch(a, la, b, lb) ==
  \/ is_between(a, b, lb) \/ is_between(b, a, la)
  \/ is_between(la, b, lb) \/ is_between(lb, a, la)

HostidsIntersect(e, i) ==
  SameClass(e, i) /\ Touch(e.Hostid, e.Hostid + e.Maprange, i.Hostid, i.Hostid + i.Maprange)

Intersects(e, i) ==
  /\ SameClass(e, i)
  /\ \/ Touch(e.Hostid, e.Hostid + e.Maprange - 1, i.Hostid, i.Hostid + i.Maprange - 1)
     \/ Touch(e.Nsid, e.Nsid + e.Maprange - 1, i.Nsid, i.Nsid + i.Maprange - 1)

(* ErrHostIdIsSubId.                                                         *)
HostIdIsSubId(e, i) == Intersects(e, i) /\ HostidsIntersect(e, i)

(* Mutant: the upper part keeps the first host ids of the entry it is from.  *)
SplitSliding(e, i) ==
  LET lower == i.Nsid - e.Nsid
      upper == e.Maprange - i.Maprange - lower
  IN SelectSeq(<<[e EXCEPT !.Maprange = lower], i,
                 [e EXCEPT !.Hostid = e.Hostid + lower, !.Nsid = i.Nsid + i.Maprange,
                           !.Maprange = upper]>>,
               LAMBDA x : x.Maprange > 0)

(* What remains of e below and above i, with i between.                      *)
Split(e, i) ==
  LET lower == i.Nsid - e.Nsid
      upper == e.Maprange - i.Maprange - lower
  IN SelectSeq(<<[e EXCEPT !.Maprange = lower], i,
                 [e EXCEPT !.Hostid = e.Hostid + lower + i.Maprange, !.Nsid = i.Nsid + i.Maprange,
                           !.Maprange = upper]>>,
               LAMBDA x : x.Maprange > 0)

Ok(m) == [ok |-> TRUE, map |-> m]
Error == [ok |-> FALSE, map |-> <<>>]

AddSafe(m, i) ==
  LET hit == {k \in DOMAIN m : Intersects(m[k], i)}
      parts == FlattenSeq([k \in DOMAIN m |-> IF k \in hit THEN Split(m[k], i) ELSE <<m[k]>>])
  IN CASE \E k \in hit : HostIdIsSubId(m[k], i) -> Error
       [] hit # {} /\ ~\E k \in hit : HostIdIsSubId(m[k], i) -> Ok(parts)
       [] OTHER -> Ok(Append(parts, i))

AddAll(m, entries) ==
  FoldLeft(LAMBDA acc, i : IF acc.ok THEN AddSafe(acc.map, i) ELSE Error, Ok(m), entries)

(* The lines of raw.idmap are first added to each other: later ones win.     *)
parseRawIdmap(lines) == AddAll(<<>>, lines)

WithRaw(m, lines) ==
  LET raw == parseRawIdmap(lines) IN IF raw.ok THEN AddAll(m, raw.map) ELSE Error

----------------------------------------------------------------------------
(* The host's allocation, found in an environment: proc, per class, are the  *)
(* triples of /proc/self/?id_map, when that file exists; shadow, per class,  *)
(* the pairs of /etc/sub?id, used when the uidmap tools are installed.       *)

getFromProc(env, class) ==
  [k \in DOMAIN env.proc[class] |->
     Entry(class, env.proc[class][k][2], env.proc[class][k][1], env.proc[class][k][3])]

(* A file without an entry is an error; without a file nothing is mapped.    *)
CurrentIdmapSet(env) ==
  CASE ~env.procfiles -> Ok(<<Entry("uid", 0, 0, 0), Entry("gid", 0, 0, 0)>>)
    [] env.procfiles /\ \E class \in Classes : env.proc[class] = <<>> -> Error
    [] OTHER -> Ok(getFromProc(env, "uid") \o getFromProc(env, "gid"))

Less(x, y) == \/ x.Isuid # y.Isuid /\ x.Isuid
              \/ x.Isuid = y.Isuid /\ x.Isgid # y.Isgid /\ x.Isgid
              \/ x.Isuid = y.Isuid /\ x.Isgid = y.Isgid /\ x.Nsid < y.Nsid

Merge(ranges, e) ==
  LET onto == {k \in DOMAIN ranges : ranges[k].Isuid = e.Isuid /\ ranges[k].Isgid = e.Isgid
                                     /\ ranges[k].Endid + 1 = e.Nsid}
  IN IF onto # {} THEN [ranges EXCEPT ![Min(onto)].Endid = @ + e.Maprange]
     ELSE Append(ranges, [Isuid |-> e.Isuid, Isgid |-> e.Isgid,
                          Startid |-> e.Nsid, Endid |-> e.Nsid + e.Maprange - 1])

ValidRanges(m) == FoldLeft(Merge, <<>>, SortSeq(m, Less))

RangeContains(r, id) == id >= r.Startid /\ id <= r.Endid

KernelRanges(env) == ValidRanges(CurrentIdmapSet(env).map)

(* Mutant: only the first id is looked up.                                   *)
UsableStart(env, e) ==
  /\ CurrentIdmapSet(env).ok
  /\ \A class \in {c \in Classes : Covers(e, c)} :
       \E r \in Range(KernelRanges(env)) : Covers(r, class) /\ RangeContains(r, e.Hostid)

(* Both ends of an entry lie in one range of ids that the kernel has mapped. *)
Usable(env, e) ==
  /\ CurrentIdmapSet(env).ok
  /\ \A class \in {c \in Classes : Covers(e, c)} :
       \E r \in Range(KernelRanges(env)) :
         Covers(r, class) /\ RangeContains(r, e.Hostid) /\ RangeContains(r, e.Hostid + e.Maprange - 1)

(* The first entry of /etc/sub?id that is large enough.                      *)
getFromShadow(entries, class) ==
  LET big == SelectSeq(entries, LAMBDA x : x[2] >= MinIds)
  IN IF big = <<>> THEN <<>> ELSE <<Entry(class, big[1][1], 0, big[1][2])>>

FallbackMap == <<Entry("both", FallbackHost, 0, FallbackRange)>>
FullKernelRanges == <<[Isuid |-> TRUE, Isgid |-> FALSE, Startid |-> 0, Endid |-> TopId],
                      [Isuid |-> FALSE, Isgid |-> TRUE, Startid |-> 0, Endid |-> TopId]>>

(* The first range of a class that is large enough above the reserved ids.   *)
Suitable(ranges, class) ==
  LET start(r) == Max({r.Startid, Reserved})
      fit == SelectSeq(ranges, LAMBDA r : Covers(r, class) /\ r.Endid >= Reserved
                                          /\ r.Endid - start(r) >= MinIds)
  IN IF fit = <<>> THEN <<>>
     ELSE <<Entry(class, start(fit[1]), 0, fit[1].Endid - start(fit[1]) + 1)>>

DefaultIdmapSet(env) ==
  CASE env.tools /\ \E class \in Classes : env.shadow[class] = <<>> -> Error
    [] env.tools /\ \A class \in Classes : env.shadow[class] # <<>> ->
         Ok(getFromShadow(env.shadow.uid, "uid") \o getFromShadow(env.shadow.gid, "gid"))
    [] ~env.tools /\ (~CurrentIdmapSet(env).ok \/ KernelRanges(env) = FullKernelRanges) ->
         Ok(FallbackMap)
    [] OTHER -> Ok(Suitable(KernelRanges(env), "uid") \o Suitable(KernelRanges(env), "gid"))

UsableSet(env, m) == \A e \in Range(m) : Usable(env, e)

(* The map the daemon hands to its containers; <<>> is none: it then only    *)
(* takes privileged containers.                                              *)
GetIdmapSet(env) ==
  LET m == DefaultIdmapSet(env) IN IF m.ok /\ UsableSet(env, m.map) THEN m.map ELSE <<>>
=============================================================================
