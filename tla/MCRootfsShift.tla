---------------------------- MODULE MCRootfsShift ----------------------------
EXTENDS RootfsShift

(* Kernel maps: everything, two adjacent ranges in the wrong order, a small  *)
(* one, nothing; shadow files with an allocation that is too small first,    *)
(* with one beyond the kernel's map, and with none.                          *)
Full == <<<<0, 0, TopId + 1>>>>
Nested == <<<<6, 20, 5>>, <<0, 30, 6>>>>
Short == <<<<0, 0, 6>>>>
Both(x) == [uid |-> x, gid |-> x]
Host(tools, shadow, procfiles, proc) ==
  [tools |-> tools, shadow |-> shadow, procfiles |-> procfiles, proc |-> proc]

Plain == {Host(FALSE, Both(<<>>), TRUE, Both(p)) : p \in {Full, Nested, Short, <<>>}}
Bare == Host(FALSE, Both(<<>>), FALSE, Both(<<>>))
Shadow == Host(TRUE, Both(<<<<1, 1>>, <<4, 5>>>>), TRUE, Both(Full))
Beyond == Host(TRUE, Both(<<<<5, 4>>>>), TRUE, Both(Short))
Unset == Host(TRUE, Both(<<>>), TRUE, Both(Full))

MCEnvs == Plain \cup {Bare, Shadow, Beyond, Unset}

(* The allocations of the others give the same maps up to renaming of ids,   *)
(* or none, as one of these.                                                 *)
MCServed == {Bare, Shadow, Host(FALSE, Both(<<>>), TRUE, Both(Short))}

MCRaws == {<<>>, <<Entry("both", 5, 0, 1)>>, <<Entry("uid", 2, 0, 2), Entry("uid", 1, 1, 1)>>}
MCLines == {Entry(kind, h, ns, range) :
              kind \in {"uid", "both"}, h \in {1, 6}, ns \in 0 .. 2, range \in 1 .. 2}
MCProbes == {<<i>> : i \in MCLines} \cup (MCLines \X MCLines)
MCReceived == {<<Entry("uid", 9, 0, 2), Entry("gid", 9, 0, 2)>>}

(* Two files; one with a second path, or with an ACL entry.                  *)
MCLayouts ==
  {[paths |-> <<1, 2>>, tag |-> <<tag, "none">>] : tag \in {"none", "user", "group"}}
    \cup {[paths |-> <<1, 2, 1>>, tag |-> <<"none", "none">>]}
=============================================================================
