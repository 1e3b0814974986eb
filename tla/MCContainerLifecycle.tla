----------------------- MODULE MCContainerLifecycle -----------------------
EXTENDS ContainerLifecycle, TLC

\* Goroutines of a kind, and operations unless InOrder, are interchangeable.
ThreadSymmetry == Permutations(OpIds) \cup Permutations(Clients) \cup Permutations(Cleaners)

\* Two requests at once, beside guest events.
Pair(requests, events) ==
    [requests |-> requests, events |-> events,
     clients |-> 2, max |-> 1, ops |-> 3, ephemeral |-> {FALSE}]

\* Three requests one after the other, and nothing else.
Sequential ==
    [requests |-> {"start", "stop", "restart", "freeze", "unfreeze", "host shutdown"},
     events |-> {}, clients |-> 1, max |-> 3, ops |-> 6, ephemeral |-> BOOLEAN]

\* One request of any kind, and whatever can go wrong beside it.
Faulty ==
    [requests |-> RequestKinds, events |-> EventKinds \ {"reboot"},
     clients |-> 1, max |-> 1, ops |-> 3, ephemeral |-> {FALSE}]

\* Starts beside stops or shutdowns, guest reboots and timeouts, and a stop
\* beside a shutdown.
Races    == {Pair({"start", "stop"}, {"reboot", "timeout"}),
             Pair({"start", "shutdown"}, {"reboot"}),
             Pair({"stop", "shutdown"}, {"reboot", "timeout"})}
Requests == {Sequential, Faulty}
=============================================================================
