-------------------------- MODULE MCContainerUpdate --------------------------
EXTENDS ContainerUpdate
Device(type, at, limit, size) == [type |-> type, at |-> at, limit |-> limit, size |-> size]
Root(size) == "root" :> Device("disk", "/", 0, size)
Nic(at, limit) == Device("nic", at, limit, 0)
Data == "data" :> Device("disk", "/srv", 0, 0)
Quick == "data" :> Device("disk", "/srv", 3, 0)
Kvm == "data" :> Device("unix", "/dev/kvm", 0, 0)
Twice == "a" :> Device("disk", "/x", 0, 0) @@ "b" :> Device("disk", "/x", 0, 0)
Small == "limits.cpu" :> Count(1) @@ "limits.memory" :> 4
Large == "limits.cpu" :> Pin({1}) @@ "limits.memory" :> 2 @@ "limits.processes" :> 7
Put(config, devices, uses, sends) ==
  [config |-> config, devices |-> devices, uses |-> uses, sends |-> sends]
MCPuts == {
  Put(Small, Data, TRUE, FALSE),
  Put(Large, Kvm @@ "eth1" :> Nic("br1", 0), TRUE, TRUE),
  Put(Large, "eth0" :> Nic("br0", 9), TRUE, FALSE),
  Put(<<>>, Root(2) @@ Kvm, FALSE, FALSE),
  Put(Small, <<>>, FALSE, TRUE),
  Put(Small, Twice, TRUE, TRUE)}
MCProfilePuts == {
  [config |-> <<>>, devices |-> Root(1) @@ "eth0" :> Nic("br0", 0)],
  [config |-> Small, devices |-> Root(1) @@ "eth0" :> Nic("br0", 5)],
  [config |-> Large, devices |-> Root(2) @@ Quick @@ "eth0" :> Nic("br1", 5)]}
MCOthers == "other" :> Pin({0})
=============================================================================
