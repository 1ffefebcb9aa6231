---------------------------- MODULE MCSmServer -----------------------------
(* Small instances of SmServer for TLC.  The client names a and ab exercise *)
(* the prefix comparison of the wake-up loop.                               *)
EXTENDS SmServer, TLC

CONSTANTS h1, h2, h3, p0, p1, p2, c1, c2

MCHandles == {h1, h2, h3}
MCPorts == {p0, p1}
MCPorts3 == {p0, p1, p2}
MCPids == {c1}
MCPids2 == {c1, c2}
MCName == {"a"}
MCNames == {"a", "ab"}
MCPrefix == {<<"a", "ab">>}
MCNoPrefix == {}
Flags == {0, 1}
One == {1}
MCAskPm == {"srv:pm"}
MCWaitOps == {"RegisterService", "GetServiceHandle"}
MCFullOps == {"RegisterService", "UnregisterService", "GetServiceHandle", "RegisterPort",
              "GetPort", "PublishAndGetSubscriber"}
MCTableOps == {"RegisterClient", "RegisterService", "UnregisterService", "RegisterPort",
               "UnregisterPort", "GetServiceHandle", "RegisterProcess", "UnregisterProcess"}

Symm == Permutations(MCHandles)
SymmTable == Symm \cup Permutations({p1, p2}) \cup Permutations(MCPids2)
=============================================================================
