--------------------------- MODULE MCLinuxDriver ----------------------------
(***************************************************************************)
(* Instances of LinuxDriver: two users that send; a user that sends to two *)
(* vCPUs, which wait for it; two vCPUs that send to a socket while its     *)
(* user closes it; two that wait and wake each other; two VMs that send to *)
(* each other; more vCPUs than the driver takes.                           *)
(***************************************************************************)
EXTENDS LinuxDriver

CONSTANTS s1, s2
TwoSocks == {s1, s2}
OnePort == {1}

Kinds == {"wake", "primary", "vm", "release", "abort"}
Limit(p, i, c1, c2, k, r) ==
  [parts |-> p, idles |-> i, calls |-> [s \in TwoSocks |-> IF s = s1 THEN c1 ELSE c2],
   requests |-> [kind \in Kinds |-> IF kind \in k THEN r ELSE 0]]
SmallLimits == {Limit(<<1>>, {}, 3, 3, {}, 0), Limit(<<2>>, {"msg_wait"}, 3, 0, {"release"}, 1),
                Limit(<<2>>, {}, 2, 0, {"primary"}, 2), Limit(<<2>>, {"wfi", "msg_wait_timeout"}, 0, 0, {"wake", "abort"}, 1),
                Limit(<<1, 1>>, {"wfi"}, 0, 0, {"vm", "release"}, 2), Limit(<<2, 1>>, {}, 0, 0, {}, 0)}
=============================================================================
