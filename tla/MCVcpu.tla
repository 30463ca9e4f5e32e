------------------------------- MODULE MCVcpu -------------------------------
(***************************************************************************)
(* Instances of Vcpu.  A VM whose vCPUs have no entry in pinned has turned *)
(* its physical CPUs off, or not started them.                             *)
(***************************************************************************)
EXTENDS Vcpu

IrqOnly == {"IRQ"}

\* A primary with two vCPUs; VM 3 runs one vCPU on CPU 1 and one on CPU 2,
\* which has no counterpart in the primary.
WakeVms == {1, 3}
WakeCount == [m \in WakeVms |-> 2]
WakePinned == [p \in {1, 2} |-> <<3, p - 1>>]
=============================================================================
