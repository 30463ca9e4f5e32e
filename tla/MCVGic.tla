------------------------------- MODULE MCVGic -------------------------------
(***************************************************************************)
(* VM 1 on CPUs 0 and 1, VM 2 on CPU 2.  Interrupt 40 is used by both VMs, *)
(* 51 by VM 1 and 50, 990 by VM 2 alone; 990 is beyond the range routed.   *)
(***************************************************************************)
EXTENDS VGic

McCpus == <<<<0, 1>>, <<2>>>>
McUses == <<{40, 51}, {40, 50, 990}>>

Enable(s) == [k |-> "enable", s |-> s]
Disable(s) == [k |-> "disable", s |-> s]
Irouter(i, to, irm) == [k |-> "irouter", i |-> i, to |-> to, irm |-> irm]
Gicr(f) == [k |-> "gicr", f |-> f]

McAccesses ==
  <<{[k |-> "ctlr"], [k |-> "unclaimed"], Enable({40, 51}), Irouter(51, 1, FALSE), Irouter(40, 1, TRUE),
     Gicr(1)},
    {[k |-> "read"], [k |-> "invalid"], Enable({40, 50}), Enable({990}), Disable({50}),
     Irouter(50, 0, FALSE), Gicr(0), Gicr(1)}>>
=============================================================================
