------------------------------- MODULE MCPsci -------------------------------
(* Instances of Psci for TLC. *)
EXTENDS Psci

CONSTANTS c0, c1, c2

AllCpu == {c0, c1, c2}

OneVm == <<<<c0, c1, c2>>>>
TwoVms == <<<<c0>>, <<c1, c2>>>>

\* Two CPUs of cluster 0 and a number no VM of the instances has.
Affinities == [Aff0 : {0, 1, 2, 3}, Aff1 : {0}, Aff2 : {0}]
=============================================================================
