------------------------------ MODULE MCMpool -------------------------------
(***************************************************************************)
(* An instance of Mpool: two threads, three entries of two bytes in a       *)
(* region that begins and ends off an entry boundary.                      *)
(***************************************************************************)
EXTENDS Mpool, TLC

RawRegion == [begin |-> 1, size |-> 8]
OneTwo == {1, 2}
Symmetry == Permutations(Thread)
=============================================================================
