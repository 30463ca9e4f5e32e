-------------------------------- MODULE MCMm --------------------------------
(***************************************************************************)
(* Tables of two entries on three levels, one root: eight pages.           *)
(***************************************************************************)
EXTENDS Mm

LOCAL Arch == INSTANCE ArchMm

SomeRanges == {<<0, 8>>, <<1, 3>>, <<4, 7>>, <<3, 9>>}
SomeOffsets == {0, 1, 4}

\* What ArchMm says of the entries, modes and walks Mm abstracts from.  It
\* does not depend on the state and is evaluated where the boot begins.
ArchAgrees == root \/ Arch!ArchAgrees
=============================================================================
