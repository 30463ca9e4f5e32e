------------------------------ MODULE CmdFifo -------------------------------
(***************************************************************************)
(* What the SMMU command queue promises: a bounded first-in first-out      *)
(* queue of commands, from which nothing is lost, repeated or reordered.   *)
(***************************************************************************)
EXTENDS Naturals, Sequences

CONSTANTS Cmd, Size

VARIABLE q

Init == q = <<>>

Put == Len(q) < Size /\ \E c \in Cmd : q' = Append(q, c)

Get == q # <<>> /\ q' = Tail(q)

Next == Put \/ Get

Spec == Init /\ [][Next]_q
=============================================================================
