------------------------------ MODULE AddrSpace ------------------------------
(***************************************************************************)
(* What mm.c promises its callers.  An address space is a function from    *)
(* pages to translations.  An update gives the pages of its range, in      *)
(* ascending order, the translation it asks for and leaves every other     *)
(* page alone; an update that fails has changed nothing.                   *)
(***************************************************************************)
EXTENDS Naturals

CONSTANTS Pages, Attrs
VARIABLES space, upd, done

vars == <<space, upd, done>>

Unmapped == [pa |-> 0, attr |-> "unmapped"]
Idle == [begin |-> 0, end |-> 0, off |-> 0, attr |-> "unmapped"]

\* The translation an update asks for at page p.
Target(p, u) == IF u.attr = "unmapped" THEN Unmapped
                ELSE [pa |-> p + u.off, attr |-> u.attr]

Empty == [p \in Pages |-> Unmapped]

Init == space = Empty /\ upd = Idle /\ done = 0

Begin ==
  /\ upd = Idle
  /\ upd' \in [begin : Pages, end : Nat, off : Nat, attr : Attrs \union {"unmapped"}]
  /\ upd' # Idle
  /\ done' = upd'.begin
  /\ UNCHANGED space

Advance ==
  /\ upd # Idle
  /\ done' \in Nat /\ done' > done
  /\ space' = [p \in Pages |-> IF p \in done .. done' - 1 /\ p < upd.end
                                 THEN Target(p, upd) ELSE space[p]]
  /\ UNCHANGED upd

Finish == upd # Idle /\ done >= upd.end /\ upd' = Idle /\ done' = 0 /\ UNCHANGED space

Fail == upd # Idle /\ done = upd.begin /\ upd' = Idle /\ done' = 0 /\ UNCHANGED space

\* The table is freed as a whole.
Drop == upd = Idle /\ space' = Empty /\ UNCHANGED <<upd, done>>

Next == Begin \/ Advance \/ Finish \/ Fail \/ Drop

Spec == Init /\ [][Next]_vars
=============================================================================
