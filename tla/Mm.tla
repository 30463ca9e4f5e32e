-------------------------------- MODULE Mm --------------------------------
(***************************************************************************)
(* The page tables of src/src/mm.c with the entries of                     *)
(* src/src/arch/aarch64/mm.c: a radix tree of tables of P entries, changed *)
(* in two passes (prepare, commit), an entry at a time, while the hardware *)
(* walks it.  Addresses are page numbers.                                  *)
(*                                                                         *)
(* pte[<<l, i>>] is the entry of level l that covers the pages             *)
(* i * P^l .. (i + 1) * P^l - 1; it is reachable when the entries above it *)
(* are tables.  at is the cursor of mm_map_level: the recursion comes back *)
(* to the entry it descends from with the tables above unchanged, so a     *)
(* step looks the entry of at up from the root.                            *)
(***************************************************************************)
EXTENDS Naturals, FiniteSets, FiniteSetsExt

CONSTANTS P,          \* MM_PTE_PER_PAGE
          MaxLevel,   \* mm_max_level
          Roots,      \* mm_root_table_count
          BlockMax,   \* highest level of arch_mm_is_block_allowed
          PoolSize,   \* tables the memory pool holds at boot
          Ranges,     \* <<begin, end>> of the updates asked for
          Offsets,    \* pa - ipa of a stage-2 table
          Cached      \* pages whose translations the hardware keeps

ASSUME Sizes == P > 1 /\ MaxLevel > 0 /\ PoolSize >= Roots

VARIABLES stage,  \* 1: MM_FLAG_STAGE1, the hardware uses the table; 2: before boot ends
          off,    \* pa - ipa of every mapping of this table
          root,   \* mm_ptable_init has allocated the root tables
          pte, pool, \* entries; number of free tables
          op,     \* the update in progress
          at, pc, \* its cursor and step
          job,    \* the entry mm_replace_entry is replacing
          tlb     \* a translation the hardware holds

vars == <<stage, off, root, pte, pool, op, at, pc, job, tlb>>

mm_entry_size(l) == P^l
mm_ptable_addr_space_end == Roots * mm_entry_size(MaxLevel + 1)
Pages == 0 .. mm_ptable_addr_space_end - 1
Slots == UNION {{l} \X (0 .. (mm_ptable_addr_space_end \div mm_entry_size(l)) - 1) :
                  l \in 0 .. MaxLevel}
Slot(l, p) == <<l, p \div mm_entry_size(l)>>
Under(s) == {t \in Slots : t[1] < s[1] /\ t[2] \div mm_entry_size(s[1] - t[1]) = s[2]}
mm_start_of_next_block(p, size) == (p \div size + 1) * size
mm_level_end(p, l) == mm_start_of_next_block(p, mm_entry_size(l + 1))
mm_index(p, l) == (p \div mm_entry_size(l)) % P

\* "owned" stands for attributes without PTE_VALID and with STAGE2_SW_OWNED.
Attrs == IF stage = 1 THEN {"rw", "ro"} ELSE {"rw", "owned"}
arch_mm_absent_pte == [k |-> "absent", pa |-> 0, attr |-> "zero"]
arch_mm_table_pte == [k |-> "table", pa |-> 0, attr |-> "valid"]
arch_mm_block_pte(pa, a) == [k |-> "block", pa |-> pa, attr |-> a]
arch_mm_is_block_allowed(l) == l <= BlockMax
arch_mm_pte_is_table(e) == e.k = "table"
arch_mm_pte_is_block(e) == e.k = "block"
arch_mm_pte_is_valid(e) == e.k = "table" \/ (e.k = "block" /\ e.attr # "owned")
arch_mm_pte_is_present(e) == arch_mm_pte_is_valid(e) \/ e.attr = "owned"

\* The level at which the hardware's walk of page p in table t ends.
LeafLevel(t, p) == Max({l \in 0 .. MaxLevel : ~arch_mm_pte_is_table(t[Slot(l, p)])})
Unmapped == [pa |-> 0, attr |-> "unmapped"]
\* What an entry of level l translates page p to: the entry holds no address
\* bits below its size.
Through(e, l, p) == LET size == mm_entry_size(l)
                    IN  [pa |-> (e.pa \div size) * size + (p % size), attr |-> e.attr]
Walk(t, p) == LET l == LeafLevel(t, p) e == t[Slot(l, p)]
              IN  IF arch_mm_pte_is_present(e) THEN Through(e, l, p) ELSE Unmapped

NoOp == [begin |-> 0, end |-> 0, attr |-> "unmapped", commit |-> FALSE]
NoJob == [slot |-> <<0, 0>>, begin |-> 0, old |-> arch_mm_absent_pte, new |-> arch_mm_absent_pte,
          next |-> 0]
NoTlb == [p |-> 0, t |-> Unmapped]

Init == /\ stage \in {1, 2}
        /\ off \in IF stage = 1 THEN {0} ELSE Offsets
        /\ root = FALSE /\ pte = [s \in Slots |-> arch_mm_absent_pte]
        /\ pool = PoolSize
        /\ op = NoOp /\ at = 0 /\ pc = "idle" /\ job = NoJob /\ tlb = NoTlb

----------------------------------------------------------------------------
mm_ptable_init == /\ ~root /\ pool >= Roots
                  /\ root' = TRUE /\ pool' = pool - Roots
                  /\ UNCHANGED <<stage, off, pte, op, at, pc, job, tlb>>

FreeOnlyTop(e, s) == IF arch_mm_pte_is_table(e) THEN 1 ELSE 0
\* mm_free_page_pte: the tables an entry frees, with all that hang below it.
mm_free_page_pte(e, s) ==
  IF ~arch_mm_pte_is_table(e) THEN 0
  ELSE 1 + Cardinality({t \in Under(s) : arch_mm_pte_is_table(pte[t])})

\* Only a table the hardware does not use is freed.
mm_ptable_fini ==
  /\ root /\ pc = "idle" /\ stage = 2
  /\ root' = FALSE
  /\ pool' = pool + Roots + Cardinality({s \in Slots : arch_mm_pte_is_table(pte[s])})
  /\ pte' = [s \in Slots |-> arch_mm_absent_pte]
  /\ UNCHANGED <<stage, off, op, at, pc, job, tlb>>

----------------------------------------------------------------------------
\* mm_round_up_to_page of the end and the cut at the end of the address space.
mm_ptable_update(b, e, a) ==
  /\ root /\ pc = "idle"
  /\ op' = [begin |-> b, end |-> Min({e, mm_ptable_addr_space_end}), attr |-> a, commit |-> FALSE]
  /\ at' = b /\ pc' = "map"
  /\ UNCHANGED <<stage, off, root, pte, pool, job, tlb>>

\* The callers.
mm_identity_map == stage = 1 /\ \E r \in Ranges, a \in Attrs \union {"unmapped"} :
                                  mm_ptable_update(r[1], r[2], a)
mm_vm_map == stage = 2 /\ \E r \in Ranges, a \in Attrs : mm_ptable_update(r[1], r[2], a)
mm_vm_unmap == stage = 2 /\ \E r \in Ranges : mm_ptable_update(r[1], r[2], "unmapped")

\* MM_MODE_UNMAPPED_MASK asks for an unmap.
mm_mode_to_flags(a) == a = "unmapped"
unmap == mm_mode_to_flags(op.attr)
pa == at + off
Entry(l) == pte[Slot(l, at)]

\* The three cases of the loop of mm_map_level at an entry of level l.
Skipped(l) == IF unmap THEN ~arch_mm_pte_is_present(Entry(l))
              ELSE arch_mm_pte_is_block(Entry(l)) /\ Entry(l).attr = op.attr
Whole(l) == /\ op.end - at >= mm_entry_size(l)
            /\ unmap \/ arch_mm_is_block_allowed(l)
            /\ at % mm_entry_size(l) = 0
            /\ pa % mm_entry_size(l) = 0
Descends(l) == ~Skipped(l) /\ ~Whole(l) /\ arch_mm_pte_is_table(Entry(l))
Level == Max({l \in 0 .. MaxLevel : ~Descends(l)})
NextBlock == mm_start_of_next_block(at, mm_entry_size(Level))

\* mm_replace_entry up to the write of the new entry: with a valid entry of a
\* table in use, the entry is broken first.
mm_replace_entry(s, begin, new, next) ==
  LET break == stage = 1 /\ arch_mm_pte_is_valid(pte[s])
  IN  /\ job' = [slot |-> s, begin |-> begin, old |-> pte[s], new |-> new, next |-> next]
      /\ pte' = IF break THEN [pte EXCEPT ![s] = arch_mm_absent_pte] ELSE pte
      /\ pc' = IF break THEN "invalidate" ELSE "make"

MapPassShort == /\ pc = "map" /\ at < op.end
                /\ Skipped(Level) \/ (Whole(Level) /\ ~op.commit)
                /\ at' = IF op.commit THEN NextBlock
                         ELSE mm_start_of_next_block(at, mm_entry_size(Level + 1))
                /\ UNCHANGED <<stage, off, root, pte, pool, op, pc, job, tlb>>

MapPassStuck == /\ pc = "map" /\ at < op.end
                /\ Skipped(Level) \/ (Whole(Level) /\ ~op.commit)
                /\ at' = IF Skipped(Level) THEN at ELSE NextBlock
                /\ UNCHANGED <<stage, off, root, pte, pool, op, pc, job, tlb>>

\* The entry already is what the update asks for, or, while preparing, can be
\* replaced as a whole later.
MapPass == /\ pc = "map" /\ at < op.end
           /\ Skipped(Level) \/ (Whole(Level) /\ ~op.commit)
           /\ at' = NextBlock
           /\ UNCHANGED <<stage, off, root, pte, pool, op, pc, job, tlb>>

MapWhole == /\ pc = "map" /\ at < op.end
            /\ ~Skipped(Level) /\ Whole(Level) /\ op.commit
            /\ mm_replace_entry(Slot(Level, at), at,
                                IF unmap THEN arch_mm_absent_pte
                                ELSE arch_mm_block_pte(pa, op.attr), NextBlock)
            /\ UNCHANGED <<stage, off, root, pool, op, at, tlb>>

NeedsTable == pc = "map" /\ at < op.end /\ ~Skipped(Level) /\ ~Whole(Level)

mm_populate_table_pte ==
  /\ NeedsTable /\ pool > 0
  /\ pool' = pool - 1
  /\ mm_replace_entry(Slot(Level, at), at, arch_mm_table_pte, at)
  /\ UNCHANGED <<stage, off, root, op, at, tlb>>

\* Out of tables: a failed prepare, or a failed CHECK in mm_ptable_commit.
MapFails == /\ NeedsTable /\ pool = 0
            /\ IF op.commit THEN pc' = "panic" /\ UNCHANGED <<op, at>>
               ELSE pc' = "idle" /\ op' = NoOp /\ at' = 0
            /\ UNCHANGED <<stage, off, root, pte, pool, job, tlb>>

NoInvalidate == /\ pc = "invalidate" /\ pc' = "make"
                /\ UNCHANGED <<stage, off, root, pte, pool, op, at, job, tlb>>

\* mm_invalidate_tlb(begin, begin + entry_size): when an entry is split, from
\* the cursor on, not from the start of the entry.
mm_invalidate_tlb == /\ pc = "invalidate"
                     /\ tlb' = IF tlb.p \in job.begin .. job.begin + mm_entry_size(job.slot[1]) - 1
                                 THEN NoTlb ELSE tlb
                     /\ pc' = "make"
                     /\ UNCHANGED <<stage, off, root, pte, pool, op, at, job>>


\* The entries of the table that replaces entry e of slot s.
Split(e, s, t) ==
  IF arch_mm_pte_is_block(e) /\ t[1] = s[1] - 1
    THEN arch_mm_block_pte(e.pa + (t[2] % P) * mm_entry_size(t[1]), e.attr)
    ELSE arch_mm_absent_pte

Make == /\ pc = "make"
        /\ pte' = [t \in Slots |->
                     IF t = job.slot THEN job.new
                     ELSE IF t \notin Under(job.slot) THEN pte[t]
                     ELSE IF arch_mm_pte_is_table(job.new) THEN Split(job.old, job.slot, t)
                     ELSE arch_mm_absent_pte]
        /\ pool' = pool + mm_free_page_pte(job.old, job.slot)
        /\ at' = job.next /\ job' = NoJob
        /\ pc' = IF op = NoOp THEN "defrag" ELSE "map"
        /\ UNCHANGED <<stage, off, root, op, tlb>>

mm_ptable_commit == /\ pc = "map" /\ at >= op.end /\ ~op.commit
                    /\ op' = [op EXCEPT !.commit = TRUE] /\ at' = op.begin
                    /\ UNCHANGED <<stage, off, root, pte, pool, pc, job, tlb>>

Return == /\ pc = "map" /\ at >= op.end /\ op.commit
          /\ op' = NoOp /\ at' = 0 /\ pc' = "idle"
          /\ UNCHANGED <<stage, off, root, pte, pool, job, tlb>>

----------------------------------------------------------------------------
\* mm_ptable_defrag visits the entries below an entry before the entry.
LastPage(s) == (s[2] + 1) * mm_entry_size(s[1])
Before(s, t) == \/ LastPage(s) < LastPage(t)
                \/ LastPage(s) = LastPage(t) /\ s[1] < t[1]
Visited(k) == CHOOSE s \in Slots : Cardinality({t \in Slots : Before(t, s)}) = k
Child(s, i) == pte[<<s[1] - 1, s[2] * P + i>>]

Mergeable(s) == \A i \in 1 .. P - 1 :
  /\ arch_mm_pte_is_present(Child(s, i)) = arch_mm_pte_is_present(Child(s, 0))
  /\ arch_mm_pte_is_present(Child(s, i)) =>
       arch_mm_pte_is_block(Child(s, i)) /\ Child(s, i).attr = Child(s, 0).attr

mm_merge_table_pte(s) ==
  IF ~arch_mm_pte_is_present(Child(s, 0)) THEN arch_mm_absent_pte
  ELSE IF ~arch_mm_is_block_allowed(s[1]) THEN arch_mm_table_pte
  ELSE arch_mm_block_pte(Child(s, 0).pa, Child(s, 0).attr)

\* "It assumes addresses are contiguous due to identity mapping."
mm_ptable_defrag == /\ root /\ pc = "idle" /\ stage = 2 /\ off = 0
                    /\ pc' = "defrag" /\ at' = 0
                    /\ UNCHANGED <<stage, off, root, pte, pool, op, job, tlb>>

mm_ptable_defrag_entry ==
  /\ pc = "defrag" /\ at < Cardinality(Slots)
  /\ LET s == Visited(at)
         merge == /\ arch_mm_pte_is_table(pte[s]) /\ Mergeable(s)
                  /\ mm_merge_table_pte(s) # pte[s]
     IN  IF merge
           THEN /\ mm_replace_entry(s, s[2] * mm_entry_size(s[1]),
                                    mm_merge_table_pte(s), at + 1)
                /\ UNCHANGED at
           ELSE at' = at + 1 /\ UNCHANGED <<pte, job, pc>>
  /\ UNCHANGED <<stage, off, root, pool, op, tlb>>

DefragEnd == /\ pc = "defrag" /\ at = Cardinality(Slots)
             /\ pc' = "idle" /\ at' = 0
             /\ UNCHANGED <<stage, off, root, pte, pool, op, job, tlb>>

----------------------------------------------------------------------------
\* The hardware walks a stage-1 table whenever it likes and keeps what it
\* finds; one translation stands for all it holds.
Fill == /\ stage = 1 /\ root
        /\ \E p \in Cached : Walk(pte, p) # Unmapped /\ tlb' = [p |-> p, t |-> Walk(pte, p)]
        /\ UNCHANGED <<stage, off, root, pte, pool, op, at, pc, job>>

\* The steps of the call in progress.
Step == \/ MapPass \/ MapWhole \/ mm_populate_table_pte \/ MapFails
        \/ mm_invalidate_tlb \/ Make \/ mm_ptable_commit \/ Return
        \/ mm_ptable_defrag_entry \/ DefragEnd

Next == \/ mm_ptable_init \/ mm_ptable_fini \/ mm_ptable_defrag
        \/ mm_identity_map \/ mm_vm_map \/ mm_vm_unmap
        \/ Step \/ Fill

\* A CPU that has entered mm.c goes on: nothing in it waits.
Spec == Init /\ [][Next]_vars /\ WF_vars(Step)

----------------------------------------------------------------------------
\* Look-ups.  mm_get_pte_level descends to a block; mm_vm_page_table_walk
\* subtracts from the address what each level's index stands for.
RECURSIVE mm_get_pte_level(_, _)
mm_get_pte_level(p, l) ==
  IF arch_mm_pte_is_block(pte[Slot(l, p)]) THEN l
  ELSE IF l = 0 \/ ~arch_mm_pte_is_table(pte[Slot(l, p)]) THEN MaxLevel + 2
  ELSE mm_get_pte_level(p, l - 1)

mm_vm_page_table_walk(p) ==
  LET l == mm_get_pte_level(p, MaxLevel)
      offset == p - SumSet({mm_index(p, k) * mm_entry_size(k) : k \in l .. MaxLevel + 1})
  IN  IF l > MaxLevel THEN Unmapped
      ELSE [pa |-> pte[Slot(l, p)].pa + offset, attr |-> pte[Slot(l, p)].attr]

\* mm_ptable_get_attrs_level from page b to e; got is the attributes found so
\* far, "unset" before the first entry.
RECURSIVE mm_ptable_get_attrs_level(_, _, _, _)
mm_ptable_get_attrs_level(l, b, e, got) ==
  LET end == Min({e, mm_level_end(b, l)})
      x == pte[Slot(l, b)]
      here == IF arch_mm_pte_is_table(x) THEN mm_ptable_get_attrs_level(l - 1, b, end, got)
              ELSE IF got \in {"unset", x.attr} THEN x.attr ELSE "fail"
      next == mm_start_of_next_block(b, mm_entry_size(l))
  IN  IF here = "fail" \/ next >= end THEN here
      ELSE mm_ptable_get_attrs_level(l, next, end, here)

RECURSIVE AttrsOfRoots(_, _, _)
AttrsOfRoots(b, e, got) ==
  LET here == mm_ptable_get_attrs_level(MaxLevel, b, e, got)
      next == mm_start_of_next_block(b, mm_entry_size(MaxLevel + 1))
  IN  IF here = "fail" \/ next >= e THEN here ELSE AttrsOfRoots(next, e, here)

mm_vm_get_attrs(b, e) ==
  IF e > mm_ptable_addr_space_end \/ b >= e THEN "fail" ELSE AttrsOfRoots(b, e, "unset")

----------------------------------------------------------------------------

\* mm_ptable_commit's CHECK holds: once an update is prepared, the commit
\* pass finds every table it needs.
CommitCannotFail == pc # "panic"

\* Break-before-make: a translation the hardware holds is never contradicted
\* by another valid one in the table, and after an update has returned it is
\* the table's own, so an unmapped page is out of the hardware's reach.
TlbCoherent == tlb # NoTlb =>
  \/ Walk(pte, tlb.p) = tlb.t
  \/ pc # "idle" /\ Walk(pte, tlb.p) = Unmapped

\* Every update and every defragmentation comes to its end: the cursor of
\* mm_map_level never stands still, whatever has to be split or merged.
UpdateReturns == pc # "idle" ~> pc = "idle"

\* Between updates no table is lost or freed twice: the pool and the tree
\* hold all of them, and every entry in use hangs from the root.
TablesAccounted == pc = "idle" =>
  /\ pool + (IF root THEN Roots ELSE 0)
       + Cardinality({s \in Slots : arch_mm_pte_is_table(pte[s])}) = PoolSize
  /\ \A s \in Slots, t \in Slots :
       t \in Under(s) /\ pte[t] # arch_mm_absent_pte => arch_mm_pte_is_table(pte[s])

\* mm_vm_page_table_walk returns the address the hardware would reach, and
\* mm_vm_get_attrs the attributes all pages of the range have, if they agree.
AttrAt(p) == IF Walk(pte, p) = Unmapped THEN "zero" ELSE Walk(pte, p).attr

\* The page tables implement the flat address space of AddrSpace: the entry
\* being replaced counts with its old value until the new one is written.
Restored == IF pc \in {"invalidate", "make"} THEN [pte EXCEPT ![job.slot] = job.old] ELSE pte
Flat == INSTANCE AddrSpace WITH
          Attrs <- {"rw", "ro", "owned"},
          space <- [p \in Pages |-> Walk(Restored, p)],
          upd <- IF op = NoOp THEN [begin |-> 0, end |-> 0, off |-> 0, attr |-> "unmapped"]
                 ELSE [begin |-> op.begin, end |-> op.end, off |-> off, attr |-> op.attr],
          done <- IF op.commit THEN at ELSE op.begin
=============================================================================
