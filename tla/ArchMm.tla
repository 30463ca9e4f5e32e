------------------------------- MODULE ArchMm -------------------------------
(***************************************************************************)
(* The translation tables as the CPU sees them (arch/aarch64/mm.c): bits   *)
(* of entries, conversion of modes, configuration of the two stages, and   *)
(* the ranges of TLB and cache maintenance.  Mm abstracts from these.      *)
(*                                                                         *)
(* A word of 64 bits is the set of its bits that are one, and a mode the   *)
(* set of its flags.  Addresses of ranges are numbers.                     *)
(***************************************************************************)
EXTENDS Naturals, FiniteSets, FiniteSetsExt

PAGE_BITS == 12
PAGE_LEVEL_BITS == 9
Modes == SUBSET {"R", "W", "X", "D", "INVALID", "UNOWNED", "SHARED"}
Levels == 0..3

\* x << shift.
Bits(x, shift) == {shift + b : b \in {c \in 0..7 : (x \div 2^c) % 2 = 1}}
If(condition, bits) == IF condition THEN bits ELSE {}

PTE_VALID == {0}
PTE_TABLE == {1}
PTE_LEVEL0_BLOCK == {1}
STAGE1_XN == {54}
STAGE1_PXN == {53}
STAGE1_GP == {50}
STAGE1_AF == {10}
STAGE1_AP2 == {7}
STAGE1_AP1 == {6}
STAGE1_NS == {5}
STAGE1_SH(x) == Bits(x, 8)
STAGE1_AP(x) == Bits(x, 6)
STAGE1_ATTRINDX(x) == Bits(x, 2)
STAGE1_DEVICEINDX == 0
STAGE1_NORMALINDX == 1
STAGE2_AF == {10}
STAGE2_XN(x) == Bits(x, 53)
STAGE2_S2AP(x) == Bits(x, 6)
STAGE2_MEMATTR(outer, inner) == Bits(4 * outer + inner, 2)
STAGE2_MEMATTR_TYPE_MASK == Bits(3, 4)
STAGE2_SW_OWNED == {55}
STAGE2_SW_EXCLUSIVE == {56}
TABLE_NSTABLE == {63}
TABLE_APTABLE1 == {62}
TABLE_APTABLE0 == {61}
TABLE_XNTABLE == {60}
TABLE_PXNTABLE == {59}
INNER_SHAREABLE == 3
STAGE2_EXECUTE_NONE == 2
STAGE2_DEVICE_MEMORY == 0
STAGE2_MEMATTR_DEVICE_GRE == 3
STAGE2_WRITEBACK == 3
PTE_ADDR_MASK == PAGE_BITS..47
PTE_ATTR_MASK == (0..63) \ (PTE_ADDR_MASK \union {1})

Has(word, bits) == word \intersect bits # {}

-----------------------------------------------------------------------------
(* Entries.                                                                *)

arch_mm_table_pte(pa) == pa \union PTE_TABLE \union PTE_VALID
arch_mm_block_pte(level, pa, attrs) == pa \union attrs \union If(level = 0, PTE_LEVEL0_BLOCK)
arch_mm_is_block_allowed(level) == level <= 2
arch_mm_pte_is_valid(pte) == Has(pte, PTE_VALID)
arch_mm_pte_is_present(pte) == arch_mm_pte_is_valid(pte) \/ Has(pte, STAGE2_SW_OWNED)
arch_mm_pte_is_table(pte, level) == level # 0 /\ arch_mm_pte_is_valid(pte) /\ Has(pte, PTE_TABLE)
arch_mm_pte_is_block(pte, level) ==
  /\ arch_mm_is_block_allowed(level)
  /\ IF level = 0 THEN Has(pte, PTE_LEVEL0_BLOCK)
     ELSE arch_mm_pte_is_present(pte) /\ ~arch_mm_pte_is_table(pte, level)
pte_addr(pte) == pte \intersect PTE_ADDR_MASK
arch_mm_pte_attrs(pte) == pte \intersect PTE_ATTR_MASK

\* bti: a build with BRANCH_PROTECTION on a CPU that has it.
arch_mm_mode_to_stage1_attrs(mode, bti) ==
  STAGE1_AF \union STAGE1_SH(INNER_SHAREABLE)
    \union If("X" \notin mode, STAGE1_XN)
    \union If("X" \in mode /\ bti, STAGE1_GP)
    \union STAGE1_AP(IF "W" \in mode THEN 0 ELSE 2)
    \union STAGE1_ATTRINDX(IF "D" \in mode THEN STAGE1_DEVICEINDX ELSE STAGE1_NORMALINDX)
    \union If("INVALID" \notin mode, PTE_VALID)

arch_mm_mode_to_stage2_attrs(mode) ==
  STAGE2_AF
    \union If("R" \in mode, STAGE2_S2AP(1)) \union If("W" \in mode, STAGE2_S2AP(2))
    \union If("X" \notin mode, STAGE2_XN(STAGE2_EXECUTE_NONE))
    \union (IF "D" \in mode THEN STAGE2_MEMATTR(STAGE2_DEVICE_MEMORY, STAGE2_MEMATTR_DEVICE_GRE)
            ELSE STAGE2_MEMATTR(STAGE2_WRITEBACK, STAGE2_WRITEBACK))
    \union If("UNOWNED" \notin mode, STAGE2_SW_OWNED)
    \union If("SHARED" \notin mode, STAGE2_SW_EXCLUSIVE)
    \union If("INVALID" \notin mode, PTE_VALID)

arch_mm_stage2_attrs_to_mode(attrs) ==
  If(Has(attrs, STAGE2_S2AP(1)), {"R"}) \union If(Has(attrs, STAGE2_S2AP(2)), {"W"})
    \union If(~Has(attrs, STAGE2_XN(3)), {"X"})
    \union If(~Has(attrs, STAGE2_MEMATTR_TYPE_MASK), {"D"})
    \union If(~Has(attrs, STAGE2_SW_OWNED), {"UNOWNED"})
    \union If(~Has(attrs, STAGE2_SW_EXCLUSIVE), {"SHARED"})
    \union If(~Has(attrs, PTE_VALID), {"INVALID"})

arch_mm_combine_table_entry_attrs(table_attrs, block_attrs) ==
  (block_attrs \ If(Has(table_attrs, TABLE_APTABLE0), STAGE1_AP1))
    \union If(Has(table_attrs, TABLE_NSTABLE), STAGE1_NS)
    \union If(Has(table_attrs, TABLE_APTABLE1), STAGE1_AP2)
    \union If(Has(table_attrs, TABLE_XNTABLE), STAGE1_XN)
    \union If(Has(table_attrs, TABLE_PXNTABLE), STAGE1_PXN)

-----------------------------------------------------------------------------
(* arch_mm_init.  A CPU reports a code of its range of physical addresses, *)
(* whether it has 4 KB granules, and whether VHE is built and present.     *)

pa_bits_table(range) == IF range <= 5 THEN <<32, 36, 40, 42, 44, 48>>[range + 1] ELSE 0
arch_mm_stage1_max_level == 2

Extended(pa_bits) == (pa_bits - PAGE_BITS) % PAGE_LEVEL_BITS
ExtendBits(pa_bits) == IF Extended(pa_bits) > 4 THEN 0 ELSE Extended(pa_bits)
Sl0(pa_bits) == CASE pa_bits >= 44 -> 2 [] pa_bits \in 35..43 -> 1 [] OTHER -> 0

arch_mm_init(range, granule, vhe) ==
  LET pa_bits == pa_bits_table(range)
  IN [ok |-> granule /\ pa_bits # 0,
      mm_s2_max_level |-> Sl0(pa_bits) + 1,
      mm_s2_root_table_count |-> 2^ExtendBits(pa_bits),
      vtcr_el2 |-> [PS |-> range, SL0 |-> Sl0(pa_bits), T0SZ |-> 64 - pa_bits],
      tcr_el2 |-> [PS |-> IF vhe THEN 2 ELSE range, T0SZ |-> 25],
      mair_el2 |-> [n \in 0..7 |-> IF n = STAGE1_NORMALINDX THEN 255 ELSE 0]]

-----------------------------------------------------------------------------
(* Maintenance of ranges: the pages the TLB forgets, and the bytes whose   *)
(* lines are cleaned, of memory of `all` pages or bytes.  page and line    *)
(* are sizes, ops is MAX_TLBI_OPS.                                         *)

arch_mm_invalidate_range(begin, end, page, ops, all) ==
  IF end - begin > ops * page THEN 0..(all - 1)
  ELSE {n \in 0..(all - 1) : begin \div page <= n /\ n < end \div page}

RoundDown(n, size) == (n \div size) * size
Line(n, line) == RoundDown(n, line)..(RoundDown(n, line) + line - 1)

arch_mm_flush_dcache(base, size, line) ==
  LET line_begin == RoundDown(base, line)
      lines == {m \in 0..size : line_begin + m * line < base + size}
  IN UNION {Line(line_begin + m * line, line) : m \in lines}

-----------------------------------------------------------------------------
(* What the hardware makes of it (external): what a stage 1 entry under a  *)
(* table permits, how memory behaves, how a stage 2 walk begins.           *)

Effective(table_attrs, block_attrs) ==
  [ns |-> Has(table_attrs, TABLE_NSTABLE) \/ Has(block_attrs, STAGE1_NS),
   write |-> ~Has(table_attrs, TABLE_APTABLE1) /\ ~Has(block_attrs, STAGE1_AP2),
   el0 |-> ~Has(table_attrs, TABLE_APTABLE0) /\ Has(block_attrs, STAGE1_AP1),
   execute |-> ~Has(table_attrs, TABLE_XNTABLE) /\ ~Has(block_attrs, STAGE1_XN),
   privileged |-> ~Has(table_attrs, TABLE_PXNTABLE) /\ ~Has(block_attrs, STAGE1_PXN)]

AttrIndex(attrs) == MapThenSumSet(LAMBDA b : 2^(b - 2), attrs \intersect (2..4))
InitialBits(vtcr) == 64 - vtcr.T0SZ - (PAGE_BITS + PAGE_LEVEL_BITS * (vtcr.SL0 + 1))
Concatenated(bits) == IF bits > PAGE_LEVEL_BITS THEN 2^(bits - PAGE_LEVEL_BITS) ELSE 1

-----------------------------------------------------------------------------
(* Properties.                                                             *)

Configs == {c \in {arch_mm_init(r, TRUE, vhe) : r \in 0..15, vhe \in BOOLEAN} : c.ok}
Aligned(level) == SUBSET {PAGE_BITS + PAGE_LEVEL_BITS * level, 46, 47}

\* An entry gives back what it was made from: a stage 2 block, at every
\* level that has blocks, its address, its attributes to the bit and its
\* mode; it is never taken for a table, nor a table for a block.  Modes that
\* are neither valid nor owned are not entered: mm.c unmaps instead.
EntriesKept ==
  /\ \A level \in {l \in Levels : arch_mm_is_block_allowed(l)}, mode \in Modes :
       \A pa \in Aligned(level) :
         LET attrs == arch_mm_mode_to_stage2_attrs(mode)
             pte == arch_mm_block_pte(level, pa, attrs)
         IN ~({"INVALID", "UNOWNED"} \subseteq mode) =>
              /\ arch_mm_pte_is_block(pte, level) /\ ~arch_mm_pte_is_table(pte, level)
              /\ arch_mm_pte_is_present(pte)
              /\ pte_addr(pte) = pa
              /\ arch_mm_pte_attrs(pte) = attrs
              /\ arch_mm_stage2_attrs_to_mode(attrs) = mode
  /\ \A level \in Levels \ {0}, pa \in Aligned(0) :
       LET pte == arch_mm_table_pte(pa)
       IN arch_mm_pte_is_table(pte, level) /\ ~arch_mm_pte_is_block(pte, level) /\ pte_addr(pte) = pa

\* What the hypervisor maps for itself the hardware lets it do, and no more:
\* it may write and execute exactly when the mode says so, and the memory is
\* of the device type exactly in a device mode, by the MAIR of arch_mm_init.
Stage1AsAsked ==
  \A mode \in Modes, bti \in BOOLEAN, config \in Configs :
    LET attrs == arch_mm_mode_to_stage1_attrs(mode, bti)
        allowed == Effective({}, attrs)
    IN /\ allowed.write <=> "W" \in mode
       /\ allowed.execute <=> "X" \in mode
       /\ allowed.privileged /\ ~allowed.el0
       /\ config.mair_el2[AttrIndex(attrs)] = 0 <=> "D" \in mode

\* A block that replaces a table (defragmentation) permits exactly what the
\* table and the blocks in it permitted together.
CombineKeeps ==
  \A table_attrs \in SUBSET (59..63), block_attrs \in SUBSET {5, 6, 7, 53, 54} :
    Effective({}, arch_mm_combine_table_entry_attrs(table_attrs, block_attrs))
      = Effective(table_attrs, block_attrs)

\* On every CPU the boot accepts, the hardware begins its stage 2 walk in as
\* many concatenated root tables, at the same level, as mm.c builds, and
\* both tables reach every address: all physical ones at stage 2, and at
\* stage 1 what its T0SZ and output size say.
TreeMatchesHardware ==
  \A c \in Configs :
    LET bits == InitialBits(c.vtcr_el2)
        pa_bits == 64 - c.vtcr_el2.T0SZ
        covered == PAGE_BITS + PAGE_LEVEL_BITS * (c.mm_s2_max_level + 1)
    IN /\ bits \in 1..13 /\ Concatenated(bits) = c.mm_s2_root_table_count
       /\ c.mm_s2_root_table_count * 2^(covered - PAGE_BITS - 18) >= 2^(pa_bits - PAGE_BITS - 18)
       /\ 64 - c.tcr_el2.T0SZ = PAGE_BITS + PAGE_LEVEL_BITS * (arch_mm_stage1_max_level + 1)
       /\ pa_bits_table(c.tcr_el2.PS) >= Min({pa_bits, 64 - c.tcr_el2.T0SZ})

\* Invalidating a range of whole pages reaches every page of it, on either
\* side of MAX_TLBI_OPS; flushing a buffer reaches every line that holds one
\* of its bytes, wherever it begins, and no other.
RangesMaintained ==
  /\ \A begin, end \in {0, 2, 4, 6, 8} : begin <= end =>
       (begin \div 2)..(end \div 2 - 1) \subseteq arch_mm_invalidate_range(begin, end, 2, 2, 4)
  /\ \A base \in 0..8, size \in 1..9 :
       arch_mm_flush_dcache(base, size, 4) = UNION {Line(n, 4) : n \in base..(base + size - 1)}

\* What mm.c leaves to the architecture is as it assumes: entries, the modes
\* of the hypervisor's memory, blocks that replace tables, the shape of the
\* tree and the maintenance of TLB and cache.
ArchAgrees ==
  EntriesKept /\ Stage1AsAsked /\ CombineKeeps /\ TreeMatchesHardware /\ RangesMaintained
=============================================================================
