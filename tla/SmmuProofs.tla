----------------------------- MODULE SmmuProofs -----------------------------
(***************************************************************************)
(* The SMMU driver's command ring implements CmdFifo, for every size of    *)
(* the ring, every stream table and every manifest.                        *)
(***************************************************************************)
EXTENDS Smmu, SequenceTheorems, TLAPS

-----------------------------------------------------------------------------
\* The inductive invariant.

Reg == 0..(2 * q_max_entries - 1)
Val == {"invalid", "bypass", "stg2", "none", "incoming", "EL2"} \cup Vm
Ste == [dw0 : Val, dw1 : Val, dw2 : Val, dw3 : Val]
Bit == {"CMDQEN", "EVTQEN", "SMMUEN"}

Steps ==
       [op : {"issue"}, cmd : Cmds]
  \cup [op : {"wait"}]
  \cup [op : {"cr0", "poll"}, bit : Bit]
  \cup [op : {"ste"}, sid : Sid, dw : {"dw0", "dw1", "dw2", "dw3"}, val : Val]
  \cup [op : {"loop"}, sid : Sid, ste : Ste]
  \cup [op : {"stream"}, vm : Vm, ids : Seq(Nat) \ {<<>>}]

\* How far the register a is ahead of the register b, around the ring.
Ahead(a, b) == IF a >= b THEN a - b ELSE a - b + 2 * q_max_entries

\* The registers keep their width, the slots hold commands, and what the driver
\* has left to do is made of its steps.
RingInv ==
  /\ mem \in [0..(q_max_entries - 1) -> Cmds]
  /\ prod \in Reg /\ cons \in Reg /\ cons_reg \in Reg
  /\ at \in {"read", "ack", "push", "prod"}

TodoInv ==
  /\ todo \in Seq(Steps)
  /\ regions \in Manifests
  /\ next \in 0..Len(regions)

\* The ring never holds more than its slots.  Until the slot is written the read
\* index that was sampled may be behind the SMMU's, but not ahead of it, and the
\* distance from it to the write index is still at most the size of the ring.
\* When the write index is about to move there is a free slot.
IndexInv ==
  /\ Ahead(prod, cons) <= q_max_entries
  /\ at \in {"ack", "push"} =>
       /\ Ahead(prod, cons_reg) <= q_max_entries
       /\ Ahead(prod, cons) <= Ahead(prod, cons_reg)
  /\ at = "prod" => Ahead(prod, cons) < q_max_entries

Inv == RingInv /\ TodoInv /\ IndexInv
-----------------------------------------------------------------------------
\* Index arithmetic.

\* A register is an index below a wrap bit.
LEMMA IndexAndWrap ==
  ASSUME NEW r \in Reg
  PROVE  /\ idx(r) = IF r < q_max_entries THEN r ELSE r - q_max_entries
         /\ wrap(r) = IF r < q_max_entries THEN 0 ELSE 1
<1>0. q_max_entries \in Nat \ {0} /\ r \in Int /\ 0 <= r /\ r < 2 * q_max_entries
  BY SmmuAssumption DEF Reg
<1>1. idx(r) = IF r < q_max_entries THEN r ELSE r - q_max_entries
  <2>1. r % q_max_entries = IF r < q_max_entries THEN r ELSE r - q_max_entries
    BY <1>0
  <2> QED BY <2>1 DEF idx
<1>2. r \div q_max_entries = IF r < q_max_entries THEN 0 ELSE 1
  <2>1. CASE r < q_max_entries
    BY <1>0, <2>1
  <2>2. CASE r >= q_max_entries
    BY <1>0, <2>2
  <2> QED BY <1>0, <2>1, <2>2
<1>3. wrap(r) = IF r < q_max_entries THEN 0 ELSE 1
  BY <1>2 DEF wrap
<1> QED BY <1>1, <1>3

\* find_offset_next_wr_idx advances a register by one and toggles the wrap bit
\* at the end of the ring; the SMMU advances its own in the same way.
LEMMA NextRegister ==
  ASSUME NEW r \in Reg
  PROVE  /\ find_offset_next_wr_idx(r) = IF r = 2 * q_max_entries - 1 THEN 0 ELSE r + 1
         /\ (r + 1) % (2 * q_max_entries) = IF r = 2 * q_max_entries - 1 THEN 0 ELSE r + 1
<1>1. (r + 1) % (2 * q_max_entries) = IF r = 2 * q_max_entries - 1 THEN 0 ELSE r + 1
  <2> DEFINE m == 2 * q_max_entries
             a == r + 1
  <2>1. m \in Nat \ {0} /\ a \in Int /\ 0 < a /\ a <= m
    BY SmmuAssumption DEF Reg
  <2>2. a % m = IF a = m THEN 0 ELSE a
    <3> HIDE DEF m, a
    <3>1. CASE a = m
      BY <2>1, <3>1
    <3>2. CASE a # m
      BY <2>1, <3>2
    <3> QED BY <3>1, <3>2
  <2>3. a = m <=> r = 2 * q_max_entries - 1
    BY SmmuAssumption DEF Reg
  <2> QED BY <2>2, <2>3, Zenon
<1>2. find_offset_next_wr_idx(r) = IF r = 2 * q_max_entries - 1 THEN 0 ELSE r + 1
  BY IndexAndWrap, SmmuAssumption DEF find_offset_next_wr_idx, Reg
<1> QED BY <1>1, <1>2

\* The slot of a command counted from a register, up to once around.
Slot(a) ==
  IF a < q_max_entries THEN a
  ELSE IF a < 2 * q_max_entries THEN a - q_max_entries
  ELSE a - 2 * q_max_entries

\* The index mask of smmuv3_issue_cmd picks that slot.
LEMMA SlotAt ==
  ASSUME NEW r \in Reg, NEW k \in 0..q_max_entries
  PROVE  idx(r + k) = Slot(r + k)
<1> DEFINE a == r + k
<1>1. q_max_entries \in Nat \ {0} /\ a \in Int /\ 0 <= a /\ a < 3 * q_max_entries
  BY SmmuAssumption DEF Reg
<1>2. idx(a) = Slot(a)
  <2> HIDE DEF a
  <2>1. CASE a < q_max_entries
    BY <1>1, <2>1 DEF idx, Slot
  <2>2. CASE q_max_entries <= a /\ a < 2 * q_max_entries
    BY <1>1, <2>2 DEF idx, Slot
  <2>3. CASE 2 * q_max_entries <= a
    BY <1>1, <2>3 DEF idx, Slot
  <2> QED BY <1>1, <2>1, <2>2, <2>3
<1> QED BY <1>2

\* smmuv3_issue_cmd computes the free slots right, wrap bits equal or not.
LEMMA EmptySlots ==
  ASSUME prod \in Reg, cons_reg \in Reg, Ahead(prod, cons_reg) <= q_max_entries
  PROVE  q_empty_slots = q_max_entries - Ahead(prod, cons_reg)
BY IndexAndWrap, SmmuAssumption DEF q_empty_slots, Ahead, Reg

\* The distance between two registers.
LEMMA Distance ==
  ASSUME NEW p \in Reg, NEW c \in Reg
  PROVE  (p - c) % (2 * q_max_entries) = Ahead(p, c) /\ Ahead(p, c) \in Nat
<1> DEFINE m == 2 * q_max_entries
           d == p - c
<1>1. m \in Nat \ {0} /\ d \in Int /\ -m < d /\ d < m
  BY SmmuAssumption DEF Reg
<1>2. d % m = IF d >= 0 THEN d ELSE d + m
  <2> HIDE DEF m, d
  <2> QED BY <1>1
<1>3. (p - c) % (2 * q_max_entries) = Ahead(p, c)
  BY <1>2, SmmuAssumption DEF Ahead, Reg
<1> QED BY <1>3, SmmuAssumption DEF Ahead, Reg

-----------------------------------------------------------------------------
\* The functions of the driver are sequences of its steps.

\* Two sequences of steps one after the other are one.
LEMMA Joined ==
  ASSUME NEW s \in Seq(Steps), NEW t \in Seq(Steps)
  PROVE  s \o t \in Seq(Steps)
BY ConcatProperties

\* smmuv3_issue_cmd and the waits for the SMMU.
LEMMA CommandSteps ==
  /\ \A c \in Cmds : Issue(c) \in Seq(Steps)
  /\ smmuv3_synchronize_cmdq \in Seq(Steps)
  /\ inval_cached_cfgs \in Seq(Steps)
  /\ \A sid \in Sid : inval_cached_STE(sid) \in Seq(Steps)
  /\ \A bit \in Bit : Enable(bit) \in Seq(Steps)
<1>1. \A c \in Cmds : Issue(c) \in Seq(Steps)
  <2> TAKE c \in Cmds
  <2>1. [op |-> "issue", cmd |-> c] \in Steps
    BY DEF Steps
  <2> QED BY <2>1 DEF Issue
<1>2. SYNC \in Cmds /\ CFGI_ALL \in Cmds /\ \A sid \in Sid : CFGI_STE(sid) \in Cmds
  BY DEF Cmds
<1>3. smmuv3_synchronize_cmdq \in Seq(Steps)
  <2>1. [op |-> "wait"] \in Steps
    BY DEF Steps
  <2>2. <<[op |-> "wait"]>> \in Seq(Steps)
    BY <2>1
  <2> QED BY <1>1, <1>2, <2>2, Joined DEF smmuv3_synchronize_cmdq
<1>4. inval_cached_cfgs \in Seq(Steps)
  BY <1>1, <1>2, <1>3, Joined DEF inval_cached_cfgs
<1>5. \A sid \in Sid : inval_cached_STE(sid) \in Seq(Steps)
  BY <1>1, <1>2, <1>3, Joined DEF inval_cached_STE
<1>6. \A bit \in Bit : Enable(bit) \in Seq(Steps)
  <2> TAKE bit \in Bit
  <2>1. [op |-> "cr0", bit |-> bit] \in Steps /\ [op |-> "poll", bit |-> bit] \in Steps
    BY DEF Steps
  <2> QED BY <2>1 DEF Enable
<1> QED BY <1>1, <1>3, <1>4, <1>5, <1>6

\* write_ste and the loops over the stream table and over the streams.
LEMMA TableSteps ==
  /\ \A sid \in Sid, ste \in Ste : write_ste(sid, ste) \in Seq(Steps)
  /\ \A sid \in Nat, ste \in Ste : StesFrom(sid, ste) \in Seq(Steps)
  /\ \A vm \in Vm, ids \in Seq(Nat) : StreamsOf(vm, ids) \in Seq(Steps)
  /\ clear_ste \in Ste /\ create_bypass_ste \in Ste
  /\ \A vm \in Vm : smmuv3_config_ste_stg2(vm) \in Ste
<1>1. ASSUME NEW sid \in Sid, NEW ste \in Ste PROVE write_ste(sid, ste) \in Seq(Steps)
  <2>1. \A dw \in {"dw0", "dw1", "dw2", "dw3"}, val \in Val : Dw(sid, dw, val) \in Steps
    BY DEF Dw, Steps
  <2>2. "invalid" \in Val /\ ste.dw0 \in Val /\ ste.dw1 \in Val /\ ste.dw2 \in Val /\ ste.dw3 \in Val
    BY DEF Ste, Val
  <2>3. /\ Dw(sid, "dw0", "invalid") \in Steps /\ Dw(sid, "dw3", ste.dw3) \in Steps
        /\ Dw(sid, "dw2", ste.dw2) \in Steps /\ Dw(sid, "dw1", ste.dw1) \in Steps
        /\ Dw(sid, "dw0", ste.dw0) \in Steps
    BY <2>1, <2>2
  <2> QED BY <2>3 DEF write_ste
<1>2. ASSUME NEW sid \in Nat, NEW ste \in Ste PROVE StesFrom(sid, ste) \in Seq(Steps)
  <2>1. sid <= max_sid => [op |-> "loop", sid |-> sid, ste |-> ste] \in Steps
    BY SmmuAssumption DEF Steps, Sid
  <2> QED BY <2>1 DEF StesFrom
<1>3. ASSUME NEW vm \in Vm, NEW ids \in Seq(Nat) PROVE StreamsOf(vm, ids) \in Seq(Steps)
  <2>1. ids # <<>> => [op |-> "stream", vm |-> vm, ids |-> ids] \in Steps
    BY DEF Steps
  <2> QED BY <2>1 DEF StreamsOf
<1>4. clear_ste \in Ste /\ create_bypass_ste \in Ste
  BY DEF clear_ste, create_bypass_ste, Ste, Val
<1>5. \A vm \in Vm : smmuv3_config_ste_stg2(vm) \in Ste
  BY DEF smmuv3_config_ste_stg2, Ste, Val
<1> QED BY <1>1, <1>2, <1>3, <1>4, <1>5

\* The enabling sequence and smmuv3_configure_stream.
LEMMA FunctionSteps ==
  /\ smmuv3_invalidate_stes \o smmuv3_enable_init \in Seq(Steps)
  /\ \A vm \in Vm, sid \in Sid : smmuv3_configure_stream(vm, sid) \in Seq(Steps)
<1>1. smmuv3_inv_cfg_tlbs \in Seq(Steps)
  <2>1. TLBI("EL2") \in Cmds /\ TLBI("NSNH") \in Cmds
    BY DEF Cmds
  <2> QED BY <2>1, CommandSteps, Joined DEF smmuv3_inv_cfg_tlbs
<1>2. smmuv3_invalidate_stes \in Seq(Steps)
  BY TableSteps DEF smmuv3_invalidate_stes
<1>3. smmuv3_default_translation \in Seq(Steps)
  BY TableSteps, CommandSteps, Joined DEF smmuv3_default_translation
<1>4. Enable("CMDQEN") \in Seq(Steps) /\ Enable("EVTQEN") \in Seq(Steps) /\ Enable("SMMUEN") \in Seq(Steps)
  BY CommandSteps DEF Bit
<1>5. smmuv3_enable_init \in Seq(Steps)
  BY <1>1, <1>3, <1>4, Joined DEF smmuv3_enable_init
<1>6. \A vm \in Vm, sid \in Sid : smmuv3_configure_stream(vm, sid) \in Seq(Steps)
  BY TableSteps, CommandSteps, Joined DEF smmuv3_configure_stream
<1> QED BY <1>2, <1>5, <1>6, Joined

-----------------------------------------------------------------------------
\* What is left of the driver's function stays a sequence of steps: Fail, Done
\* and the steps that leave it alone.
LEMMA Proceeds ==
  ASSUME TodoInv, \/ Fail
                  \/ todo # <<>> /\ Done
                  \/ \E there : GoOn(there)
                  \/ UNCHANGED driver
  PROVE  TodoInv'
<1>1. CASE Fail
  BY <1>1, EmptySeq DEF Fail, TodoInv
<1>2. CASE todo # <<>> /\ Done
  <2>1. Tail(todo) \in Seq(Steps)
    BY <1>2, HeadTailProperties DEF TodoInv
  <2> QED BY <1>2, <2>1 DEF Done, TodoInv
<1>3. CASE (\E there : GoOn(there)) \/ UNCHANGED driver
  BY <1>3 DEF GoOn, driver, TodoInv
<1> QED BY <1>1, <1>2, <1>3

\* The two loops unroll into steps.
LEMMA TodoStep ==
  ASSUME TodoInv, [Next]_vars
  PROVE  TodoInv'
<1> USE SmmuAssumption
<1>1. CASE ReadIndices \/ smmuv3_show_cmdq_err \/ push_entry_to_cmdq \/ update_cmdq_prod
  BY <1>1, Proceeds DEF ReadIndices, smmuv3_show_cmdq_err, push_entry_to_cmdq,
     update_cmdq_prod, Issuing, Step
<1>2. CASE smmuv3_rd_meets_wr_idx \/ WriteDw \/ WriteCr0 \/ smmuv3_poll
  BY <1>2, Proceeds DEF smmuv3_rd_meets_wr_idx, WriteDw, WriteCr0, smmuv3_poll, Step
<1>3. CASE NextSte
  <2>1. todo # <<>> /\ Head(todo).op = "loop" /\ Head(todo) \in Steps /\ Tail(todo) \in Seq(Steps)
    BY <1>3, HeadTailProperties DEF NextSte, Step, TodoInv
  <2>2. Head(todo).sid \in Sid /\ Head(todo).ste \in Ste
    BY <2>1 DEF Steps
  <2>3. Head(todo).sid + 1 \in Nat
    BY <2>2 DEF Sid
  <2>4. /\ write_ste(Head(todo).sid, Head(todo).ste) \in Seq(Steps)
        /\ StesFrom(Head(todo).sid + 1, Head(todo).ste) \in Seq(Steps)
    BY <2>2, <2>3, TableSteps
  <2>5. todo' \in Seq(Steps)
    BY <1>3, <2>1, <2>4, Joined DEF NextSte
  <2> QED BY <1>3, <2>5 DEF NextSte, TodoInv
<1>4. CASE NextStream
  <2>1. todo # <<>> /\ Head(todo).op = "stream" /\ Head(todo) \in Steps /\ Tail(todo) \in Seq(Steps)
    BY <1>4, HeadTailProperties DEF NextStream, Step, TodoInv
  <2>2. Head(todo).vm \in Vm /\ Head(todo).ids \in Seq(Nat) \ {<<>>}
    BY <2>1 DEF Steps
  <2> DEFINE vm == Head(todo).vm
             ids == Head(todo).ids
  <2>3. CASE Fail
    BY <2>3, Proceeds
  <2>4. CASE ~ Fail
    <3>1. Head(ids) \in Nat /\ Tail(ids) \in Seq(Nat)
      BY <2>2, <2>4, HeadTailProperties
    <3>2. /\ Head(ids) <= max_sid
          /\ todo' = smmuv3_configure_stream(vm, Head(ids)) \o StreamsOf(vm, Tail(ids)) \o Tail(todo)
          /\ UNCHANGED <<regions, next>>
      BY <1>4, <2>4 DEF NextStream
    <3>3. Head(ids) \in Sid
      BY <3>1, <3>2 DEF Sid
    <3>4. /\ smmuv3_configure_stream(vm, Head(ids)) \in Seq(Steps)
          /\ StreamsOf(vm, Tail(ids)) \in Seq(Steps)
      BY <2>2, <3>1, <3>3, FunctionSteps, TableSteps
    <3>5. todo' \in Seq(Steps)
      BY <2>1, <3>2, <3>4, Joined
    <3> QED BY <3>2, <3>5 DEF TodoInv
  <2> QED BY <2>3, <2>4
<1>5. CASE plat_iommu_attach_peripheral
  <2>1. CASE Fail
    BY <2>1, Proceeds
  <2>2. CASE ~ Fail
    <3> DEFINE r == regions[next + 1]
    <3>1. regions \in Seq([vm : Vm, smmu_id : Nat, stream_ids : Seq(Nat)])
      BY DEF TodoInv
    <3>2. next < Len(regions) /\ next' = next + 1 /\ regions' = regions
      BY <1>5, <2>2 DEF plat_iommu_attach_peripheral
    <3>3. next + 1 \in 1..Len(regions)
      BY <3>1, <3>2, LenProperties DEF TodoInv
    <3>4. r.vm \in Vm /\ r.stream_ids \in Seq(Nat)
      <4>1. r \in [vm : Vm, smmu_id : Nat, stream_ids : Seq(Nat)]
        BY <3>1, <3>3, ElementOfSeq
      <4> QED BY <4>1
    <3>5. StreamsOf(r.vm, r.stream_ids) \in Seq(Steps) /\ <<>> \in Seq(Steps)
      BY <3>4, TableSteps, EmptySeq
    <3>6. todo' \in Seq(Steps)
      BY <1>5, <2>2, <3>5 DEF plat_iommu_attach_peripheral
    <3> QED BY <3>2, <3>3, <3>6 DEF TodoInv
  <2> QED BY <2>1, <2>2
<1>6. CASE Hardware
  BY <1>6, Proceeds DEF Hardware, HwAck, HwConsume, HwComplete, HwError, HwFetch
<1>7. CASE UNCHANGED vars
  BY <1>7, Proceeds DEF vars
<1> QED BY <1>1, <1>2, <1>3, <1>4, <1>5, <1>6, <1>7 DEF Next, Driver

-----------------------------------------------------------------------------
\* The registers and the slots keep their types.
LEMMA RingStep ==
  ASSUME RingInv, TodoInv, [Next]_vars
  PROVE  RingInv'
<1> USE SmmuAssumption
<1>1. CASE ReadIndices \/ smmuv3_show_cmdq_err
  BY <1>1 DEF ReadIndices, smmuv3_show_cmdq_err, GoOn, RingInv, ring
<1>2. CASE push_entry_to_cmdq
  <2>1. Head(todo).cmd \in Cmds
    <3>1. Head(todo) \in Steps /\ Head(todo).op = "issue"
      BY <1>2, HeadTailProperties DEF push_entry_to_cmdq, Issuing, Step, TodoInv
    <3> QED BY <3>1 DEF Steps
  <2>2. mem' \in [0..(q_max_entries - 1) -> Cmds]
    BY <1>2, <2>1 DEF push_entry_to_cmdq, RingInv
  <2> QED BY <1>2, <2>2 DEF push_entry_to_cmdq, GoOn, Fail, RingInv
<1>3. CASE update_cmdq_prod
  <2>1. find_offset_next_wr_idx(prod) \in Reg
    <3>1. find_offset_next_wr_idx(prod) = IF prod = 2 * q_max_entries - 1 THEN 0 ELSE prod + 1
      BY NextRegister, Zenon DEF RingInv
    <3> QED BY <3>1 DEF RingInv, Reg
  <2> QED BY <1>3, <2>1 DEF update_cmdq_prod, Done, Fail, RingInv
<1>4. CASE smmuv3_rd_meets_wr_idx \/ WriteDw \/ WriteCr0 \/ smmuv3_poll
  BY <1>4 DEF smmuv3_rd_meets_wr_idx, WriteDw, WriteCr0, smmuv3_poll, Done, Fail, RingInv, ring
<1>5. CASE NextSte \/ NextStream \/ plat_iommu_attach_peripheral
  BY <1>5 DEF NextSte, NextStream, plat_iommu_attach_peripheral, Fail, RingInv, ring
<1>6. CASE HwConsume
  <2>1. (cons + 1) % (2 * q_max_entries) \in Reg
    <3>1. (cons + 1) % (2 * q_max_entries) = IF cons = 2 * q_max_entries - 1 THEN 0 ELSE cons + 1
      BY NextRegister, Zenon DEF RingInv
    <3> QED BY <3>1 DEF RingInv, Reg
  <2> QED BY <1>6, <2>1 DEF HwConsume, RingInv, driver
<1>7. CASE HwAck \/ HwComplete \/ HwError \/ HwFetch \/ UNCHANGED vars
  BY <1>7 DEF HwAck, HwComplete, HwError, HwFetch, vars, RingInv, ring, driver
<1> QED BY <1>1, <1>2, <1>3, <1>4, <1>5, <1>6, <1>7 DEF Next, Driver, Hardware

\* A step that moves neither index keeps what the indices say, wherever it takes
\* smmuv3_issue_cmd from "read".
LEMMA IndexKept ==
  ASSUME RingInv, IndexInv, UNCHANGED <<prod, cons, cons_reg>>,
         at' = at \/ at' = "read" \/ (at = "ack" /\ at' = "push")
  PROVE  IndexInv'
BY DEF RingInv, IndexInv

\* The indices stay within the size of the ring of one another.
LEMMA IndexStep ==
  ASSUME RingInv, IndexInv, [Next]_vars
  PROVE  IndexInv'
<1> USE SmmuAssumption
<1>1. CASE ReadIndices
  BY <1>1 DEF ReadIndices, GoOn, ring, RingInv, IndexInv
<1>2. CASE smmuv3_show_cmdq_err
  BY <1>2, IndexKept DEF smmuv3_show_cmdq_err, Issuing, GoOn, ring
<1>3. CASE push_entry_to_cmdq
  <2>1. CASE q_empty_slots # 0 /\ GoOn("prod")
    <3>1. Ahead(prod, cons_reg) < q_max_entries /\ Ahead(prod, cons) < q_max_entries
      BY <1>3, <2>1, EmptySlots DEF push_entry_to_cmdq, Issuing, RingInv, IndexInv, Reg, Ahead
    <3> QED BY <1>3, <2>1, <3>1 DEF push_entry_to_cmdq, GoOn, IndexInv
  <2>2. CASE Fail
    BY <1>3, <2>2, IndexKept DEF push_entry_to_cmdq, Fail
  <2> QED BY <1>3, <2>1, <2>2 DEF push_entry_to_cmdq
<1>4. CASE update_cmdq_prod
  <2>1. CASE prod' = find_offset_next_wr_idx(prod) /\ Done
    <3>1. Ahead(prod, cons) < q_max_entries
      BY <1>4 DEF update_cmdq_prod, Issuing, IndexInv
    <3>2. prod' = IF prod = 2 * q_max_entries - 1 THEN 0 ELSE prod + 1
      BY <2>1, NextRegister, Zenon DEF RingInv
    <3>3. Ahead(prod', cons) <= q_max_entries
      BY <3>1, <3>2 DEF RingInv, Reg, Ahead
    <3> QED BY <1>4, <2>1, <3>3 DEF update_cmdq_prod, Done, IndexInv
  <2>2. CASE UNCHANGED prod /\ Fail
    BY <1>4, <2>2, IndexKept DEF update_cmdq_prod, Fail
  <2> QED BY <1>4, <2>1, <2>2 DEF update_cmdq_prod
<1>5. CASE smmuv3_rd_meets_wr_idx \/ WriteDw \/ WriteCr0 \/ smmuv3_poll
  BY <1>5, IndexKept DEF smmuv3_rd_meets_wr_idx, WriteDw, WriteCr0, smmuv3_poll, Done, Fail, ring
<1>6. CASE NextSte \/ NextStream \/ plat_iommu_attach_peripheral
  BY <1>6, IndexKept DEF NextSte, NextStream, plat_iommu_attach_peripheral, Fail, ring
<1>7. CASE HwConsume
  <2>1. cons # prod /\ UNCHANGED <<prod, cons_reg, at>>
    BY <1>7 DEF HwConsume, driver
  <2>2. cons' = IF cons = 2 * q_max_entries - 1 THEN 0 ELSE cons + 1
    BY <1>7, NextRegister, Zenon DEF HwConsume, RingInv
  <2>3. Ahead(prod, cons') = Ahead(prod, cons) - 1
    BY <2>1, <2>2 DEF RingInv, Reg, Ahead
  <2> QED BY <2>1, <2>3 DEF IndexInv, RingInv, Reg, Ahead
<1>8. CASE HwAck \/ HwComplete \/ HwError \/ HwFetch \/ UNCHANGED vars
  BY <1>8, IndexKept DEF HwAck, HwComplete, HwError, HwFetch, vars, ring, driver
<1> QED BY <1>1, <1>2, <1>3, <1>4, <1>5, <1>6, <1>7, <1>8 DEF Next, Driver, Hardware

\* The command queue is never fuller than its size and the driver only decides
\* from a read index that is not ahead of the SMMU's: Inv holds in every state of
\* smmuv3_issue_cmd, of the functions that call it and of the SMMU.
THEOREM SmmuRing == Spec => []Inv
<1>1. Init => Inv
  <2> SUFFICES ASSUME Init PROVE Inv
    OBVIOUS
  <2>1. RingInv
    BY SmmuAssumption DEF Init, RingInv, Cmds, Reg
  <2>2. TodoInv
    <3>1. todo \in Seq(Steps)
      BY FunctionSteps DEF Init
    <3>2. regions \in Manifests /\ Len(regions) \in Nat
      BY SmmuAssumption, LenProperties DEF Init
    <3> QED BY <3>1, <3>2 DEF Init, TodoInv
  <2>3. IndexInv
    BY SmmuAssumption DEF Init, IndexInv, Ahead
  <2> QED BY <2>1, <2>2, <2>3 DEF Inv
<1>2. Inv /\ [Next]_vars => Inv'
  BY RingStep, TodoStep, IndexStep DEF Inv
<1> QED BY <1>1, <1>2, PTL DEF Spec

-----------------------------------------------------------------------------
\* What is outstanding, before and after a step.
LEMMA OutstandingIs ==
  ASSUME RingInv, RingInv'
  PROVE  /\ Outstanding = [i \in 1..Ahead(prod, cons) |-> mem[idx(cons + i - 1)]]
         /\ Outstanding' = [i \in 1..Ahead(prod', cons') |-> mem'[idx(cons' + i - 1)]]
<1>1. (prod - cons) % (2 * q_max_entries) = Ahead(prod, cons)
  BY Distance, Zenon DEF RingInv
<1>2. (prod' - cons') % (2 * q_max_entries) = Ahead(prod', cons')
  BY Distance, Zenon DEF RingInv
<1>3. Outstanding = [i \in 1..Ahead(prod, cons) |-> mem[idx(cons + i - 1)]]
  BY <1>1, Zenon DEF Outstanding
<1>4. Outstanding' = [i \in 1..Ahead(prod', cons') |-> mem'[idx(cons' + i - 1)]]
  BY <1>2, Zenon DEF Outstanding, idx
<1> QED BY <1>3, <1>4

\* The slot at the write index is none of the outstanding ones.
LEMMA FreeSlot ==
  ASSUME NEW p \in Reg, NEW c \in Reg, NEW i \in 1..Ahead(p, c), Ahead(p, c) < q_max_entries
  PROVE  idx(c + i - 1) # idx(p)
<1> DEFINE k == i - 1
<1>1. k \in 0..q_max_entries /\ k < Ahead(p, c) /\ 0 \in 0..q_max_entries
  BY SmmuAssumption, Distance DEF Reg, Ahead
<1>2. idx(p) = IF p < q_max_entries THEN p ELSE p - q_max_entries
  BY IndexAndWrap
<1> HIDE DEF k
<1>3. idx(c + k) # idx(p)
  <2>1. idx(c + k) = Slot(c + k)
    BY <1>1, SlotAt
  <2> QED BY <1>1, <1>2, <2>1, SmmuAssumption DEF Slot, Reg, Ahead
<1> QED BY <1>3 DEF k

\* The slot at the write index follows the outstanding ones.
LEMMA NextSlot ==
  ASSUME NEW p \in Reg, NEW c \in Reg, Ahead(p, c) < q_max_entries
  PROVE  idx(c + Ahead(p, c)) = idx(p)
<1>1. Ahead(p, c) \in 0..q_max_entries
  BY SmmuAssumption, Distance DEF Reg
<1>2. idx(p) = IF p < q_max_entries THEN p ELSE p - q_max_entries
  BY IndexAndWrap
<1>3. idx(c + Ahead(p, c)) = Slot(c + Ahead(p, c))
  BY <1>1, SlotAt
<1> QED BY <1>1, <1>2, <1>3, SmmuAssumption DEF Slot, Reg, Ahead

\* A command further on is at the same slot when counted from the next register.
LEMMA SameSlot ==
  ASSUME NEW c \in Reg, NEW d \in Reg, NEW k \in 0..(q_max_entries - 1),
         d = IF c = 2 * q_max_entries - 1 THEN 0 ELSE c + 1
  PROVE  idx(d + k) = idx(c + (k + 1))
<1>1. k \in 0..q_max_entries /\ k + 1 \in 0..q_max_entries
  BY SmmuAssumption
<1>2. idx(d + k) = Slot(d + k) /\ idx(c + (k + 1)) = Slot(c + (k + 1))
  BY <1>1, SlotAt
<1> QED BY <1>1, <1>2, SmmuAssumption DEF Slot, Reg

-----------------------------------------------------------------------------
\* push_entry_to_cmdq writes a slot that is not outstanding.
LEMMA PushStutters ==
  ASSUME Inv, Inv', push_entry_to_cmdq
  PROVE  Outstanding' = Outstanding
<1>1. UNCHANGED <<prod, cons>> /\ RingInv /\ RingInv'
  BY DEF push_entry_to_cmdq, Inv
<1>2. CASE UNCHANGED mem
  BY <1>1, <1>2, OutstandingIs
<1>3. CASE q_empty_slots # 0 /\ mem' = [mem EXCEPT ![idx(prod)] = Head(todo).cmd]
  <2>1. Ahead(prod, cons_reg) < q_max_entries /\ Ahead(prod, cons) < q_max_entries
    BY <1>3, EmptySlots, SmmuAssumption
       DEF push_entry_to_cmdq, Issuing, Inv, RingInv, IndexInv, Reg, Ahead
  <2>2. \A i \in 1..Ahead(prod, cons) : idx(cons + i - 1) # idx(prod)
    BY <2>1, FreeSlot DEF Inv, RingInv
  <2>3. \A i \in 1..Ahead(prod, cons) : mem'[idx(cons + i - 1)] = mem[idx(cons + i - 1)]
    <3> SUFFICES ASSUME NEW i \in 1..Ahead(prod, cons)
                 PROVE  mem'[idx(cons + i - 1)] = mem[idx(cons + i - 1)]
      OBVIOUS
    <3> DEFINE j == idx(cons + i - 1)
    <3>1. j # idx(prod)
      BY <2>2
    <3> HIDE DEF j
    <3>2. mem'[j] = mem[j]
      BY <1>1, <1>3, <3>1 DEF RingInv
    <3> QED BY <3>2 DEF j
  <2> QED BY <1>1, <2>3, OutstandingIs
<1> QED BY <1>2, <1>3 DEF push_entry_to_cmdq

\* update_cmdq_prod puts the command of that slot at the end of the queue.
LEMMA ProdPuts ==
  ASSUME Inv, Inv', update_cmdq_prod, prod' # prod
  PROVE  Fifo!Put
<1>1. /\ UNCHANGED <<mem, cons>> /\ RingInv /\ RingInv'
      /\ at = "prod" /\ prod' = find_offset_next_wr_idx(prod)
  BY DEF update_cmdq_prod, Issuing, Inv
<1> DEFINE n == Ahead(prod, cons)
           c == mem[idx(prod)]
<1>2. n < q_max_entries /\ n \in Nat
  BY <1>1, Distance DEF Inv, IndexInv, RingInv
<1>3. prod' = IF prod = 2 * q_max_entries - 1 THEN 0 ELSE prod + 1
  BY <1>1, NextRegister, Zenon DEF RingInv
<1>4. Ahead(prod', cons') = n + 1
  BY <1>1, <1>2, <1>3, SmmuAssumption DEF RingInv, Reg, Ahead
<1>5. idx(cons + n) = idx(prod)
  BY <1>1, <1>2, NextSlot DEF RingInv
<1>6. c \in Cmds
  <2>1. idx(prod) \in 0..(q_max_entries - 1)
    <3>1. idx(prod) = IF prod < q_max_entries THEN prod ELSE prod - q_max_entries
      BY <1>1, IndexAndWrap DEF RingInv
    <3> QED BY <1>1, <3>1, SmmuAssumption DEF RingInv, Reg
  <2> QED BY <1>1, <2>1 DEF RingInv
<1>7. /\ Outstanding = [i \in 1..n |-> mem[idx(cons + i - 1)]]
      /\ Outstanding' = [i \in 1..(n + 1) |-> mem[idx(cons + i - 1)]]
  BY <1>1, <1>4, OutstandingIs
<1>8. Len(Outstanding) = n
  BY <1>2, <1>7
<1>9. Outstanding' = Append(Outstanding, c)
  <2> HIDE DEF n, c
  <2>1. Append(Outstanding, c) = [i \in 1..(n + 1) |-> IF i = n + 1 THEN c ELSE Outstanding[i]]
    BY <1>2, <1>7, <1>8
  <2>2. \A i \in 1..(n + 1) : mem[idx(cons + i - 1)] = IF i = n + 1 THEN c ELSE Outstanding[i]
    <3> SUFFICES ASSUME NEW i \in 1..(n + 1)
                 PROVE  mem[idx(cons + i - 1)] = IF i = n + 1 THEN c ELSE Outstanding[i]
      OBVIOUS
    <3>1. CASE i = n + 1
      <4>1. i - 1 = n
        BY <1>2, <3>1
      <4> QED BY <1>5, <3>1, <4>1 DEF c
    <3>2. CASE i # n + 1
      <4>1. i \in 1..n
        BY <1>2, <3>2
      <4> QED BY <1>7, <3>2, <4>1
    <3> QED BY <3>1, <3>2
  <2> QED BY <1>7, <2>1, <2>2
<1> QED BY <1>2, <1>6, <1>8, <1>9 DEF Fifo!Put

\* The SMMU takes the command at the head of the queue.
LEMMA ConsumeGets ==
  ASSUME Inv, Inv', HwConsume
  PROVE  Fifo!Get
<1>1. /\ UNCHANGED <<mem, prod>> /\ RingInv /\ RingInv' /\ cons # prod
      /\ cons' = (cons + 1) % (2 * q_max_entries)
  BY DEF HwConsume, Inv
<1> DEFINE n == Ahead(prod, cons)
<1>2. n \in Nat /\ n <= q_max_entries
  BY <1>1, Distance DEF Inv, IndexInv, RingInv
<1>3. cons' = IF cons = 2 * q_max_entries - 1 THEN 0 ELSE cons + 1
  BY <1>1, NextRegister, Zenon DEF RingInv
<1>4. n > 0 /\ Ahead(prod', cons') = n - 1
  BY <1>1, <1>3, SmmuAssumption DEF RingInv, Reg, Ahead
<1>5. /\ Outstanding = [i \in 1..n |-> mem[idx(cons + i - 1)]]
      /\ Outstanding' = [i \in 1..(n - 1) |-> mem[idx(cons' + i - 1)]]
  BY <1>1, <1>4, OutstandingIs
<1> HIDE DEF n
<1>6. Len(Outstanding) = n /\ Outstanding # <<>>
  BY <1>2, <1>4, <1>5
<1>7. Tail(Outstanding) = [i \in 1..(n - 1) |-> Outstanding[i + 1]]
  BY <1>2, <1>4, <1>5, <1>6
<1>8. \A i \in 1..(n - 1) : mem[idx(cons' + i - 1)] = Outstanding[i + 1]
  <2> SUFFICES ASSUME NEW i \in 1..(n - 1)
               PROVE  mem[idx(cons' + i - 1)] = Outstanding[i + 1]
    OBVIOUS
  <2> DEFINE k == i - 1
  <2>1. k \in 0..(q_max_entries - 1) /\ (i + 1) - 1 = k + 1 /\ i + 1 \in 1..n
    BY <1>2, SmmuAssumption
  <2>2. idx(cons' + k) = idx(cons + (k + 1))
    BY <1>1, <1>3, <2>1, SameSlot, Zenon DEF RingInv
  <2>3. Outstanding[i + 1] = mem[idx(cons + ((i + 1) - 1))]
    BY <1>5, <2>1
  <2> QED BY <2>1, <2>2, <2>3
<1>9. Outstanding' = Tail(Outstanding)
  BY <1>5, <1>7, <1>8
<1> QED BY <1>6, <1>9 DEF Fifo!Get

\* No other step touches the ring.
LEMMA RingKept ==
  ASSUME UNCHANGED ring
  PROVE  Outstanding' = Outstanding
BY DEF ring, Outstanding, idx

\* The command queue of smmuv3_issue_cmd and of the SMMU is a bounded queue, for
\* every size: no command is overwritten, lost, repeated or reordered, although
\* the driver decides from a read index that may be stale.
THEOREM SmmuImplementsFifo == Spec => CmdqIsFifo
<1>1. Init => Fifo!Init
  <2> SUFFICES ASSUME Init PROVE Outstanding = <<>>
    BY DEF Fifo!Init
  <2>1. prod = 0 /\ cons = 0
    BY DEF Init
  <2>2. (prod - cons) % (2 * q_max_entries) = 0
    <3>1. 0 \in Reg
      BY SmmuAssumption DEF Reg
    <3>2. Ahead(0, 0) = 0
      BY DEF Ahead
    <3> QED BY <2>1, <3>1, <3>2, Distance
  <2> QED BY <2>2 DEF Outstanding
<1>2. Inv /\ Inv' /\ [Next]_vars => [Fifo!Next]_Outstanding
  <2> SUFFICES ASSUME Inv, Inv', [Next]_vars PROVE Fifo!Next \/ Outstanding' = Outstanding
    OBVIOUS
  <2>1. CASE push_entry_to_cmdq
    BY <2>1, PushStutters
  <2>2. CASE update_cmdq_prod
    <3>1. CASE prod' = prod
      BY <2>2, <3>1, RingKept DEF update_cmdq_prod, ring
    <3> QED BY <2>2, <3>1, ProdPuts DEF Fifo!Next
  <2>3. CASE HwConsume
    BY <2>3, ConsumeGets DEF Fifo!Next
  <2>4. CASE UNCHANGED ring
    BY <2>4, RingKept
  <2> QED BY <2>1, <2>2, <2>3, <2>4
      DEF Next, Driver, Hardware, vars, ReadIndices, smmuv3_show_cmdq_err, smmuv3_rd_meets_wr_idx,
          NextSte, WriteDw, WriteCr0, smmuv3_poll, NextStream, plat_iommu_attach_peripheral,
          HwAck, HwComplete, HwError, HwFetch
<1> QED BY <1>1, <1>2, SmmuRing, PTL DEF Spec, CmdqIsFifo, Fifo!Spec
=============================================================================
