-------------------------------- MODULE Smmu --------------------------------
(***************************************************************************)
(* The SMMUv3 driver: the command queue with its wrap bits, the enabling   *)
(* sequence, and the update of stream table entries while the SMMU         *)
(* translates.  The driver runs on the boot CPU only; what it races with   *)
(* is the SMMU itself (external), which consumes commands, caches stream   *)
(* table entries and may report errors at any time.                        *)
(*                                                                         *)
(* A function of the driver is a sequence of steps; a step that fails ends *)
(* the boot (every caller passes false on, up to a panic).                 *)
(***************************************************************************)
EXTENDS Integers, Sequences

CONSTANTS
  q_max_entries,   \* slots of the command queue
  max_sid,         \* last index of the stream table
  smmu_id,         \* the SMMU this driver instance drives
  Manifests,       \* device regions of the VMs, in boot order: alternatives
  Vm,
  Stale            \* a stream table entry from before the driver's time

Sid == 0..max_sid

ASSUME SmmuAssumption ==
  /\ q_max_entries \in Nat \ {0}
  /\ max_sid \in Nat
  /\ \A m \in Manifests : m \in Seq([vm : Vm, smmu_id : Nat, stream_ids : Seq(Nat)])

VARIABLES
  mem,        \* the slots of the queue, at q_base
  prod, cons, \* SMMU_CMDQ_PROD and SMMU_CMDQ_CONS, wrap bit on top of index
  cons_reg,   \* what smmuv3_issue_cmd has read of SMMU_CMDQ_CONS
  at,         \* where smmuv3_issue_cmd is: "read", "ack", "push" or "prod"
  gerror,     \* GERROR and GERRORN differ in CMDQ_ERR
  cr0, ack,   \* bits set in SMMU_CR0 and in SMMU_CR0ACK
  strtab,     \* stream table: double words 0 to 3 of each entry
  cache,      \* configuration cache of the SMMU
  tlb,        \* kinds of TLB entries left from before the reset
  busy,       \* commands consumed and not completed
  regions,    \* the manifest of this boot
  todo,       \* steps left of the function the driver is in
  next,       \* device regions attached, or being attached
  owner,      \* what was last configured for each stream
  status      \* "run" or "panic"

ring == <<mem, prod, cons>>
driver == <<at, regions, todo, next, owner, status>>
hardware == <<cr0, ack, cache, tlb, busy>>
vars == <<ring, cons_reg, gerror, hardware, strtab, driver>>

-----------------------------------------------------------------------------
\* Commands: the construct_* functions.
CFGI_ALL == [op |-> "CFGI_ALL"]
CFGI_STE(sid) == [op |-> "CFGI_STE", sid |-> sid]
TLBI(kind) == [op |-> "TLBI", kind |-> kind]
SYNC == [op |-> "SYNC"]

Cmds == {CFGI_ALL, SYNC} \cup {TLBI(k) : k \in {"EL2", "NSNH"}} \cup {CFGI_STE(s) : s \in Sid}

\* A stream table entry: valid bit and configuration, attributes, VMID, base.
clear_ste == [dw0 |-> "invalid", dw1 |-> "none", dw2 |-> "none", dw3 |-> "none"]
create_bypass_ste == [clear_ste EXCEPT !.dw0 = "bypass", !.dw1 = "incoming"]
smmuv3_config_ste_stg2(vm) == [dw0 |-> "stg2", dw1 |-> "EL2", dw2 |-> vm, dw3 |-> vm]

-----------------------------------------------------------------------------
\* Steps of the driver.
Issue(c) == <<[op |-> "issue", cmd |-> c]>>

smmuv3_synchronize_cmdq == Issue(SYNC) \o <<[op |-> "wait"]>>
inval_cached_cfgs == Issue(CFGI_ALL) \o smmuv3_synchronize_cmdq
inval_cached_STE(sid) == Issue(CFGI_STE(sid)) \o smmuv3_synchronize_cmdq
Enable(bit) == <<[op |-> "cr0", bit |-> bit], [op |-> "poll", bit |-> bit]>>

Dw(sid, dw, val) == [op |-> "ste", sid |-> sid, dw |-> dw, val |-> val]

\* write_ste: invalid first, the double word with the valid bit last.
write_ste(sid, ste) ==
  <<Dw(sid, "dw0", "invalid"), Dw(sid, "dw3", ste.dw3), Dw(sid, "dw2", ste.dw2),
    Dw(sid, "dw1", ste.dw1), Dw(sid, "dw0", ste.dw0)>>

\* The loop over the entries of the table, from sid on.
StesFrom(sid, ste) == IF sid <= max_sid THEN <<[op |-> "loop", sid |-> sid, ste |-> ste]>> ELSE <<>>

smmuv3_inv_cfg_tlbs == inval_cached_cfgs \o Issue(TLBI("EL2")) \o Issue(TLBI("NSNH"))

smmuv3_invalidate_stes == StesFrom(0, clear_ste)
smmuv3_default_translation == StesFrom(0, create_bypass_ste) \o inval_cached_cfgs

smmuv3_enable_init ==
  Enable("CMDQEN") \o Enable("EVTQEN") \o smmuv3_inv_cfg_tlbs
  \o smmuv3_default_translation \o Enable("SMMUEN")

\* Mutant: the cached copy is invalidated before the write only.
smmuv3_configure_streamOnce(vm, sid) ==
  inval_cached_STE(sid) \o write_ste(sid, smmuv3_config_ste_stg2(vm))

\* What follows the check of the stream id.
smmuv3_configure_stream(vm, sid) ==
  inval_cached_STE(sid) \o write_ste(sid, smmuv3_config_ste_stg2(vm)) \o inval_cached_STE(sid)

\* The loop over the stream ids of a device region.
StreamsOf(vm, ids) == IF ids # <<>> THEN <<[op |-> "stream", vm |-> vm, ids |-> ids]>> ELSE <<>>

-----------------------------------------------------------------------------
\* smmuv3_reset has cleared SMMUEN, the queue and the table are allocated and
\* the index registers are zero; the memory and the caches hold anything.
Init ==
  /\ mem = [i \in 0..(q_max_entries - 1) |-> SYNC]
  /\ prod = 0 /\ cons = 0 /\ cons_reg = 0 /\ at = "read"
  /\ gerror \in BOOLEAN
  /\ cr0 = {} /\ ack = {}
  /\ strtab = [s \in Sid |-> Stale]
  /\ cache \in [Sid -> {{}, {Stale}}]
  /\ tlb = {"EL2", "NSNH"}
  /\ busy = {}
  /\ todo = smmuv3_invalidate_stes \o smmuv3_enable_init
  /\ regions \in Manifests
  /\ next = 0
  /\ owner = [s \in Sid |-> create_bypass_ste]
  /\ status = "run"

Step(op) == status = "run" /\ todo # <<>> /\ Head(todo).op = op

\* Every caller passes false on, up to a panic of the boot.
Fail == status' = "panic" /\ todo' = <<>> /\ at' = "read" /\ UNCHANGED <<regions, next, owner>>
Done == todo' = Tail(todo) /\ at' = "read" /\ UNCHANGED <<regions, next, owner, status>>

\* smmuv3_issue_cmd goes on.
Issuing(here) == Step("issue") /\ at = here
GoOn(there) == at' = there /\ UNCHANGED <<regions, todo, next, owner, status>>

-----------------------------------------------------------------------------
\* smmuv3_issue_cmd in four steps, between which the SMMU may move: the index
\* registers are read, an error is acknowledged, the slot is written, and the
\* write index is advanced.
idx(r) == r % q_max_entries
wrap(r) == (r \div q_max_entries) % 2

ReadIndices ==
  /\ Issuing("read")
  /\ cons_reg' = cons
  /\ GoOn("ack")
  /\ UNCHANGED <<ring, gerror, hardware, strtab>>

smmuv3_show_cmdq_err ==
  /\ Issuing("ack")
  /\ gerror' = FALSE
  /\ GoOn("push")
  /\ UNCHANGED <<ring, cons_reg, hardware, strtab>>

\* Mutant: the wrap bits are not compared.
q_empty_slotsNoWrap == q_max_entries - (idx(prod) - idx(cons_reg))

q_empty_slots ==
  IF wrap(prod) = wrap(cons_reg)
  THEN q_max_entries - (idx(prod) - idx(cons_reg))
  ELSE idx(cons_reg) - idx(prod)

push_entry_to_cmdq ==
  /\ Issuing("push")
  /\ \/ q_empty_slots # 0 /\ GoOn("prod")
        /\ mem' = [mem EXCEPT ![idx(prod)] = Head(todo).cmd]
     \/ q_empty_slots = 0 /\ Fail /\ UNCHANGED mem
  /\ UNCHANGED <<prod, cons, cons_reg, gerror, hardware, strtab>>

find_offset_next_wr_idx(r) ==
  IF idx(r) < q_max_entries - 1 THEN idx(r) + 1 + q_max_entries * wrap(r)
  ELSE IF wrap(r) = 0 THEN q_max_entries ELSE 0

\* The register is read back; a write that did not take ends the boot.
update_cmdq_prod ==
  /\ Issuing("prod")
  /\ \/ prod' = find_offset_next_wr_idx(prod) /\ Done
     \/ UNCHANGED prod /\ Fail
  /\ UNCHANGED <<mem, cons, cons_reg, gerror, hardware, strtab>>

\* The indices meet within the attempts, or the wait times out.
rd_meets_wr == wrap(cons) = wrap(prod) /\ idx(cons) = idx(prod)

smmuv3_rd_meets_wr_idx ==
  /\ Step("wait")
  /\ \/ rd_meets_wr /\ Done
     \/ ~rd_meets_wr /\ Fail
  /\ UNCHANGED <<ring, cons_reg, gerror, hardware, strtab>>

\* The next entry of a loop over the stream table.
NextSte ==
  /\ Step("loop")
  /\ LET h == Head(todo) IN
       todo' = write_ste(h.sid, h.ste) \o StesFrom(h.sid + 1, h.ste) \o Tail(todo)
  /\ UNCHANGED <<ring, cons_reg, at, gerror, hardware, strtab, regions, next, owner, status>>

\* One 64-bit store of write_ste.
WriteDw ==
  /\ Step("ste")
  /\ strtab' = [strtab EXCEPT ![Head(todo).sid][Head(todo).dw] = Head(todo).val]
  /\ Done
  /\ UNCHANGED <<ring, cons_reg, gerror, hardware>>

\* A bit of SMMU_CR0 is set, then SMMU_CR0ACK is polled.
WriteCr0 ==
  /\ Step("cr0")
  /\ cr0' = cr0 \cup {Head(todo).bit}
  /\ Done
  /\ UNCHANGED <<ring, cons_reg, gerror, ack, cache, tlb, busy, strtab>>

smmuv3_poll ==
  /\ Step("poll")
  /\ \/ Head(todo).bit \in ack /\ Done
     \/ Head(todo).bit \notin ack /\ Fail
  /\ UNCHANGED <<ring, cons_reg, gerror, hardware, strtab>>

\* The next stream of a device region, which smmuv3_configure_stream checks.
NextStream ==
  /\ Step("stream")
  /\ LET h == Head(todo)
         sid == Head(h.ids)
         ste == smmuv3_config_ste_stg2(h.vm) IN
     \/ /\ sid <= max_sid
        /\ owner' = [owner EXCEPT ![sid] = ste]
        /\ todo' = smmuv3_configure_stream(h.vm, sid) \o StreamsOf(h.vm, Tail(h.ids)) \o Tail(todo)
        /\ UNCHANGED <<at, regions, next, status>>
     \/ sid > max_sid /\ Fail
  /\ UNCHANGED <<ring, cons_reg, gerror, hardware, strtab>>

\* The next device region: one of another SMMU is passed over.
plat_iommu_attach_peripheral ==
  /\ status = "run" /\ todo = <<>> /\ next < Len(regions)
  /\ LET r == regions[next + 1]
         ids == r.stream_ids
         own == r.smmu_id = smmu_id
         legal == Len(ids) # 0 /\ Len(ids) <= max_sid + 1 IN
     \/ own /\ ~legal /\ Fail
     \/ /\ own => legal
        /\ next' = next + 1
        /\ todo' = IF own THEN StreamsOf(r.vm, ids) ELSE <<>>
        /\ UNCHANGED <<at, regions, owner, status>>
  /\ UNCHANGED <<ring, cons_reg, gerror, hardware, strtab>>

-----------------------------------------------------------------------------
\* The SMMU (external).

HwAck ==
  /\ ack # cr0 /\ ack' = cr0
  /\ UNCHANGED <<ring, cons_reg, gerror, cr0, cache, tlb, busy, strtab, driver>>

\* Commands are consumed in order and complete in any order; CMD_SYNC is
\* consumed when all those before it have completed.
HwConsume ==
  LET c == mem[idx(cons)] IN
  /\ "CMDQEN" \in ack /\ cons # prod /\ ~gerror
  /\ c = SYNC => busy = {}
  /\ busy' = IF c = SYNC THEN busy ELSE busy \cup {c}
  /\ cons' = (cons + 1) % (2 * q_max_entries)
  /\ UNCHANGED <<mem, prod, cons_reg, gerror, cr0, ack, cache, tlb, strtab, driver>>

HwComplete ==
  /\ \E c \in busy :
       /\ busy' = busy \ {c}
       /\ cache' = [s \in Sid |-> IF c = CFGI_ALL \/ c = CFGI_STE(s) THEN {} ELSE cache[s]]
       /\ tlb' = IF c.op = "TLBI" THEN tlb \ {c.kind} ELSE tlb
  /\ UNCHANGED <<ring, cons_reg, gerror, cr0, ack, strtab, driver>>

\* A command cannot be executed: the SMMU stops until it is acknowledged.
HwError ==
  /\ "CMDQEN" \in ack /\ cons # prod /\ ~gerror
  /\ gerror' = TRUE
  /\ UNCHANGED <<ring, cons_reg, hardware, strtab, driver>>

\* A transaction of a stream makes the SMMU fetch its entry, as a whole.
HwFetch ==
  /\ "SMMUEN" \in ack
  /\ \E s \in Sid :
       /\ cache[s] = {}
       /\ cache' = [cache EXCEPT ![s] = {strtab[s]}]
  /\ UNCHANGED <<ring, cons_reg, gerror, cr0, ack, tlb, busy, strtab, driver>>

-----------------------------------------------------------------------------
Driver ==
  \/ ReadIndices \/ smmuv3_show_cmdq_err \/ push_entry_to_cmdq \/ update_cmdq_prod
  \/ smmuv3_rd_meets_wr_idx \/ NextSte \/ WriteDw \/ WriteCr0 \/ smmuv3_poll
  \/ NextStream \/ plat_iommu_attach_peripheral

Hardware == HwAck \/ HwConsume \/ HwComplete \/ HwError \/ HwFetch

Next == Driver \/ Hardware

Spec == Init /\ [][Next]_vars

-----------------------------------------------------------------------------
\* The commands between the two indices, oldest first.
Outstanding ==
  [i \in 1..((prod - cons) % (2 * q_max_entries)) |-> mem[idx(cons + i - 1)]]

Fifo == INSTANCE CmdFifo WITH Cmd <- Cmds, Size <- q_max_entries, q <- Outstanding

\* The ring with wrap bits of smmuv3_issue_cmd is a bounded queue, although it
\* decides from a read index that may be stale: no command is overwritten,
\* lost, repeated or reordered.
CmdqIsFifo == Fifo!Spec

\* The SMMU never translates with a valid entry that mixes two configurations:
\* write_ste clears the valid bit first and sets it last, and no entry cached
\* before the reset survives until SMMUEN.
NoMixedSte ==
  "SMMUEN" \in ack =>
    \A s \in Sid : \A e \in cache[s] :
      e.dw0 = "invalid" \/ e = create_bypass_ste \/ \E v \in Vm : e = smmuv3_config_ste_stg2(v)

\* Once plat_iommu_attach_peripheral has returned true, each stream has the
\* entry last configured for it in the table, and the SMMU caches that entry or
\* none: no stale copy is left behind.
StreamCoherent ==
  status = "run" /\ todo = <<>> =>
    \A s \in Sid : strtab[s] = owner[s] /\ cache[s] \subseteq {owner[s]}

\* Translation starts only when all TLB entries from before the reset are gone,
\* although smmuv3_inv_cfg_tlbs waits for neither of its TLBI commands: the
\* CMD_SYNC of smmuv3_default_translation does.
EnabledWithCleanTlb == "SMMUEN" \in ack => tlb = {}

\* What the SMMU holds in its caches is never harmful: no mixed entry, no stale
\* entry after a configuration, no translation from before the reset.
CachesSafe == NoMixedSte /\ StreamCoherent /\ EnabledWithCleanTlb
=============================================================================
