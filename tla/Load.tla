-------------------------------- MODULE Load --------------------------------
(***************************************************************************)
(* The boot of src/src/init.c on the one CPU that runs: the hypervisor     *)
(* maps itself, the device tree and the initial RAM disk, then loads the   *)
(* VMs of the manifest (src/src/load.c), through the allocator of Pma.     *)
(*                                                                         *)
(* A call that can fail for a reason outside the model (no page table      *)
(* left, file missing, device not found) may fail at any time.  Where the  *)
(* caller panics, the clean-up before the panic is left out.               *)
(***************************************************************************)
EXTENDS Pma, Sequences

CONSTANTS Manifests,  \* sequences of VMs, one is chosen
          Sections,   \* <<begin, end, mode>> of text, rodata, data
          Fdt, Initrd,   \* <<begin, end>>
          GicPages, VgicPages, \* <<begin, end>> of the GIC; size of struct virt_gic
          DeviceRanges,  \* device_mem_ranges, mapped for every VM
          MaxSplits, MAX_VMS, MAX_CPUS, MaxInterrupts,
          BootArg,    \* kernel_arg of the boot loader
          MaxFaults   \* mappings that fail and are ignored or retried

VARIABLES mf,      \* manifest->vm
          pc, k,   \* step of the boot, counter of its loop
          cur,     \* VM being loaded
          part, at, \* component being loaded, its physical page
          pas,     \* kernel_addr_pa, fdt_addr_pa, ramdisk_addr_pa of every VM
          comps,   \* component_begin, component_size
          todo,    \* pieces of free RAM still to be allocated
          karg,    \* params->kernel_arg
          order,   \* the boot list
          started, \* entry and argument vCPU 0 of a loaded VM was given
          irqs,    \* interrupt_desc of every VM
          sw,      \* sw_enabled
          clash,   \* history: an ignored reservation failed
          ignored, \* history: a failed mapping or release left pages marked
          faults   \* number of such failures

vars == <<own, last, cache, hyp, s2, ret, mf, pc, k, cur, part, at, pas, comps, todo, karg, order,
          started, irqs, sw, clash, ignored, faults>>

MANIFEST_INVALID_ADDRESS == 1000
Parts == {"kernel", "fdt", "ramdisk"}
NoFiles == [c \in Parts |-> NULL]

Init == /\ PmaInit
        /\ mf \in Manifests
        /\ pc = "mm_init" /\ k = 1 /\ cur = 1 /\ part = "kernel" /\ at = NULL
        /\ pas = [v \in Vms |-> NoFiles] /\ comps = <<>> /\ todo = <<>>
        /\ karg = BootArg /\ order = <<>> /\ started = [v \in Vms |-> <<>>]
        /\ irqs = [v \in Vms |-> <<>>] /\ sw = FALSE
        /\ clash = FALSE /\ ignored = FALSE /\ faults = 0

Goto(l) == pc' = l
\* A call failed and its caller gives up.
Fails == pc' = "panic"
ThenOrPanic(ok, l) == IF ok THEN Goto(l) ELSE Fails
\* Does a mapping whose failure is not fatal succeed?
Luck == IF faults < MaxFaults THEN BOOLEAN ELSE {TRUE}
Fault(ok) == IF ok THEN 0 ELSE 1
KeepLoading == UNCHANGED <<mf, cur, part, at, pas, comps, todo, karg, order, started, irqs, sw, clash, ignored, faults>>

----------------------------------------------------------------------------
\* one_time_init_mm
mm_init == /\ pc = "mm_init" /\ pma_init /\ Goto("sections") /\ k' = 1 /\ KeepLoading

MapSection == /\ pc = "sections" /\ k <= Len(Sections)
              /\ \E ok \in BOOLEAN :
                   /\ mm_identity_map_and_reserve(ok, Sections[k][1], Sections[k][2], Sections[k][3])
                   /\ ThenOrPanic(ok, "sections")
              /\ k' = k + 1 /\ KeepLoading

SectionsDone == /\ pc = "sections" /\ k > Len(Sections)
                /\ Goto("fdt_map") /\ UNCHANGED <<pmaVars, k>> /\ KeepLoading

\* fdt_map: the header first, then, if it is larger, all of it.
MapFdtHeader == /\ pc = "fdt_map"
                /\ \E ok \in BOOLEAN :
                     /\ mm_identity_map_and_reserve(ok, Fdt[1], Fdt[1] + 1, "r")
                     /\ ThenOrPanic(ok, IF Fdt[2] > Fdt[1] + 1 THEN "fdt_release" ELSE "initrd")
                /\ UNCHANGED k /\ KeepLoading

ReleaseFdtHeader == /\ pc = "fdt_release"
                    /\ pma_release_memory(Fdt[1], Fdt[1] + 1, HYPERVISOR_ID)
                    /\ \/ Goto("fdt_full") \/ Fails
                    /\ UNCHANGED <<cache, hyp, s2, ret, k>> /\ KeepLoading

MapFdt == /\ pc = "fdt_full"
          /\ \E ok \in BOOLEAN : /\ mm_identity_map_and_reserve(ok, Fdt[1], Fdt[2], "r")
                                 /\ ThenOrPanic(ok, "initrd")
          /\ UNCHANGED k /\ KeepLoading

MapInitrd == /\ pc = "initrd"
             /\ \E ok \in BOOLEAN : /\ mm_identity_map_and_reserve(ok, Initrd[1], Initrd[2], "r")
                                    /\ ThenOrPanic(ok, "probe")
             /\ UNCHANGED k /\ KeepLoading

\* The external mediator, or the default one, parses the manifest; then the
\* SMMUs are brought up.
Probe == /\ pc = "probe"
         /\ \/ sw' = TRUE /\ Goto("fdt_unmap")
            \/ sw' = FALSE /\ (Goto("fdt_unmap") \/ Fails)
         /\ UNCHANGED <<pmaVars, k, mf, cur, part, at, pas, comps, todo, karg, order, started, irqs,
                        clash, ignored, faults>>

FdtUnmapHeader ==
  /\ pc = "fdt_unmap"
  /\ \E ok \in BOOLEAN : /\ mm_identity_map_and_reserve(ok, Fdt[1], Fdt[1] + 1, "none")
                         /\ ThenOrPanic(ok, "vm_init")
  /\ UNCHANGED k /\ KeepLoading

fdt_unmap == /\ pc = "fdt_unmap"
             /\ \E ok \in BOOLEAN : /\ mm_identity_map_and_reserve(ok, Fdt[1], Fdt[2], "none")
                                    /\ ThenOrPanic(ok, "vm_init")
             /\ UNCHANGED k /\ KeepLoading

----------------------------------------------------------------------------
\* load_vm.  m is the manifest of the VM being loaded.
m == mf[cur]
Address(x, c) == x[c]
Size(x, v, c) == IF pas[v][c] = NULL THEN 0 ELSE x.size[c]

\* The component with the lowest address; a tie goes to the RAM disk.
Lowest(x) == IF x.kernel < x.fdt /\ x.kernel < x.ramdisk THEN "kernel"
             ELSE IF x.fdt < x.kernel /\ x.fdt < x.ramdisk THEN "fdt" ELSE "ramdisk"
MemBegin(x) == Address(x, Lowest(x))
MemEnd(x) == MemBegin(x) + x.memory_size

vm_init_next ==
  /\ pc = "vm_init"
  /\ \/ /\ cur <= MAX_VMS /\ m.vcpu_count <= MAX_CPUS /\ m.vcpu_count <= m.pcpu_count
        /\ comps' = <<Lowest(m)>> /\ Goto("kernel")
     \/ comps' = <<>> /\ Fails
  /\ UNCHANGED <<pmaVars, k, mf, cur, part, at, pas, todo, karg, order, started, irqs, sw, clash, ignored, faults>>

\* Sizes are not known when a component's address is checked.
InRange(c) == /\ Address(m, c) <= MemEnd(m)
              /\ c # "kernel" => Address(m, c) # MANIFEST_INVALID_ADDRESS

\* A component's file is copied to pages of the hypervisor ...
Allocate(c, align, mode) ==
  /\ pc = c
  /\ LET n == m.size[c] ipa == Address(m, c)
     IN  \/ /\ InRange(c)
            /\ \E ok \in BOOLEAN :
                 IF m.identity_mapping THEN mm_identity_map_and_reserve(ok, ipa, ipa + n, mode)
                 ELSE pma_aligned_alloc(ok, HYPERVISOR_ID, ipa, n, align, mode)
            /\ clash' = (clash \/ (m.identity_mapping /\ ~ReserveOk(ipa, ipa + n)))
            /\ at' = ret' /\ part' = c /\ ThenOrPanic(ret' \notin {NULL, FAULT_PAGE_NUMBER}, "assign")
         \/ /\ Fails /\ UNCHANGED <<pmaVars, at, part, clash>>
  /\ UNCHANGED <<k, mf, cur, pas, comps, todo, karg, order, started, irqs, sw, ignored, faults>>

load_kernel == m.size["kernel"] > 0 /\ Allocate("kernel", LevelPages, "rwx")
load_fdt == m.size["fdt"] > 0 /\ Allocate("fdt", 1, "rw")
load_ramdisk == m.size["ramdisk"] > 0 /\ Allocate("ramdisk", LevelPages, "rwx")

\* ... which are given to the VM ...
AssignComponent ==
  /\ pc = "assign"
  /\ LET n == pma_get_size(at, HYPERVISOR_ID)
     IN  \E ok \in Luck :
           /\ faults' = faults + Fault(ok)
           /\ pma_assign(ok, cur, at, Address(m, part), n, IF part = "fdt" THEN "r" ELSE "rwx")
           /\ ignored' = (ignored \/ ~ok \/ AssignRefused(cur, at, n) \/ cur \in own[at])
  /\ Goto("free")
  /\ UNCHANGED <<ret, k, mf, cur, part, at, pas, comps, todo, karg, order, started, irqs, sw, clash>>

\* The ordered list of components, with c in its place.
Insert(list, c) ==
  IF Address(m, list[1]) = Address(m, c) THEN list
  ELSE IF Len(list) = 1 THEN <<list[1], c>>
  ELSE IF Address(m, c) < Address(m, list[2]) THEN <<list[1], c, list[2]>>
  ELSE <<list[1], list[2], c>>

NextPart(c) == CASE c = "kernel" -> "fdt" [] c = "fdt" -> "ramdisk" [] OTHER -> "layout"

\* params->kernel_arg after a device tree was put at physical page pa.
KernelArg(pa) == IF pa # karg THEN Address(m, "fdt") ELSE karg

\* ... and taken from the hypervisor.
FreeComponent ==
  /\ pc = "free"
  /\ \E ok \in Luck :
       /\ faults' = faults + Fault(ok)
       /\ pma_free(ok, HYPERVISOR_ID, at)
       /\ ignored' = (ignored \/ ~ok \/ FreeRefused(HYPERVISOR_ID, at))
  /\ pas' = [pas EXCEPT ![cur][part] = at]
  /\ karg' = IF part = "fdt" THEN KernelArg(at) ELSE karg
  /\ comps' = Insert(comps, part)
  /\ Goto(NextPart(part))
  /\ UNCHANGED <<ret, k, mf, cur, part, at, todo, order, started, irqs, sw, clash>>

\* A VM without a kernel is refused; without a device tree or RAM disk it is not.
SkipComponent ==
  /\ pc \in Parts /\ m.size[pc] = 0
  /\ IF pc = "kernel" THEN Fails ELSE Goto(NextPart(pc))
  /\ UNCHANGED <<pmaVars, k>> /\ KeepLoading

----------------------------------------------------------------------------
End(c) == Address(m, c) + Size(m, cur, c)
NoOverlap == \A i \in 1 .. Len(comps) - 1 : End(comps[i]) <= Address(m, comps[i + 1])

CheckLayout == /\ pc = "layout"
               /\ ThenOrPanic(NoOverlap, "freeram") /\ k' = 1
               /\ UNCHANGED pmaVars /\ KeepLoading

\* The k-th gap; negative where the code's unsigned size is huge.
Gap == (IF k = Len(comps) THEN MemEnd(m) ELSE Address(m, comps[k + 1])) - End(comps[k])
AtGap == pc = "freeram" /\ todo = <<>> /\ k <= Len(comps)

SkipGap == /\ AtGap /\ Gap = 0
           /\ k' = k + 1
           /\ UNCHANGED <<pmaVars, pc>> /\ KeepLoading

IdentityGap ==
  /\ AtGap /\ Gap # 0 /\ m.identity_mapping
  /\ \E ok \in BOOLEAN :
       vm_identity_map_and_reserve(ok, cur, End(comps[k]), End(comps[k]) + Gap, "rwx")
  /\ k' = k + 1 /\ ThenOrPanic(ret' # FAULT_PAGE_NUMBER, "freeram")
  /\ KeepLoading

StartGap == /\ AtGap /\ Gap # 0 /\ ~m.identity_mapping
            /\ IF Gap < 0 THEN Fails /\ UNCHANGED todo
               ELSE UNCHANGED pc /\ todo' = <<[ipa |-> End(comps[k]), n |-> Gap, splits |-> MaxSplits]>>
            /\ UNCHANGED <<pmaVars, k, mf, cur, part, at, pas, comps, karg, order, started, irqs, sw,
                           clash, ignored, faults>>

\* pma_aligned_alloc_with_split: a chunk that cannot be had is tried in two.
pma_aligned_alloc_with_split ==
  /\ pc = "freeram" /\ todo # <<>>
  /\ LET c == Head(todo) f == FirstHalf(c.n)
     IN  /\ \E ok \in Luck :
              /\ faults' = faults + Fault(ok)
              /\ pma_aligned_alloc(ok, cur, c.ipa, c.n, AutoAlign(c.ipa, c.n), "rwx")
         /\ IF ret' # FAULT_PAGE_NUMBER
              THEN /\ todo' = Tail(todo) /\ UNCHANGED pc
                   /\ k' = IF Tail(todo) = <<>> THEN k + 1 ELSE k
              ELSE IF c.splits > 0 /\ c.n > 1
              THEN /\ todo' = <<[ipa |-> c.ipa, n |-> f, splits |-> c.splits - 1],
                                [ipa |-> c.ipa + f, n |-> SecondHalf(c.n), splits |-> c.splits - 1]>>
                               \o Tail(todo)
                   /\ UNCHANGED <<pc, k>>
              ELSE Fails /\ UNCHANGED <<todo, k>>
         /\ ignored' = (ignored \/ (ret' = FAULT_PAGE_NUMBER /\ own' # own))
  /\ UNCHANGED <<mf, cur, part, at, pas, comps, karg, order, started, irqs, sw, clash>>

FreeRamDone == /\ pc = "freeram" /\ todo = <<>> /\ k > Len(comps)
               /\ Goto("gic") /\ UNCHANGED <<pmaVars, k>> /\ KeepLoading

----------------------------------------------------------------------------
\* The GIC is mapped for the hypervisor, once per VM.
MapGic == /\ pc = "gic"
          /\ \/ HypMap(GicPages[1], GicPages[2], "rwd")
                /\ Goto(IF m.gic = MANIFEST_INVALID_ADDRESS THEN "devmem" ELSE "vgic")
             \/ UNCHANGED hyp /\ Fails
          /\ k' = 1 /\ UNCHANGED <<own, last, cache, s2, ret>> /\ KeepLoading

\* The virtual GIC is the hypervisor's; the VM maps it without access.
VgicInRam == m.gic + VgicPages - 1 >= m.kernel /\ m.kernel + m.memory_size > m.gic

AllocVgic == /\ pc = "vgic"
             /\ IF VgicInRam THEN Fails /\ UNCHANGED pmaVars
                ELSE \E ok \in BOOLEAN :
                  /\ pma_aligned_alloc(ok, HYPERVISOR_ID, m.gic, VgicPages,
                                       AutoAlign(m.gic, VgicPages), "rwd")
                  /\ ThenOrPanic(ret' # FAULT_PAGE_NUMBER, "vgic_map")
             /\ UNCHANGED k /\ KeepLoading

MapVgic == /\ pc = "vgic_map"
           /\ \/ VmMap(cur, m.gic, ret, ret + VgicPages, "d") /\ Goto("devmem")
              \/ UNCHANGED s2 /\ Fails
           /\ UNCHANGED <<own, last, cache, hyp, ret, k>> /\ KeepLoading

MapDeviceMemory ==
  /\ pc = "devmem" /\ k <= Len(DeviceRanges)
  /\ LET r == DeviceRanges[k]
     IN  \/ VmMap(cur, r[1], r[1], r[2], "rwd") /\ UNCHANGED pc
         \/ UNCHANGED s2 /\ Fails
  /\ k' = k + 1 /\ UNCHANGED <<own, last, cache, hyp, ret>> /\ KeepLoading

\* vm_update_boot with equal boot_orders: after all VMs already there.
vm_update_boot(v) == Append(order, v)

\* The virtual devices are set up, the VM is put on the boot list, its first
\* vCPU is switched on.
FinishVm == /\ pc = "devmem" /\ k > Len(DeviceRanges)
            /\ \/ /\ order' = vm_update_boot(cur)
                  /\ started' = [started EXCEPT ![cur] = <<Address(m, "kernel"), karg>>]
                  /\ IF cur < Len(mf) THEN cur' = cur + 1 /\ Goto("vm_init")
                     ELSE cur' = 1 /\ Goto("verify")
               \/ Fails /\ UNCHANGED <<cur, order, started>>
            /\ k' = 1
            /\ UNCHANGED <<pmaVars, mf, part, at, pas, comps, todo, karg, irqs, sw, clash, ignored, faults>>

----------------------------------------------------------------------------
\* tee_mediator_ops.vm_init, for all VMs.
Verify == /\ pc = "verify"
          /\ IF sw THEN Goto("devices") \/ Fails ELSE Goto("devices")
          /\ UNCHANGED <<pmaVars, k>> /\ KeepLoading

\* load_devices
MapDevice == /\ pc = "devices" /\ k <= Len(m.devices)
             /\ LET r == m.devices[k]
                IN  \/ VmMap(cur, r[1], r[1], r[2], "rwd") /\ UNCHANGED pc
                    \/ UNCHANGED s2 /\ Fails
             /\ k' = k + 1 /\ UNCHANGED <<own, last, cache, hyp, ret>> /\ KeepLoading

\* load_common: the interrupts of all devices, then the SMMU.
LoadCommonAgain ==
  /\ pc = "devices" /\ k > Len(m.devices)
  /\ irqs' = [irqs EXCEPT ![cur] = m.interrupts] /\ k' = 1
  /\ UNCHANGED <<pmaVars, pc, cur, mf, part, at, pas, comps, todo, karg, order, started, sw, clash, ignored, faults>>

load_common == /\ pc = "devices" /\ k > Len(m.devices)
               /\ \/ /\ Len(m.interrupts) <= MaxInterrupts
                     /\ irqs' = [irqs EXCEPT ![cur] = m.interrupts]
                     /\ IF cur < Len(mf) THEN cur' = cur + 1 /\ UNCHANGED pc
                        ELSE cur' = cur /\ Goto("booted")
                  \/ Fails /\ UNCHANGED <<irqs, cur>>
               /\ k' = 1
               /\ UNCHANGED <<pmaVars, mf, part, at, pas, comps, todo, karg, order, started, sw, clash, ignored, faults>>

Next == \/ mm_init \/ MapSection \/ SectionsDone \/ MapFdtHeader \/ ReleaseFdtHeader \/ MapFdt
        \/ MapInitrd \/ Probe \/ fdt_unmap \/ vm_init_next
        \/ load_kernel \/ load_fdt \/ load_ramdisk
        \/ AssignComponent \/ FreeComponent \/ SkipComponent
        \/ CheckLayout \/ SkipGap \/ IdentityGap \/ StartGap \/ pma_aligned_alloc_with_split
        \/ FreeRamDone \/ MapGic \/ AllocVgic \/ MapVgic \/ MapDeviceMemory \/ FinishVm
        \/ Verify \/ MapDevice \/ load_common

\* The boot CPU keeps executing.
Spec == Init /\ [][Next]_vars /\ WF_vars(Next)

----------------------------------------------------------------------------
Over == pc \in {"booted", "panic"}
Loaded == {order[i] : i \in DOMAIN order}
Accessible(e) == e.mode \in {"r", "rw", "rwx"} /\ e.pa \in PageNumbers
\* load_vm takes a kernel and a RAM disk at one address for one component.
Tie(x) == x.kernel = x.ramdisk

\* Memory a VM can reach is its own and nobody else's, from the first mapping
\* on; a component's pages are shared with the hypervisor until pma_free.
\* The exception is an identity-mapped region that was already in use, for
\* mm_identity_map_and_reserve ignores the failed reservation.
OnlyOwnMemory == ~clash => \A v \in Vms, i \in Ipas : Accessible(s2[v][i]) =>
  LET p == s2[v][i].pa
  IN  own[p] = {v} \/ (pc = "free" /\ v = cur /\ own[p] = {v, HYPERVISOR_ID})

\* The hypervisor maps no memory it does not own: what it gave to a VM it can
\* no longer reach, unless a result that load.c ignores was a failure.
HypervisorLetsGo == ~clash /\ ~ignored /\ pc \notin {"fdt_full", "panic"} =>
  \A p \in PageNumbers : hyp[p] # "none" => HYPERVISOR_ID \in own[p]

\* A loaded VM has all of its RAM: every guest page between the lowest
\* component and its memory size is mapped, to a page of its own, whatever
\* pieces the free RAM had to be had in; and its device tree is read-only.
RamComplete == ~clash /\ ~ignored => \A v \in Loaded :
  LET x == mf[v]
      ram == MemBegin(x) .. MemEnd(x) - 1
  IN  ~Tie(x) =>
        /\ \A i \in ram : Accessible(s2[v][i])
        /\ \A i, j \in ram : s2[v][i].pa = s2[v][j].pa => i = j
        /\ \A i \in x.fdt .. x.fdt + x.size["fdt"] - 1 : s2[v][i].mode = "r"

\* A kernel or RAM disk lies at the same offset in a block as its guest
\* address, so that it can be mapped by blocks.
BlocksAligned == \A v \in Vms : ~mf[v].identity_mapping => \A c \in {"kernel", "ramdisk"} :
  pas[v][c] # NULL => pas[v][c] % LevelPages = Address(mf[v], c) % LevelPages

\* The overlap check sees every component, in order: it refuses a layout
\* exactly if two components overlap.
Overlap(x, v) == \E c, d \in Parts : /\ c # d /\ Size(x, v, c) > 0 /\ Size(x, v, d) > 0
  /\ Address(x, c) <= Address(x, d) /\ Address(x, d) < Address(x, c) + Size(x, v, c)
LayoutChecked == pc = "layout" /\ ~Tie(m) => (NoOverlap <=> ~Overlap(m, cur))

\* A VM with a device tree is started with the tree's guest address -- or with
\* its physical one, if kernel_arg held that number when it was loaded.
StartsWithOwnTree == \A v \in Loaded : mf[v].size["fdt"] > 0 =>
  started[v] \in {<<mf[v].kernel, mf[v].fdt>>, <<mf[v].kernel, pas[v]["fdt"]>>}

\* At the end of the boot the hypervisor holds its image, the pages array, the
\* fault page, the RAM disk and the virtual GICs; the rest is free or mapped
\* by its owner (a RAM disk at its kernel's address keeps pages nobody maps).
Static == UNION ({Sections[i][1] .. Sections[i][2] - 1 : i \in DOMAIN Sections}
                 \union {Initrd[1] .. Initrd[2] - 1, {FAULT_PAGE_NUMBER},
                         ArrayBegin .. ArrayBegin + ArrayPages})
AllAccounted == pc = "booted" /\ ~clash /\ ~ignored => \A p \in PageNumbers :
  /\ HYPERVISOR_ID \in own[p] <=> p \in Static \/ \E v \in Vms, i \in Ipas : s2[v][i] = [pa |-> p, mode |-> "d"]
  /\ \A v \in Vms : ~Tie(mf[v]) =>
       (v \in own[p] <=> \E i \in Ipas : Accessible(s2[v][i]) /\ s2[v][i].pa = p)

\* The hypervisor keeps nothing it has given away (unmap_memory, pma_free), at
\* any step of the boot, and nothing but what it needs when the boot is over.
MemoryAccounted == HypervisorLetsGo /\ AllAccounted


\* The boot comes to an end, in the VMs or in a panic: no loop over sections,
\* gaps, pieces, VMs or devices goes on for ever.
BootEnds == <>Over
=============================================================================
