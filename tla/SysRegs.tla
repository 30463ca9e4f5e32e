------------------------------- MODULE SysRegs -------------------------------
(***************************************************************************)
(* Trapped system registers: which handler takes an MSR or MRS, what it    *)
(* does with it, which features a VM is shown, and where the SGIs it sends *)
(* go (hypervisor/perfmon.c, debug_el1.c, feature_id.c, vm.c, emulator.c). *)
(*                                                                         *)
(* A register is its encoding <<op0, op1, CRn, CRm, op2>>.  An ID register *)
(* is the set of shifts of its nonzero fields.                             *)
(***************************************************************************)
EXTENDS Integers, Sequences

PRIMARY == 1        \* PG_PRIMARY_VM_ID
CPUS_PER_CLUSTER == 4

----------------------------------------------------------------------------
PERFMON_REGISTERS_READ ==
  {<<3, 3, 9, 12, k>> : k \in {6, 7}}
    \union {<<3, 3, 14, 8 + (k \div 8), k % 8>> : k \in 0 .. 30}
PERFMON_REGISTERS_WRITE == {<<3, 3, 9, 12, 4>>}
PERFMON_REGISTERS_READ_WRITE ==
  {<<3, 0, 9, 14, k>> : k \in {1, 2}} \union {<<3, 3, 9, 12, k>> : k \in {0, 1, 2, 3, 5}}
    \union {<<3, 3, 9, 13, k>> : k \in 0 .. 2} \union {<<3, 3, 9, 14, k>> : k \in {0, 3}}
    \union {<<3, 3, 14, 12 + (k \div 8), k % 8>> : k \in 0 .. 31}

perfmon_is_register_access(e) ==
  /\ e[1] = 3
  /\ \/ e[2] = 0 /\ e[3] = 9 /\ e[4] = 14
     \/ e[2] = 3 /\ e[3] = 14 /\ e[4] \in 8 .. 15
     \/ e[2] = 3 /\ e[3] = 9 /\ e[4] \in 12 .. 14

EL1_DEBUG_REGISTERS_READ == {<<2, 0, 1, 0, 0>>, <<2, 0, 1, 1, 4>>, <<2, 0, 7, 14, 6>>}
EL1_DEBUG_REGISTERS_WRITE == {<<2, 0, 1, 0, 4>>}
EL1_DEBUG_REGISTERS_READ_WRITE ==
  {<<2, 0, 0, k, 2>> : k \in {0, 2, 3, 6}} \union {<<2, 0, 0, 2, 0>>}
    \union {<<2, 0, 0, k, j>> : k \in 0 .. 15, j \in 4 .. 7}
    \union {<<2, 0, 1, k, 4>> : k \in {3, 4}} \union {<<2, 0, 7, k, 6>> : k \in {8, 9}}
debug_el1_is_register_access(e) == e[1] = 2 /\ e[2] # 1

FEATURE_ID_REGISTERS_READ ==
  {<<3, 0, 0, 1, k>> : k \in 0 .. 7} \union {<<3, 0, 0, 2, k>> : k \in 0 .. 6}
    \union {<<3, 0, 0, m, k>> : m \in {3, 7}, k \in 0 .. 2}
    \union {<<3, 0, 0, m, k>> : m \in 4 .. 6, k \in 0 .. 1}
    \union {<<3, 0, 0, 5, k>> : k \in 4 .. 5}
feature_id_is_register_access(e) == e[1] = 3 /\ e[2] = 0 /\ e[3] = 0 /\ e[4] \in 1 .. 7

ICC_SGI1R_EL1 == <<3, 0, 12, 11, 5>>
ICC_REGISTERS_READ ==
  {<<3, 0, 4, 6, 0>>, <<3, 0, 12, 11, 3>>} \union {<<3, 0, 12, m, k>> : m \in {8, 12}, k \in 0 .. 7 \ {1}}
    \union {<<3, 0, 12, 9, k>> : k \in 0 .. 3}
ICC_REGISTERS_WRITE ==
  {<<3, 0, 4, 6, 0>>} \union {<<3, 0, 12, m, k>> : m \in {8, 12}, k \in {1, 3, 4, 5, 6, 7}}
    \union {<<3, 0, 12, 9, k>> : k \in 0 .. 3} \union {<<3, 0, 12, 11, k>> : k \in {1, 5, 6, 7}}
icc_icv_is_register_access(e) ==
  e[1] = 3 /\ e[2] = 0 /\ ((e[3] = 12 /\ e[4] \in 8 .. 12) \/ (e[3] = 4 /\ e[4] = 6))

CACHE_OPERATIONS == {<<1, 0, 7, 6, 1>>, <<1, 0, 7, 6, 2>>, <<1, 0, 7, 10, 2>>, <<1, 0, 7, 14, 2>>}
is_cache_maintenance(e) == e[1] = 1 /\ e[2] = 0 /\ e[3] = 7 /\ e[4] \in {6, 10, 14}

----------------------------------------------------------------------------
\* What a handler does with a register: "real" reads or writes it, "keep"
\* leaves both sides as they are, "raz" reads zero, "refuse" is an exception.
perfmon_process_access(e, read, vm) ==
  IF vm # PRIMARY THEN "refuse"
  ELSE IF e \in PERFMON_REGISTERS_READ_WRITE
            \union (IF read THEN PERFMON_REGISTERS_READ ELSE PERFMON_REGISTERS_WRITE)
       THEN "real" ELSE "keep"

debug_el1_process_access(e, read) ==
  IF e \in EL1_DEBUG_REGISTERS_READ_WRITE
        \union (IF read THEN EL1_DEBUG_REGISTERS_READ ELSE EL1_DEBUG_REGISTERS_WRITE)
  THEN "real" ELSE "keep"

feature_id_process_access(e, read) ==
  IF ~read THEN "keep" ELSE IF e \in FEATURE_ID_REGISTERS_READ THEN "real" ELSE "raz"

icc_icv_process_access(e, read) ==
  IF e \in (IF read THEN ICC_REGISTERS_READ ELSE ICC_REGISTERS_WRITE) THEN "real" ELSE "refuse"

\* A cache operation is one even if the syndrome says it reads.
process_cache_maintenance(e) == IF e \in CACHE_OPERATIONS THEN "real" ELSE "refuse"

\* handle_system_register_access: the first handler that claims the register.
Outcome(e, read, vm) ==
  CASE debug_el1_is_register_access(e) -> debug_el1_process_access(e, read)
    [] ~debug_el1_is_register_access(e) /\ perfmon_is_register_access(e) -> perfmon_process_access(e, read, vm)
    [] feature_id_is_register_access(e) -> feature_id_process_access(e, read)
    [] icc_icv_is_register_access(e) -> icc_icv_process_access(e, read)
    [] is_cache_maintenance(e) -> process_cache_maintenance(e)
    [] OTHER -> "refuse"

----------------------------------------------------------------------------
ID_AA64MMFR1_EL1 == <<3, 0, 0, 7, 1>>
ID_AA64PFR0_EL1 == <<3, 0, 0, 4, 0>>
ID_AA64DFR0_EL1 == <<3, 0, 0, 5, 0>>
ID_AA64ISAR1_EL1 == <<3, 0, 0, 6, 1>>

\* The fields the architecture gives a feature.
Fields == [RAS |-> {<<ID_AA64MMFR1_EL1, 24>>, <<ID_AA64PFR0_EL1, 28>>},
           LOR |-> {<<ID_AA64MMFR1_EL1, 16>>},
           PERFMON |-> {<<ID_AA64DFR0_EL1, 8>>},
           DEBUG |-> {<<ID_AA64DFR0_EL1, 36>>},
           SPE |-> {<<ID_AA64DFR0_EL1, 32>>},
           TRACE |-> {<<ID_AA64DFR0_EL1, 40>>, <<ID_AA64DFR0_EL1, 4>>},
           PAUTH |-> {<<ID_AA64ISAR1_EL1, s>> : s \in {4, 8, 24, 28}},
           VHE |-> {<<ID_AA64MMFR1_EL1, 8>>}]
Shown(e) == {f[2] : f \in {g \in UNION {Fields[k] : k \in DOMAIN Fields} : g[1] = e}}

arch_vm_features_set(vm) ==
  {"LOR", "SPE", "TRACE", "DEBUG"} \union (IF vm # PRIMARY THEN {"PERFMON", "RAS", "PAUTH"} ELSE {})

\* The masks the code takes out; those of LOR and of APA are other fields'.
tid3_masks ==
  {<<"RAS", ID_AA64MMFR1_EL1, 24>>, <<"RAS", ID_AA64PFR0_EL1, 28>>, <<"LOR", ID_AA64MMFR1_EL1, 24>>,
   <<"PERFMON", ID_AA64DFR0_EL1, 8>>, <<"DEBUG", ID_AA64DFR0_EL1, 36>>, <<"SPE", ID_AA64DFR0_EL1, 32>>,
   <<"TRACE", ID_AA64DFR0_EL1, 40>>, <<"TRACE", ID_AA64DFR0_EL1, 4>>,
   <<"PAUTH", ID_AA64ISAR1_EL1, 8>>, <<"PAUTH", ID_AA64ISAR1_EL1, 24>>, <<"PAUTH", ID_AA64ISAR1_EL1, 28>>,
   <<"VHE", ID_AA64MMFR1_EL1, 8>>}

FilterShown(e, vm) ==
  Shown(e) \ {m[3] : m \in {n \in tid3_masks : /\ n[1] \in arch_vm_features_set(vm) \union {"VHE"}
                                              /\ n[2] = e /\ n[3] # 40}}

\* feature_set_traps adds the mask of VHE to those of the features trapped.
IdValue(e, vm) ==
  Shown(e) \ {m[3] : m \in {n \in tid3_masks : n[1] \in arch_vm_features_set(vm) \union {"VHE"} /\ n[2] = e}}

----------------------------------------------------------------------------
\* Affinities of CPU k: without MPIDR.MT the CPU number is in Aff0.
mpidr_to_no(mt, aff2, aff1, aff0) ==
  IF mt THEN aff2 * CPUS_PER_CLUSTER + aff1 ELSE aff1 * CPUS_PER_CLUSTER + aff0

\* The CPUs that a write to ICC_SGI1R_EL1 reaches when it names vCPU k of a VM
\* on the CPUs in list.  The number is taken from Aff2 and Aff1 only, and the
\* target list becomes its first bit: without MT that is CPU 0 of a cluster.
Sgi(mt, list, k, irm, self, all) ==
  LET no == IF mt THEN mpidr_to_no(mt, k \div CPUS_PER_CLUSTER, k % CPUS_PER_CLUSTER, 0)
            ELSE mpidr_to_no(mt, 0, k \div CPUS_PER_CLUSTER, 0)
      pcpu == list[no + 1]
  IN  IF irm THEN all \ {self}
      ELSE IF no >= Len(list) THEN {k}
      ELSE IF mt THEN {pcpu} ELSE {(pcpu \div CPUS_PER_CLUSTER) * CPUS_PER_CLUSTER}
=============================================================================
