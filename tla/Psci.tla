-------------------------------- MODULE Psci --------------------------------
(***************************************************************************)
(* Power management of the physical CPUs: the PSCI adapter offered to VM 1 *)
(* and VM 2 (psci_primary_vm_handler), the on/off bookkeeping of cpu.c,    *)
(* the entry path of a CPU that comes up (cpu_main), and the start of the  *)
(* secondary VMs at the end of one_time_init.  The firmware at EL3 is      *)
(* external: it is modelled by the answers the handler distinguishes.      *)
(*                                                                         *)
(* vCPUs are pinned: vCPU i of a VM only ever runs on vm->cpus[i], so the  *)
(* saved registers of a vCPU are indexed by its physical CPU.  The         *)
(* critical sections of cpu_on, cpu_off and vcpu_on hold one lock and      *)
(* touch only what it guards; each is one atomic step.                     *)
(***************************************************************************)
EXTENDS Naturals, Sequences

CONSTANTS
  Cpu,            \* physical CPUs
  BootCpu,        \* the CPU with id 0x0, which runs one_time_init
  NoCpu,          \* CPU_ERROR_INVALID_ID
  VmCount,        \* VMs are 1..VmCount, VM 1 is the primary
  cpus,           \* vm->cpus: VM -> sequence of physical CPUs
  Affinity,       \* PSCI target arguments: records [Aff0, Aff1, Aff2]
  MT,             \* MPIDR_EL1.MT of the platform
  Entry,          \* entry points a guest may name
  KernelEntry,    \* boot_address of a VM, set by load_vm
  Resume,         \* saved pc: the instruction after the trapping call
  OffDenied       \* CPUs whose CPU_OFF the firmware refuses

CPUS_PER_CLUSTER == 4

Vm == 1..VmCount

RangeOf(s) == {s[i] : i \in 1..Len(s)}

ASSUME PsciAssumption ==
  /\ VmCount \in Nat \ {0}
  /\ cpus \in [Vm -> Seq(Cpu)]
  /\ \A v \in Vm : Len(cpus[v]) > 0
  /\ \A v, w \in Vm : \A i \in 1..Len(cpus[v]), j \in 1..Len(cpus[w]) :
        cpus[v][i] = cpus[w][j] => v = w /\ i = j
  /\ BootCpu = cpus[1][1]
  /\ Cpu = UNION {RangeOf(cpus[v]) : v \in Vm}
  /\ NoCpu \notin Cpu
  /\ Resume \notin Entry
  /\ KernelEntry \notin Entry \cup {Resume}
  /\ OffDenied \subseteq Cpu
  /\ MT \in BOOLEAN
  /\ \A a \in Affinity : a \in [Aff0 : Nat, Aff1 : Nat, Aff2 : Nat]

VARIABLES
  is_on,       \* struct cpu: is_on
  regs,        \* pc of the saved registers of the vCPU pinned to the CPU
  vcpu_state,  \* struct vcpu: state
  el3,         \* power state the firmware keeps per CPU
  pc,          \* step of the hypervisor the CPU is in, or "guest" or "down"
  conduit,     \* instruction that entered the handler
  tgt,         \* local c of the PSCI_CPU_ON case
  ent,         \* its entry point argument
  next_vm,     \* loop counter of one_time_init
  granted      \* history: entry point of the start the firmware accepted

vars == <<is_on, regs, vcpu_state, el3, pc, conduit, tgt, ent, next_vm, granted>>

Steps == {"down", "init", "boot", "guest", "on_vcpu", "on_smc", "on_fail",
          "off_smc", "suspend", "panic"}

-----------------------------------------------------------------------------
\* aff_to_no and mpidr_to_no: which affinity field numbers the CPU depends on
\* the MT bit of the real MPIDR, not on the argument.
aff_to_no(a) ==
  IF MT THEN a.Aff2 * CPUS_PER_CLUSTER + a.Aff1
        ELSE a.Aff1 * CPUS_PER_CLUSTER + a.Aff0

\* Mutant: CPUs are numbered across the VMs.
psci_check_permissionGlobal(vm, a) ==
  LET all == cpus[1] \o cpus[VmCount] IN
  IF aff_to_no(a) < Len(all) THEN all[aff_to_no(a) + 1] ELSE NoCpu

\* psci_check_permission: the vCPU number named by the guest is looked up in
\* the list of CPUs of its own VM.
psci_check_permission(vm, a) ==
  IF aff_to_no(a) < Len(cpus[vm]) THEN cpus[vm][aff_to_no(a) + 1] ELSE NoCpu

\* vm_find_from_cpu: CPU 0x0 belongs to the first VM of the boot list.
vm_find_from_cpu(p) ==
  IF p = BootCpu THEN 1
  ELSE CHOOSE v \in Vm : \E i \in 1..Len(cpus[v]) : cpus[v][i] = p

\* The CPUs one_time_init starts with a raw SMC, without cpu_on.
InitStarted == {cpus[v][1] : v \in Vm \ {1}}

\* PSCI_AFFINITY_INFO of a permitted target.
AffinityInfo(c) == IF is_on[c] THEN "ON" ELSE "OFF"

-----------------------------------------------------------------------------
\* State at the top of the loop at the end of one_time_init: every VM is
\* loaded, its vCPU 0 is ready at the kernel entry, only the boot CPU is on.
Init ==
  /\ is_on = [c \in Cpu |-> c = BootCpu]
  /\ regs = [c \in Cpu |-> IF c \in InitStarted \cup {BootCpu}
                           THEN KernelEntry ELSE Resume]
  /\ vcpu_state = [c \in Cpu |-> IF c \in InitStarted \cup {BootCpu}
                                 THEN "READY" ELSE "OFF"]
  /\ el3 = [c \in Cpu |-> IF c = BootCpu THEN "on" ELSE "off"]
  /\ pc = [c \in Cpu |-> IF c = BootCpu THEN "init" ELSE "down"]
  /\ conduit = [c \in Cpu |-> "smc"]
  /\ tgt = [c \in Cpu |-> NoCpu]
  /\ ent = [c \in Cpu |-> Resume]
  /\ next_vm = VmCount
  /\ granted = [c \in Cpu |-> KernelEntry]

\* Return from the handler to the guest.  The SMC path restores the pc it saw
\* on entry plus one instruction; the HVC path keeps what the handler left.
ReturnTo(p) ==
  /\ pc' = [pc EXCEPT ![p] = "guest"]
  /\ conduit' = [conduit EXCEPT ![p] = "smc"]
  /\ tgt' = [tgt EXCEPT ![p] = NoCpu]
  /\ ent' = [ent EXCEPT ![p] = Resume]
  /\ regs' = [regs EXCEPT ![p] = IF conduit[p] = "smc" THEN Resume ELSE @]

-----------------------------------------------------------------------------
\* Firmware (external).

\* PSCI_CPU_ON accepted: the CPU will come up at cpu_entry with x0 = c.
El3Accept(c, e) ==
  /\ el3[c] = "off"
  /\ el3' = [el3 EXCEPT ![c] = "pending"]
  /\ granted' = [granted EXCEPT ![c] = e]

\* A CPU released from reset or woken from a power-down suspend enters
\* cpu_entry.
El3Start(c) ==
  /\ \/ el3[c] = "pending" /\ pc[c] = "down"
     \/ pc[c] = "suspend"
  /\ el3' = [el3 EXCEPT ![c] = "on"]
  /\ pc' = [pc EXCEPT ![c] = "boot"]
  /\ conduit' = [conduit EXCEPT ![c] = "smc"]
  /\ UNCHANGED <<is_on, regs, vcpu_state, tgt, ent, next_vm, granted>>

-----------------------------------------------------------------------------

\* one_time_init: VMs are started in reverse order, the answer of the
\* firmware is not looked at.
StartSecondaryVm ==
  /\ pc[BootCpu] = "init"
  /\ next_vm > 1
  /\ \/ El3Accept(cpus[next_vm][1], regs[cpus[next_vm][1]])
     \/ UNCHANGED <<el3, granted>>
  /\ next_vm' = next_vm - 1
  /\ UNCHANGED <<is_on, regs, vcpu_state, pc, conduit, tgt, ent>>

InitDone ==
  /\ pc[BootCpu] = "init"
  /\ next_vm = 1
  /\ pc' = [pc EXCEPT ![BootCpu] = "boot"]
  /\ UNCHANGED <<is_on, regs, vcpu_state, el3, conduit, tgt, ent, next_vm, granted>>

\* cpu_main, vcpu_reset and vcpu_restore_all_and_run: the registers are reset
\* except pc and x0, then the vCPU runs.
cpu_main(p) ==
  /\ pc[p] = "boot"
  /\ pc' = [pc EXCEPT ![p] = "guest"]
  /\ UNCHANGED <<is_on, regs, vcpu_state, el3, conduit, tgt, ent, next_vm, granted>>

-----------------------------------------------------------------------------
\* cpu_on returns the previous is_on, which the handler checks.
cpu_on(c) == ~is_on[c] /\ is_on' = [is_on EXCEPT ![c] = TRUE]

\* PSCI_CPU_ON up to the end of the critical section of cpu_on.
PsciCpuOn(p, via, a, e) ==
  LET c == psci_check_permission(vm_find_from_cpu(p), a) IN
  /\ pc[p] = "guest"
  /\ c # NoCpu
  /\ cpu_on(c)
  /\ regs' = [regs EXCEPT ![p] = Resume]
  /\ pc' = [pc EXCEPT ![p] = "on_vcpu"]
  /\ conduit' = [conduit EXCEPT ![p] = via]
  /\ tgt' = [tgt EXCEPT ![p] = c]
  /\ ent' = [ent EXCEPT ![p] = e]
  /\ UNCHANGED <<vcpu_state, el3, next_vm, granted>>

\* The calls answered without leaving EL2, which change no state: CPU_ON of a
\* CPU that is on (ALREADY_ON), AFFINITY_INFO, VERSION, FEATURES, calls that
\* are not supported, and any call without permission.  The registers saved
\* on entry are the ones restored.
PsciAnswered(p) ==
  /\ pc[p] = "guest"
  /\ regs' = [regs EXCEPT ![p] = Resume]
  /\ UNCHANGED <<is_on, vcpu_state, el3, pc, conduit, tgt, ent, next_vm, granted>>

\* Mutant: vcpu_on marks the vCPU ready without its entry point.
vcpu_onNoEntry(c, e) == vcpu_state' = [vcpu_state EXCEPT ![c] = "READY"] /\ UNCHANGED regs

vcpu_on(c, e) ==
  /\ regs' = [regs EXCEPT ![c] = e]
  /\ vcpu_state' = [vcpu_state EXCEPT ![c] = "READY"]

\* cpu_on, second part: vcpu_on for the vCPU of the CPU.
cpu_on_vcpu(p) ==
  /\ pc[p] = "on_vcpu"
  /\ vcpu_on(tgt[p], ent[p])
  /\ pc' = [pc EXCEPT ![p] = "on_smc"]
  /\ UNCHANGED <<is_on, el3, conduit, tgt, ent, next_vm, granted>>

\* One round of the loop around the PSCI_CPU_ON call to the firmware.  While
\* the firmware answers ALREADY_ON the loop goes round (a stuttering step).
CpuOnAccepted(p) ==
  /\ pc[p] = "on_smc"
  /\ El3Accept(tgt[p], ent[p])
  /\ ReturnTo(p)
  /\ UNCHANGED <<is_on, vcpu_state, next_vm>>

CpuOnRefused(p) ==
  /\ pc[p] = "on_smc"
  /\ el3[tgt[p]] # "on"
  /\ pc' = [pc EXCEPT ![p] = "on_fail"]
  /\ UNCHANGED <<is_on, regs, vcpu_state, el3, conduit, tgt, ent, next_vm, granted>>

\* Mutant: the loop goes round on every error.
CpuOnUndoRetry(p) ==
  /\ pc[p] = "on_fail"
  /\ pc' = [pc EXCEPT ![p] = "on_smc"]
  /\ UNCHANGED <<is_on, regs, vcpu_state, el3, conduit, tgt, ent, next_vm, granted>>

\* Any other failure: cpu_off(c), then the error is returned.
CpuOnUndo(p) ==
  /\ pc[p] = "on_fail"
  /\ is_on' = [is_on EXCEPT ![tgt[p]] = FALSE]
  /\ ReturnTo(p)
  /\ UNCHANGED <<vcpu_state, el3, next_vm, granted>>

-----------------------------------------------------------------------------
\* Mutant: the CPU named by the argument is marked off, not the caller.
PsciCpuOffNamed(p, a) ==
  LET c == psci_check_permission(vm_find_from_cpu(p), a) IN
  /\ pc[p] = "guest"
  /\ c # NoCpu
  /\ is_on' = [is_on EXCEPT ![c] = FALSE]
  /\ regs' = [regs EXCEPT ![p] = Resume]
  /\ pc' = [pc EXCEPT ![p] = "off_smc"]
  /\ UNCHANGED <<vcpu_state, el3, conduit, tgt, ent, next_vm, granted>>

\* PSCI_CPU_OFF: cpu_off of the calling CPU, then the firmware call.
PsciCpuOff(p, a) ==
  /\ pc[p] = "guest"
  /\ psci_check_permission(vm_find_from_cpu(p), a) # NoCpu
  /\ is_on' = [is_on EXCEPT ![p] = FALSE]
  /\ regs' = [regs EXCEPT ![p] = Resume]
  /\ pc' = [pc EXCEPT ![p] = "off_smc"]
  /\ UNCHANGED <<vcpu_state, el3, conduit, tgt, ent, next_vm, granted>>

CpuOffSmc(p) ==
  /\ pc[p] = "off_smc"
  /\ IF p \in OffDenied
     THEN /\ pc' = [pc EXCEPT ![p] = "panic"]
          /\ UNCHANGED el3
     ELSE /\ pc' = [pc EXCEPT ![p] = "down"]
          /\ el3' = [el3 EXCEPT ![p] = "off"]
  /\ UNCHANGED <<is_on, regs, vcpu_state, conduit, tgt, ent, next_vm, granted>>

-----------------------------------------------------------------------------
\* PSCI_CPU_SUSPEND: the pc is set to the wake-up entry before the firmware
\* is called.
PsciCpuSuspend(p, via, a, e) ==
  /\ pc[p] = "guest"
  /\ psci_check_permission(vm_find_from_cpu(p), a) # NoCpu
  /\ regs' = [regs EXCEPT ![p] = e]
  /\ pc' = [pc EXCEPT ![p] = "suspend"]
  /\ conduit' = [conduit EXCEPT ![p] = via]
  /\ granted' = [granted EXCEPT ![p] = e]
  /\ UNCHANGED <<is_on, vcpu_state, el3, tgt, ent, next_vm>>

\* The suspend call fails or was a standby state: the SMC returns.
SuspendReturns(p) ==
  /\ pc[p] = "suspend"
  /\ ReturnTo(p)
  /\ UNCHANGED <<is_on, vcpu_state, el3, next_vm, granted>>

-----------------------------------------------------------------------------
\* PSCI_SYSTEM_OFF and PSCI_SYSTEM_RESET do not return; the next power-up
\* starts over.
PsciSystemReset(p) ==
  /\ pc[p] = "guest"
  /\ is_on' = [c \in Cpu |-> c = BootCpu]
  /\ regs' = [c \in Cpu |-> IF c \in InitStarted \cup {BootCpu}
                            THEN KernelEntry ELSE Resume]
  /\ vcpu_state' = [c \in Cpu |-> IF c \in InitStarted \cup {BootCpu}
                                  THEN "READY" ELSE "OFF"]
  /\ el3' = [c \in Cpu |-> IF c = BootCpu THEN "on" ELSE "off"]
  /\ pc' = [c \in Cpu |-> IF c = BootCpu THEN "init" ELSE "down"]
  /\ conduit' = [c \in Cpu |-> "smc"]
  /\ tgt' = [c \in Cpu |-> NoCpu]
  /\ ent' = [c \in Cpu |-> Resume]
  /\ next_vm' = VmCount
  /\ granted' = [c \in Cpu |-> KernelEntry]

-----------------------------------------------------------------------------
\* Steps the hypervisor or the firmware takes on its own, without the guest.
HandlerStep(p) ==
  cpu_main(p) \/ cpu_on_vcpu(p) \/ CpuOnAccepted(p) \/ CpuOnRefused(p)
  \/ CpuOnUndo(p) \/ CpuOffSmc(p)

\* psci_handler: only VM 1 and VM 2 reach psci_primary_vm_handler.
GuestCall(p) ==
  /\ vm_find_from_cpu(p) \in {1, 2}
  /\ \/ PsciAnswered(p)
     \/ \E a \in Affinity : PsciCpuOff(p, a)
     \/ \E via \in {"smc", "hvc"}, a \in Affinity, e \in Entry :
           PsciCpuOn(p, via, a, e) \/ PsciCpuSuspend(p, via, a, e)
     \/ PsciSystemReset(p)

Next ==
  \/ StartSecondaryVm
  \/ InitDone
  \/ \E p \in Cpu : El3Start(p) \/ HandlerStep(p) \/ SuspendReturns(p) \/ GuestCall(p)

Fairness ==
  /\ WF_vars(StartSecondaryVm \/ InitDone)
  /\ \A p \in Cpu : WF_vars(HandlerStep(p)) /\ WF_vars(el3[p] = "pending" /\ El3Start(p))

Spec == Init /\ [][Next]_vars

FairSpec == Spec /\ Fairness

-----------------------------------------------------------------------------
\* Type invariant.
TypeOK ==
  /\ is_on \in [Cpu -> BOOLEAN]
  /\ regs \in [Cpu -> Entry \cup {KernelEntry, Resume}]
  /\ vcpu_state \in [Cpu -> {"OFF", "READY"}]
  /\ el3 \in [Cpu -> {"off", "pending", "on"}]
  /\ pc \in [Cpu -> Steps]
  /\ conduit \in [Cpu -> {"smc", "hvc"}]
  /\ tgt \in [Cpu -> Cpu \cup {NoCpu}]
  /\ ent \in [Cpu -> Entry \cup {Resume}]
  /\ next_vm \in Vm
  /\ granted \in [Cpu -> Entry \cup {KernelEntry, Resume}]

\* The CPUs whose power state only ever changes through cpu_on and cpu_off.
Managed == Cpu \ InitStarted

\* A CPU that AFFINITY_INFO reports as OFF runs no guest code and is not on
\* its way to: it is powered down, or past cpu_off and about to power down.
OffMeansStopped ==
  \A c \in Managed : AffinityInfo(c) = "OFF" =>
     /\ pc[c] \in {"down", "off_smc", "panic"}
     /\ el3[c] # "pending"

\* While the CPU_ON loop is told ALREADY_ON, the target is on its way down:
\* the reason the comment of the loop gives for going round.
RetryOnlyWhileTurningOff ==
  \A p \in Cpu : pc[p] = "on_smc" /\ tgt[p] \in Managed /\ el3[tgt[p]] = "on" =>
     pc[tgt[p]] \in {"off_smc", "panic"}

\* A CPU comes up at the entry point given by the one CPU_ON call the firmware
\* accepted (or by its own suspend call): no racing caller overwrites the pc
\* between vcpu_on and cpu_main.
StartsAtGrantedEntry ==
  \A c \in Managed : pc[c] = "boot" \/ el3[c] = "pending" => regs[c] = granted[c]

\* The CPU a handler is switching on belongs to the VM of the caller, although
\* guests number CPUs from 0 in every VM: no VM reaches the CPUs of another.
TargetsOwnVm ==
  \A p \in Cpu : tgt[p] # NoCpu => vm_find_from_cpu(tgt[p]) = vm_find_from_cpu(p)

\* A CPU_ON call to a CPU whose CPU_OFF the firmware honours returns to its
\* caller: the loop ends.
CpuOnReturns ==
  \A p \in Cpu : (pc[p] \in {"on_vcpu", "on_smc", "on_fail"} /\ tgt[p] \in Managed \ OffDenied)
     ~> pc[p] \notin {"on_vcpu", "on_smc", "on_fail"}

\* The comment of the loop, for every CPU: "We need to loop here while it is
\* reported that the CPU is on (because it's about to turn itself off)".
LoopOnlyWhileTurningOff ==
  \A p \in Cpu : pc[p] = "on_smc" /\ el3[tgt[p]] = "on" => pc[tgt[p]] = "off_smc"
=============================================================================
