----------------------------- MODULE PsciProofs -----------------------------
(***************************************************************************)
(* The safety properties of Psci for every set of CPUs, every assignment   *)
(* of CPUs to VMs and every set of entry points.                           *)
(***************************************************************************)
EXTENDS Psci, TLAPS

OnSteps == {"on_vcpu", "on_smc", "on_fail"}

Stopped == {"down", "off_smc", "panic"}

\* p executes a PSCI_CPU_ON call that switches c on.
Starting(p, c) == pc[p] \in OnSteps /\ tgt[p] = c

-----------------------------------------------------------------------------
\* The inductive invariant, in parts.

TargetInv == \A p \in Cpu :
  /\ pc[p] \in OnSteps => tgt[p] \in Cpu /\ ent[p] \in Entry
  /\ tgt[p] # NoCpu => vm_find_from_cpu(tgt[p]) = vm_find_from_cpu(p)

PowerInv == \A c \in Cpu : el3[c] = "on" <=> pc[c] # "down"

OnInv == \A c \in Managed : pc[c] \notin Stopped \/ el3[c] = "pending" => is_on[c]

\* The caller that found is_on clear owns the start of the CPU until it
\* returns: nobody else starts it and it does not run.
OwnerInv == \A c \in Managed, p \in Cpu : Starting(p, c) =>
  /\ is_on[c]
  /\ pc[c] \in Stopped
  /\ el3[c] # "pending"
  /\ pc[p] = "on_smc" => regs[c] = ent[p]
  /\ \A q \in Cpu : Starting(q, c) => q = p

EntryInv == \A c \in Managed :
  pc[c] \in {"init", "boot", "suspend"} \/ el3[c] = "pending" => regs[c] = granted[c]

IInv == TypeOK /\ TargetInv /\ PowerInv /\ OnInv /\ OwnerInv /\ EntryInv

-----------------------------------------------------------------------------
\* Every CPU belongs to the VM vm_find_from_cpu answers, and to no other.
LEMMA VmOfCpu ==
  ASSUME NEW p \in Cpu
  PROVE  /\ vm_find_from_cpu(p) \in Vm
         /\ \E i \in 1..Len(cpus[vm_find_from_cpu(p)]) : cpus[vm_find_from_cpu(p)][i] = p
<1>1. CASE p = BootCpu
  BY <1>1, PsciAssumption DEF vm_find_from_cpu, Vm
<1>2. CASE p # BootCpu
  <2>1. \E v \in Vm : \E i \in 1..Len(cpus[v]) : cpus[v][i] = p
    BY PsciAssumption DEF RangeOf
  <2> QED BY <1>2, <2>1 DEF vm_find_from_cpu
<1> QED BY <1>1, <1>2

\* What psci_check_permission answers is CPU_ERROR_INVALID_ID or a CPU of the
\* VM that asks.
LEMMA PermissionSound ==
  ASSUME NEW p \in Cpu, NEW a \in Affinity,
         psci_check_permission(vm_find_from_cpu(p), a) # NoCpu
  PROVE  /\ psci_check_permission(vm_find_from_cpu(p), a) \in Cpu
         /\ vm_find_from_cpu(psci_check_permission(vm_find_from_cpu(p), a))
              = vm_find_from_cpu(p)
<1> DEFINE v == vm_find_from_cpu(p)
           n == aff_to_no(a)
           c == psci_check_permission(v, a)
<1>1. v \in Vm
  BY VmOfCpu
<1>2. n \in Nat
  BY PsciAssumption DEF aff_to_no, CPUS_PER_CLUSTER
<1>3. n < Len(cpus[v]) /\ c = cpus[v][n + 1]
  BY DEF psci_check_permission
<1>4. cpus[v] \in Seq(Cpu)
  BY <1>1, PsciAssumption
<1>5. n + 1 \in 1..Len(cpus[v])
  BY <1>2, <1>3, <1>4
<1>6. c \in Cpu
  BY <1>3, <1>4, <1>5
<1>7. vm_find_from_cpu(c) = v
  <2>1. PICK i \in 1..Len(cpus[vm_find_from_cpu(c)]) : cpus[vm_find_from_cpu(c)][i] = c
    BY <1>6, VmOfCpu
  <2>2. vm_find_from_cpu(c) \in Vm
    BY <1>6, VmOfCpu
  <2> QED BY <1>1, <1>3, <1>5, <2>1, <2>2, PsciAssumption
<1> QED BY <1>6, <1>7
-----------------------------------------------------------------------------
\* The state at the end of one_time_init satisfies the invariant.
LEMMA InitIInv == Init => IInv
<1> SUFFICES ASSUME Init PROVE IInv
  OBVIOUS
<1> USE PsciAssumption DEF Init
<1>1. BootCpu \in Cpu /\ VmCount \in Vm
  BY DEF Vm, RangeOf
<1>2. TypeOK
  BY <1>1 DEF TypeOK, Steps
<1>3. TargetInv
  BY DEF TargetInv, OnSteps
<1>4. PowerInv
  BY DEF PowerInv
<1>5. OnInv
  BY DEF OnInv, Stopped, Managed
<1>6. OwnerInv
  BY DEF OwnerInv, Starting, OnSteps, Managed
<1>7. EntryInv
  BY DEF EntryInv, Managed
<1> QED BY <1>2, <1>3, <1>4, <1>5, <1>6, <1>7 DEF IInv

\* Every step of the firmware, of a handler or of a guest preserves it.
LEMMA NextIInv == IInv /\ [Next]_vars => IInv'
<1> SUFFICES ASSUME IInv, [Next]_vars PROVE IInv'
  OBVIOUS
<1> USE DEF IInv, TypeOK, TargetInv, PowerInv, OnInv, OwnerInv, EntryInv,
            Starting, OnSteps, Stopped, Managed, Steps
<1>0. BootCpu \in Cpu /\ NoCpu \notin Cpu
  BY PsciAssumption DEF Vm, RangeOf
<1>1. CASE StartSecondaryVm
  <2>1. /\ next_vm - 1 \in Vm
        /\ cpus[next_vm][1] \in InitStarted
    BY <1>1, PsciAssumption DEF StartSecondaryVm, Vm, InitStarted
  <2> QED BY <1>1, <2>1 DEF StartSecondaryVm, El3Accept
<1>2. CASE InitDone
  BY <1>0, <1>2 DEF InitDone
<1>3. ASSUME NEW c \in Cpu, El3Start(c) PROVE IInv'
  BY <1>3 DEF El3Start
<1>4. ASSUME NEW p \in Cpu, cpu_main(p) PROVE IInv'
  BY <1>4 DEF cpu_main
<1>5. ASSUME NEW p \in Cpu, cpu_on_vcpu(p) PROVE IInv'
  BY <1>5 DEF cpu_on_vcpu, vcpu_on
<1>6. ASSUME NEW p \in Cpu, CpuOnAccepted(p) PROVE IInv'
  BY <1>0, <1>6 DEF CpuOnAccepted, El3Accept, ReturnTo
<1>7. ASSUME NEW p \in Cpu, CpuOnRefused(p) PROVE IInv'
  BY <1>7 DEF CpuOnRefused
<1>8. ASSUME NEW p \in Cpu, CpuOnUndo(p) PROVE IInv'
  BY <1>0, <1>8 DEF CpuOnUndo, ReturnTo
<1>9. ASSUME NEW p \in Cpu, CpuOffSmc(p) PROVE IInv'
  BY <1>9 DEF CpuOffSmc
<1>10. ASSUME NEW p \in Cpu, SuspendReturns(p) PROVE IInv'
  BY <1>0, <1>10 DEF SuspendReturns, ReturnTo
<1>11. ASSUME NEW p \in Cpu, PsciAnswered(p) PROVE IInv'
  BY <1>11 DEF PsciAnswered
<1>12. ASSUME NEW p \in Cpu, NEW a \in Affinity, PsciCpuOff(p, a) PROVE IInv'
  BY <1>12 DEF PsciCpuOff
<1>13. ASSUME NEW p \in Cpu, NEW via \in {"smc", "hvc"}, NEW a \in Affinity,
              NEW e \in Entry, PsciCpuOn(p, via, a, e)
       PROVE  IInv'
  BY <1>13, PermissionSound DEF PsciCpuOn, cpu_on
<1>14. ASSUME NEW p \in Cpu, NEW via \in {"smc", "hvc"}, NEW a \in Affinity,
              NEW e \in Entry, PsciCpuSuspend(p, via, a, e)
       PROVE  IInv'
  BY <1>14 DEF PsciCpuSuspend
<1>15. ASSUME NEW p \in Cpu, PsciSystemReset(p) PROVE IInv'
  <2>1. Init'
    BY <1>15 DEF PsciSystemReset, Init
  <2> QED
    BY <2>1, InitIInv, PTL
<1>16. CASE UNCHANGED vars
  BY <1>16 DEF vars
<1> HIDE DEF IInv
<1> QED
  BY <1>1, <1>2, <1>3, <1>4, <1>5, <1>6, <1>7, <1>8, <1>9, <1>10, <1>11, <1>12,
     <1>13, <1>14, <1>15, <1>16 DEF Next, HandlerStep, GuestCall

-----------------------------------------------------------------------------
\* The invariant holds in every reachable state.
THEOREM PsciInvariant == Spec => []IInv
<1> QED BY InitIInv, NextIInv, PTL DEF Spec

\* Every variable keeps its type.
THEOREM PsciTypeCorrect == Spec => []TypeOK
<1>1. IInv => TypeOK
  BY DEF IInv
<1> QED BY <1>1, PsciInvariant, PTL

\* A CPU that AFFINITY_INFO reports OFF has stopped, however the calls of the
\* other CPUs interleave with its CPU_OFF.
THEOREM PsciOffMeansStopped == Spec => []OffMeansStopped
<1>1. IInv => OffMeansStopped
  BY DEF IInv, TypeOK, OnInv, OffMeansStopped, AffinityInfo, Stopped, Managed, Steps
<1> QED BY <1>1, PsciInvariant, PTL

\* The retry loop of CPU_ON is only told ALREADY_ON by a CPU that is turning
\* itself off.
THEOREM PsciRetry == Spec => []RetryOnlyWhileTurningOff
<1>1. IInv => RetryOnlyWhileTurningOff
  BY DEF IInv, PowerInv, OwnerInv, Starting, OnSteps, Stopped, Managed,
         RetryOnlyWhileTurningOff
<1> QED BY <1>1, PsciInvariant, PTL

\* A CPU comes up at the entry point of the call that started it.
THEOREM PsciEntry == Spec => []StartsAtGrantedEntry
<1>1. IInv => StartsAtGrantedEntry
  BY DEF IInv, EntryInv, StartsAtGrantedEntry
<1> QED BY <1>1, PsciInvariant, PTL

\* No PSCI call reaches a CPU of another VM.
THEOREM PsciTargetsOwnVm == Spec => []TargetsOwnVm
<1>1. IInv => TargetsOwnVm
  BY DEF IInv, TargetInv, TargetsOwnVm
<1> QED BY <1>1, PsciInvariant, PTL
=============================================================================
