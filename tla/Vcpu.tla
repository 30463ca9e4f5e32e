-------------------------------- MODULE Vcpu --------------------------------
(***************************************************************************)
(* vCPUs as the hypercalls see them: virtual interrupts (enable, get,      *)
(* inject) with their enabled-and-pending counters and the VI/VF lines,    *)
(* the PSCI calls of the VMs that are neither VM 1 nor VM 2, and the       *)
(* switch of a physical CPU to a vCPU of the primary VM.                   *)
(*                                                                         *)
(* Every vCPU has a spinlock.  A critical section that takes one lock and  *)
(* no other is one atomic step guarded by the lock being free; the one     *)
(* that takes a second lock inside (an injection that wakes its target)    *)
(* holds the first across two steps.                                       *)
(***************************************************************************)
EXTENDS Naturals, FiniteSets

CONSTANTS
  VmId,         \* ids of the VMs
  vcpu_count,   \* vm->vcpu_count
  Cpu,          \* indices of the physical CPUs that run a vCPU
  pinned,       \* cpu_main: the vCPU each of them starts with
  Intid,        \* 0..PG_NUM_INTIDS-1
  Types,        \* values guests pass as interrupt type
  CountMod,     \* 2^32, the width of the counters
  NULL,
  Free          \* value of a spinlock nobody holds

PrimaryVmId == 1

Vcpus == UNION {{<<m, i>> : i \in 0..(vcpu_count[m] - 1)} : m \in VmId}

ASSUME VcpuAssumption ==
  /\ VmId \subseteq Nat /\ PrimaryVmId \in VmId
  /\ vcpu_count \in [VmId -> Nat \ {0}]
  /\ Cpu \subseteq Nat
  /\ pinned \in [Cpu -> Vcpus]
  /\ \A p, q \in Cpu : pinned[p] = pinned[q] => p = q
  /\ Intid \subseteq Nat /\ IsFiniteSet(Intid)
  /\ Types \subseteq {"IRQ", "FIQ", "other"}
  /\ CountMod \in Nat /\ CountMod > Cardinality(Intid)
  /\ NULL \notin Vcpus
  /\ Free \notin Cpu

VARIABLES
  current,         \* the vCPU each physical CPU runs (tpidr_el2)
  state,           \* struct vcpu: state
  regs_available,  \* struct vcpu: regs_available
  enabled, pending, fiq,   \* struct interrupts: the bits set, per vCPU
  irq_count, fiq_count,    \* enabled_and_pending_{irq,fiq}_count
  vi, vf,          \* HCR_EL2.VI and .VF in the saved registers
  lock,            \* struct vcpu: lock
  pc,              \* step of the handler each physical CPU is in
  call,            \* arguments of the hypercall being handled
  next             \* local next of the handler

interrupts == <<enabled, pending, fiq, irq_count, fiq_count>>
lines == <<vi, vf>>
sched == <<state, regs_available>>
vars == <<current, sched, interrupts, lines, lock, pc, call, next>>

NoCall == [op |-> "none"]

States == {"OFF", "READY", "BLOCKED_INTERRUPT"}

InjectCalls == [op : {"inject"}, target : Vcpus, intid : Intid]

Calls ==
  {NoCall, [op |-> "get"]} \cup InjectCalls
  \cup [op : {"enable"}, intid : Intid, type : Types]
  \cup [op : {"disable"}, intid : Intid]
  \cup [op : {"cpu_on", "affinity_info"}, target : Vcpus]
  \cup [op : {"switch"}, to : States]

vm(v) == v[1]

\* vcpu->cpu, set by cpu_main and never changed by a switch.
cpu_index(v) == CHOOSE p \in Cpu : pinned[p] = v

\* api_get_vm_vcpu for the primary VM.
api_get_vm_vcpu(v) ==
  IF vcpu_count[PrimaryVmId] = 1 THEN <<PrimaryVmId, 0>>
  ELSE IF cpu_index(v) < vcpu_count[PrimaryVmId] THEN <<PrimaryVmId, cpu_index(v)>>
  ELSE NULL

inc(n) == (n + 1) % CountMod

dec(n) == (n + CountMod - 1) % CountMod

\* vcpu_interrupt_count_get
vcpu_interrupt_count(v) == (irq_count[v] + fiq_count[v]) % CountMod

\* vcpu_{irq,fiq}_count_{increment,decrement}, by the type bit of intid.
count_increment(v, i) ==
  /\ irq_count' = [irq_count EXCEPT ![v] = IF i \in fiq[v] THEN @ ELSE inc(@)]
  /\ fiq_count' = [fiq_count EXCEPT ![v] = IF i \in fiq[v] THEN inc(@) ELSE @]

count_decrement(v, i) ==
  /\ irq_count' = [irq_count EXCEPT ![v] = IF i \in fiq[v] THEN @ ELSE dec(@)]
  /\ fiq_count' = [fiq_count EXCEPT ![v] = IF i \in fiq[v] THEN dec(@) ELSE @]

-----------------------------------------------------------------------------
Init ==
  /\ current = pinned
  /\ state = [v \in Vcpus |-> IF \E p \in Cpu : pinned[p] = v THEN "READY" ELSE "OFF"]
  /\ regs_available = [v \in Vcpus |-> TRUE]
  /\ enabled = [v \in Vcpus |-> {}]
  /\ pending = [v \in Vcpus |-> {}]
  /\ fiq = [v \in Vcpus |-> {}]
  /\ irq_count = [v \in Vcpus |-> 0]
  /\ fiq_count = [v \in Vcpus |-> 0]
  /\ vi = [v \in Vcpus |-> FALSE]
  /\ vf = [v \in Vcpus |-> FALSE]
  /\ lock = [v \in Vcpus |-> Free]
  /\ pc = [p \in Cpu |-> "guest"]
  /\ call = [p \in Cpu |-> NoCall]
  /\ next = [p \in Cpu |-> NULL]

Goto(p, step) == pc' = [pc EXCEPT ![p] = step]

-----------------------------------------------------------------------------
\* The guest traps into hvc_handler with the call c; the arguments that are
\* refused at once leave everything as it is.
Trap(p, c, step) ==
  /\ pc[p] = "guest"
  /\ Goto(p, step)
  /\ call' = [call EXCEPT ![p] = c]
  /\ UNCHANGED <<current, sched, interrupts, lines, lock, next>>

HvcEnable(p) ==
  \/ \E i \in Intid, t \in Types : Trap(p, [op |-> "enable", intid |-> i, type |-> t], "enable")
  \/ \E i \in Intid : Trap(p, [op |-> "disable", intid |-> i], "disable")

HvcGet(p) == Trap(p, [op |-> "get"], "get")

\* is_injection_allowed: the primary into any VM, others into their own.
is_injection_allowed(v, t) == vm(v) = PrimaryVmId \/ vm(v) = vm(t)

HvcInject(p) ==
  \E t \in Vcpus, i \in Intid :
    /\ is_injection_allowed(current[p], t)
    /\ Trap(p, [op |-> "inject", target |-> t, intid |-> i], "inject")

\* psci_handler sends the calls of VM 1 and VM 2 elsewhere (module Psci).
HvcPsci(p) ==
  /\ vm(current[p]) \notin {PrimaryVmId, 2}
  /\ \/ Trap(p, [op |-> "switch", to |-> "BLOCKED_INTERRUPT"], "switch_to_vm")
     \/ Trap(p, [op |-> "switch", to |-> "OFF"], "switch_to_vm")
     \/ \E t \in Vcpus, f \in {"cpu_on", "affinity_info"} :
          vm(t) = vm(current[p]) /\ Trap(p, [op |-> f, target |-> t], f)

-----------------------------------------------------------------------------
\* api_interrupt_enable: the count is stepped by the type recorded so far,
\* the new type is recorded after it.
api_interrupt_enable(p) ==
  LET v == current[p]
      i == call[p].intid
      t == call[p].type IN
  /\ pc[p] = "enable"
  /\ lock[v] = Free
  /\ IF i \in pending[v] \ enabled[v] THEN count_increment(v, i)
                                      ELSE UNCHANGED <<irq_count, fiq_count>>
  /\ enabled' = [enabled EXCEPT ![v] = @ \cup {i}]
  /\ fiq' = [fiq EXCEPT ![v] = IF t = "IRQ" THEN @ \ {i}
                               ELSE IF t = "FIQ" THEN @ \cup {i} ELSE @]
  /\ Goto(p, "update")
  /\ UNCHANGED <<current, sched, pending, lines, lock, call, next>>

api_interrupt_disable(p) ==
  LET v == current[p]
      i == call[p].intid IN
  /\ pc[p] = "disable"
  /\ lock[v] = Free
  /\ IF i \in pending[v] \cap enabled[v] THEN count_decrement(v, i)
                                         ELSE UNCHANGED <<irq_count, fiq_count>>
  /\ enabled' = [enabled EXCEPT ![v] = @ \ {i}]
  /\ fiq' = [fiq EXCEPT ![v] = @ \ {i}]
  /\ Goto(p, "update")
  /\ UNCHANGED <<current, sched, pending, lines, lock, call, next>>

\* api_interrupt_get: the lowest enabled and pending interrupt is taken.
api_interrupt_get(p) ==
  LET v == current[p]
      ready == enabled[v] \cap pending[v] IN
  /\ pc[p] = "get"
  /\ lock[v] = Free
  /\ \/ /\ ready = {}
        /\ UNCHANGED <<pending, irq_count, fiq_count>>
     \/ \E i \in ready :
          /\ \A j \in ready : i <= j
          /\ pending' = [pending EXCEPT ![v] = @ \ {i}]
          /\ count_decrement(v, i)
  /\ Goto(p, "update")
  /\ UNCHANGED <<current, sched, enabled, fiq, lines, lock, call, next>>

-----------------------------------------------------------------------------
\* api_interrupt_inject_locked, with the lock of the target held.  Only the
\* first enabled and pending interrupt wakes the target, and only when the
\* caller is another vCPU that is not of the primary VM.
NewlyReady(t, i) == i \in enabled[t] \ pending[t]

WakesTarget(p) ==
  LET v == current[p]
      t == call[p].target
      i == call[p].intid IN
  /\ NewlyReady(t, i)
  /\ inc(vcpu_interrupt_count(t)) = 1
  /\ vm(v) # PrimaryVmId
  /\ v # t

api_interrupt_inject(p) ==
  LET t == call[p].target
      i == call[p].intid IN
  /\ pc[p] = "inject"
  /\ lock[t] = Free
  /\ IF NewlyReady(t, i) THEN count_increment(t, i)
                         ELSE UNCHANGED <<irq_count, fiq_count>>
  /\ IF WakesTarget(p)
     THEN /\ lock' = [lock EXCEPT ![t] = p]
          /\ Goto(p, "switch_to_vm")
          /\ UNCHANGED pending
     ELSE /\ pending' = [pending EXCEPT ![t] = @ \cup {i}]
          /\ Goto(p, "update")
          /\ UNCHANGED lock
  /\ UNCHANGED <<current, sched, enabled, fiq, lines, call, next>>

\* PSCI_CPU_ON of a secondary VM: vcpu_secondary_reset_and_start, then
\* api_wake_up if the target was off.
psci_cpu_on(p) ==
  LET t == call[p].target IN
  /\ pc[p] = "cpu_on"
  /\ lock[t] = Free
  /\ IF state[t] = "OFF"
     THEN /\ state' = [state EXCEPT ![t] = "READY"]
          /\ vi' = [vi EXCEPT ![t] = FALSE]
          /\ vf' = [vf EXCEPT ![t] = FALSE]
          /\ call' = [call EXCEPT ![p] = [op |-> "switch", to |-> "READY"]]
          /\ Goto(p, "switch_to_vm")
     ELSE /\ call' = [call EXCEPT ![p] = NoCall]
          /\ Goto(p, "guest")
          /\ UNCHANGED <<state, lines>>
  /\ UNCHANGED <<current, regs_available, interrupts, lock, next>>

\* PSCI_AFFINITY_INFO of a secondary VM reads the state under the lock.
psci_affinity_info(p) ==
  /\ pc[p] = "affinity_info"
  /\ lock[call[p].target] = Free
  /\ call' = [call EXCEPT ![p] = NoCall]
  /\ Goto(p, "guest")
  /\ UNCHANGED <<current, sched, interrupts, lines, lock, next>>

\* Mutants: the pending bit is not set after the switch; the lock of the target
\* is not released.
FinishInjectNotPending(p) ==
  /\ lock' = [lock EXCEPT ![call[p].target] = Free]
  /\ UNCHANGED pending
FinishInjectKeepsLock(p) ==
  /\ pending' = [pending EXCEPT ![call[p].target] = @ \cup {call[p].intid}]
  /\ UNCHANGED lock

\* The end of internal_interrupt_inject after the nested switch.
FinishInject(p) ==
  /\ pending' = [pending EXCEPT ![call[p].target] = @ \cup {call[p].intid}]
  /\ lock' = [lock EXCEPT ![call[p].target] = Free]

\* hvc_handler returns next at once for a PSCI call: no update of the lines.
ReturnNext(p) == Goto(p, "vcpu_switch")

\* api_switch_to_vm towards the primary VM: the CHECK, then the state of the
\* current vCPU under its own lock.  Back in api_interrupt_inject_locked the
\* pending bit is set and the lock of the target released.
api_switch_to_vm(p) ==
  LET v == current[p] IN
  /\ pc[p] = "switch_to_vm"
  /\ api_get_vm_vcpu(v) # NULL
  /\ lock[v] = Free
  /\ next' = [next EXCEPT ![p] = api_get_vm_vcpu(v)]
  /\ IF call[p].op = "inject"
     THEN /\ state' = [state EXCEPT ![v] = "READY"]
          /\ FinishInject(p)
          /\ Goto(p, "update")
     ELSE /\ state' = [state EXCEPT ![v] = call[p].to]
          /\ ReturnNext(p)
          /\ UNCHANGED <<pending, lock>>
  /\ UNCHANGED <<current, regs_available, enabled, fiq, irq_count, fiq_count, lines, call>>

CheckFails(p) ==
  /\ pc[p] = "switch_to_vm"
  /\ api_get_vm_vcpu(current[p]) = NULL
  /\ Goto(p, "panic")
  /\ UNCHANGED <<current, sched, interrupts, lines, lock, call, next>>

-----------------------------------------------------------------------------

set_virtual_irq(v, on) == vi' = [vi EXCEPT ![v] = on]
set_virtual_fiq(v, on) == vf' = [vf EXCEPT ![v] = on]

\* vcpu_update_virtual_interrupts, for the next vCPU or the current one.
vcpu_update_virtual_interrupts(p) ==
  LET v == IF next[p] = NULL THEN current[p] ELSE next[p] IN
  /\ pc[p] = "update"
  /\ lock[v] = Free
  /\ set_virtual_irq(v, irq_count[v] > 0)
  /\ set_virtual_fiq(v, fiq_count[v] > 0)
  /\ call' = [call EXCEPT ![p] = NoCall]
  /\ Goto(p, IF next[p] = NULL THEN "guest" ELSE "vcpu_switch")
  /\ UNCHANGED <<current, sched, interrupts, lock, next>>

\* vcpu_switch: complete_saving_state of the old vCPU, then the new one runs.
vcpu_switch(p) ==
  LET v == current[p] IN
  /\ pc[p] = "vcpu_switch"
  /\ lock[v] = Free
  /\ regs_available' = [regs_available EXCEPT ![v] = TRUE]
  /\ current' = [current EXCEPT ![p] = next[p]]
  /\ next' = [next EXCEPT ![p] = NULL]
  /\ call' = [call EXCEPT ![p] = NoCall]
  /\ Goto(p, "guest")
  /\ UNCHANGED <<state, interrupts, lines, lock>>

-----------------------------------------------------------------------------
GuestStep(p) == HvcEnable(p) \/ HvcGet(p) \/ HvcInject(p) \/ HvcPsci(p)

HandlerStep(p) ==
  \/ api_interrupt_enable(p) \/ api_interrupt_disable(p) \/ api_interrupt_get(p)
  \/ api_interrupt_inject(p) \/ psci_cpu_on(p) \/ psci_affinity_info(p)
  \/ api_switch_to_vm(p) \/ CheckFails(p)
  \/ vcpu_update_virtual_interrupts(p) \/ vcpu_switch(p)

Next == \E p \in Cpu : GuestStep(p) \/ HandlerStep(p)

Spec == Init /\ [][Next]_vars

\* A pCPU inside the hypervisor runs with interrupts masked and is never
\* descheduled; nothing obliges a guest to make a call.
FairSpec == Spec /\ \A p \in Cpu : WF_vars(HandlerStep(p))

-----------------------------------------------------------------------------
\* Type invariant.
TypeOK ==
  /\ current \in [Cpu -> Vcpus]
  /\ state \in [Vcpus -> States]
  /\ regs_available \in [Vcpus -> BOOLEAN]
  /\ enabled \in [Vcpus -> SUBSET Intid]
  /\ pending \in [Vcpus -> SUBSET Intid]
  /\ fiq \in [Vcpus -> SUBSET Intid]
  /\ irq_count \in [Vcpus -> 0..(CountMod - 1)]
  /\ fiq_count \in [Vcpus -> 0..(CountMod - 1)]
  /\ vi \in [Vcpus -> BOOLEAN]
  /\ vf \in [Vcpus -> BOOLEAN]
  /\ lock \in [Vcpus -> Cpu \cup {Free}]
  /\ pc \in [Cpu -> {"guest", "enable", "disable", "get", "inject", "cpu_on", "affinity_info",
                     "switch_to_vm", "update", "vcpu_switch", "panic"}]
  /\ call \in [Cpu -> Calls]
  /\ next \in [Cpu -> Vcpus \cup {NULL}]

\* The two counters of a vCPU sum to the number of its interrupts that are
\* enabled and pending.  While an injection that wakes the vCPU holds its
\* lock the count runs one ahead: it is stepped before the nested switch and
\* the pending bit is set after it (api_interrupt_inject_locked).
CountsSum ==
  \A v \in Vcpus :
    vcpu_interrupt_count(v) = Cardinality(enabled[v] \cap pending[v])
                              + (IF lock[v] = Free THEN 0 ELSE 1)


\* The pCPU holds the lock of its target and needs the one of its current.
Awaits(p, v) == pc[p] = "switch_to_vm" /\ current[p] = v

\* Two CPUs that inject into each other's vCPU take the two locks in opposite
\* orders (vcpu_lock_both, which orders them by address, is not used here).
LocksCrossed ==
  \E p, q \in Cpu, v, w \in Vcpus :
    lock[v] = p /\ Awaits(p, w) /\ lock[w] = q /\ Awaits(q, v)

\* A CHECK failed inside an injection: abort() keeps the lock of the target.
HolderPanicked == \E v \in Vcpus, q \in Cpu : lock[v] = q /\ pc[q] = "panic"

\* Every hypercall returns to a guest or stops in the CHECK of
\* api_switch_to_vm.  A handler spins for ever on a vCPU lock for two reasons
\* only: the crosswise wait above, and a CPU that panicked holding the lock.
HandlersReturn ==
  \A p \in Cpu :
    pc[p] # "guest" ~> \/ pc[p] \in {"guest", "panic"}
                       \/ LocksCrossed
                       \/ HolderPanicked
=============================================================================
