----------------------------- MODULE VcpuProofs -----------------------------
(***************************************************************************)
(* Proof that the sum of the two interrupt counters of a vCPU agrees with  *)
(* its enabled and pending bits, for any number of VMs, vCPUs, CPUs and    *)
(* interrupts and any counter width that can hold the number of interrupts.*)
(***************************************************************************)
EXTENDS Vcpu, FiniteSetTheorems, TLAPS

\* A value below the modulus is its own remainder (the uint32_t counters).
LEMMA ModSmall ==
  ASSUME NEW m \in Nat \ {0}, NEW x \in 0..(m - 1)
  PROVE  x % m = x
  BY SMT

\* A value between the modulus and twice the modulus wraps once.
LEMMA ModWrap ==
  ASSUME NEW m \in Nat \ {0}, NEW x \in m..(2 * m - 1)
  PROVE  x % m = x - m
  BY SMT

\* The wrapped sum of two counters.
LEMMA ModSum ==
  ASSUME NEW m \in Nat \ {0}, NEW a \in 0..(m - 1), NEW b \in 0..(m - 1)
  PROVE  (a + b) % m = IF a + b < m THEN a + b ELSE a + b - m
  BY ModSmall, ModWrap

\* The counter width is at least two values wide: one interrupt fits.
LEMMA WidthPositive == CountMod \in Nat \ {0} /\ Cardinality(Intid) \in Nat
  BY VcpuAssumption, FS_CardinalityType

\* Stepping either counter up steps the wrapped sum up, short of the wrap.
LEMMA SumInc ==
  ASSUME NEW a \in 0..(CountMod - 1), NEW b \in 0..(CountMod - 1),
         ((a + b) % CountMod) + 1 < CountMod
  PROVE  /\ inc(a) \in 0..(CountMod - 1)
         /\ (inc(a) + b) % CountMod = ((a + b) % CountMod) + 1
         /\ (b + inc(a)) % CountMod = ((a + b) % CountMod) + 1
<1> DEFINE m == CountMod
<1>0. m \in Nat \ {0}
  BY WidthPositive
<1>1. inc(a) = IF a + 1 = m THEN 0 ELSE a + 1
  BY <1>0, ModSmall, ModWrap DEF inc
<1>2. (a + b) % m = IF a + b < m THEN a + b ELSE a + b - m
  BY <1>0, ModSum
<1>3. inc(a) \in 0..(m - 1)
  BY <1>0, <1>1
<1>4. PICK c \in 0..(m - 1) : c = inc(a)
  BY <1>3
<1>5. (c + b) % m = IF c + b < m THEN c + b ELSE c + b - m
  BY <1>0, ModSum
<1>6. (c + b) % m = ((a + b) % m) + 1
  <2>1. CASE a + 1 = m
    BY <1>0, <1>1, <1>2, <1>4, <1>5, <2>1
  <2>2. CASE a + 1 # m /\ a + b < m
    <3>1. c = a + 1 /\ (a + b) % m = a + b /\ a + b + 1 < m
      BY <1>0, <1>1, <1>2, <1>4, <2>2
    <3> QED
      BY <1>0, <1>5, <3>1
  <2>3. CASE a + 1 # m /\ ~ (a + b < m)
    <3>1. c = a + 1 /\ (a + b) % m = a + b - m
      BY <1>0, <1>1, <1>2, <1>4, <2>3
    <3> QED
      BY <1>0, <1>5, <2>3, <3>1
  <2> QED
    BY <2>1, <2>2, <2>3
<1>7. c + b = b + c
  BY <1>0
<1> HIDE DEF m
<1> QED
  BY <1>3, <1>4, <1>6, <1>7 DEF m

\* Stepping either counter down, through zero or not, steps a nonzero wrapped
\* sum down.
LEMMA SumDec ==
  ASSUME NEW a \in 0..(CountMod - 1), NEW b \in 0..(CountMod - 1),
         (a + b) % CountMod > 0
  PROVE  /\ dec(a) \in 0..(CountMod - 1)
         /\ (dec(a) + b) % CountMod = ((a + b) % CountMod) - 1
         /\ (b + dec(a)) % CountMod = ((a + b) % CountMod) - 1
<1> DEFINE m == CountMod
<1>0. m \in Nat \ {0}
  BY WidthPositive
<1>1. dec(a) = IF a = 0 THEN m - 1 ELSE a - 1
  <2>1. CASE a = 0
    BY <1>0, <2>1, ModSmall DEF dec
  <2>2. CASE a # 0
    <3>1. a + m - 1 \in m..(2 * m - 1)
      BY <1>0, <2>2
    <3>2. (a + m - 1) % m = (a + m - 1) - m
      BY <1>0, <3>1, ModWrap
    <3> QED
      BY <1>0, <2>2, <3>2 DEF dec
  <2> QED
    BY <2>1, <2>2
<1>2. (a + b) % m = IF a + b < m THEN a + b ELSE a + b - m
  BY <1>0, ModSum
<1>3. dec(a) \in 0..(m - 1)
  BY <1>0, <1>1
<1>4. PICK c \in 0..(m - 1) : c = dec(a)
  BY <1>3
<1>5. (c + b) % m = IF c + b < m THEN c + b ELSE c + b - m
  BY <1>0, ModSum
<1>6. (c + b) % m = ((a + b) % m) - 1
  BY <1>0, <1>1, <1>2, <1>4, <1>5
<1>7. c + b = b + c
  BY <1>0
<1> HIDE DEF m
<1> QED
  BY <1>3, <1>4, <1>6, <1>7 DEF m

\* The number of interrupts in a bitfield is a natural number.
LEMMA IntidCard ==
  ASSUME NEW S \in SUBSET Intid
  PROVE  Cardinality(S) \in Nat
  BY VcpuAssumption, FS_Subset, FS_CardinalityType

\* Sets of interrupt ids are finite; one that misses an id has room for it.
LEMMA IntidRoom ==
  ASSUME NEW S \in SUBSET Intid, NEW i \in Intid
  PROVE  /\ Cardinality(S) \in Nat
         /\ i \notin S => /\ Cardinality(S \cup {i}) = Cardinality(S) + 1
                         /\ Cardinality(S) + 1 < CountMod
         /\ i \in S => /\ Cardinality(S \ {i}) = Cardinality(S) - 1
                       /\ Cardinality(S) > 0
<1>1. IsFiniteSet(S) /\ Cardinality(S) \in Nat
  BY VcpuAssumption, FS_Subset, FS_CardinalityType
<1>2. ASSUME i \notin S
      PROVE  Cardinality(S \cup {i}) = Cardinality(S) + 1 /\ Cardinality(S) + 1 < CountMod
  <2>1. Cardinality(S \cup {i}) = Cardinality(S) + 1
    BY <1>1, <1>2, FS_AddElement
  <2>2. Cardinality(S \cup {i}) <= Cardinality(Intid)
    BY VcpuAssumption, FS_Subset
  <2> QED
    BY <1>1, <2>1, <2>2, WidthPositive, VcpuAssumption
<1>3. ASSUME i \in S
      PROVE  Cardinality(S \ {i}) = Cardinality(S) - 1 /\ Cardinality(S) > 0
  <2>1. Cardinality(S \ {i}) = Cardinality(S) - 1
    BY <1>1, <1>3, FS_RemoveElement
  <2>2. Cardinality(S) # 0
    BY <1>1, <1>3, FS_EmptySet
  <2> QED
    BY <1>1, <2>1, <2>2
<1> QED
  BY <1>1, <1>2, <1>3

-----------------------------------------------------------------------------
\* What a handler knows of its arguments at each of its steps.
CallInv ==
  \A p \in Cpu :
    /\ pc[p] = "enable" => call[p] \in [op : {"enable"}, intid : Intid, type : Types]
    /\ pc[p] = "disable" => call[p] \in [op : {"disable"}, intid : Intid]
    /\ pc[p] = "inject" => call[p] \in InjectCalls
    /\ pc[p] \in {"cpu_on", "affinity_info"} => call[p].target \in Vcpus
    /\ pc[p] = "switch_to_vm" => call[p] \in InjectCalls \cup [op : {"switch"}, to : States]
    /\ pc[p] = "vcpu_switch" => next[p] \in Vcpus

\* A lock is held across steps only by an injection in the nested switch, or
\* stopped in its CHECK.
HolderInv ==
  \A v \in Vcpus : lock[v] # Free =>
    /\ pc[lock[v]] \in {"switch_to_vm", "panic"}
    /\ call[lock[v]] \in InjectCalls
    /\ call[lock[v]].target = v

\* An injection in the nested switch holds the lock of its target, and the
\* interrupt it counted is not pending yet.
SwitchInv ==
  \A p \in Cpu : pc[p] = "switch_to_vm" /\ call[p].op = "inject" =>
    /\ lock[call[p].target] = p
    /\ call[p].intid \in enabled[call[p].target] \ pending[call[p].target]

\* A CPU that runs a vCPU of another VM than the primary runs the one it was
\* pinned to; only such a CPU switches, and only to the primary.
PinnedInv ==
  \A p \in Cpu :
    /\ vm(current[p]) # PrimaryVmId => current[p] = pinned[p]
    /\ pc[p] \in {"cpu_on", "switch_to_vm"} => vm(current[p]) # PrimaryVmId
    /\ next[p] # NULL => vm(next[p]) = PrimaryVmId

IInv == TypeOK /\ CallInv /\ HolderInv /\ SwitchInv /\ PinnedInv /\ CountsSum

\* The vCPU of the primary VM that stands for a pinned vCPU, if there is one.
LEMMA PrimaryVcpu ==
  ASSUME NEW p \in Cpu
  PROVE  /\ api_get_vm_vcpu(pinned[p]) \in Vcpus \cup {NULL}
         /\ api_get_vm_vcpu(pinned[p]) # NULL => vm(api_get_vm_vcpu(pinned[p])) = PrimaryVmId
<1>1. cpu_index(pinned[p]) \in Cpu
  BY DEF cpu_index
<1>2. cpu_index(pinned[p]) \in Nat /\ vcpu_count[PrimaryVmId] \in Nat \ {0} /\ PrimaryVmId \in VmId
  BY <1>1, VcpuAssumption
<1>3. \A k \in Nat : k < vcpu_count[PrimaryVmId] => <<PrimaryVmId, k>> \in Vcpus
  <2> SUFFICES ASSUME NEW k \in Nat, k < vcpu_count[PrimaryVmId]
               PROVE  \E m \in VmId : <<PrimaryVmId, k>> \in {<<m, i>> : i \in 0..(vcpu_count[m] - 1)}
    BY DEF Vcpus
  <2>1. k \in 0..(vcpu_count[PrimaryVmId] - 1)
    BY <1>2
  <2> QED
    BY <1>2, <2>1
<1>4. api_get_vm_vcpu(pinned[p]) = NULL
      \/ \E k \in Nat : k < vcpu_count[PrimaryVmId] /\ api_get_vm_vcpu(pinned[p]) = <<PrimaryVmId, k>>
  BY <1>2 DEF api_get_vm_vcpu
<1> QED
  BY <1>3, <1>4 DEF vm

\* The effect of a counter step up on the sum (vcpu_irq_count_increment,
\* vcpu_fiq_count_increment).
LEMMA StepUp ==
  ASSUME TypeOK, NEW v \in Vcpus, NEW i, vcpu_interrupt_count(v) + 1 < CountMod,
         count_increment(v, i)
  PROVE  /\ irq_count' \in [Vcpus -> 0..(CountMod - 1)]
         /\ fiq_count' \in [Vcpus -> 0..(CountMod - 1)]
         /\ vcpu_interrupt_count(v)' = vcpu_interrupt_count(v) + 1
         /\ \A w \in Vcpus \ {v} : vcpu_interrupt_count(w)' = vcpu_interrupt_count(w)
<1> DEFINE a == irq_count[v]  b == fiq_count[v]
<1>1. a \in 0..(CountMod - 1) /\ b \in 0..(CountMod - 1)
  BY DEF TypeOK
<1>2. ((a + b) % CountMod) + 1 < CountMod /\ ((b + a) % CountMod) + 1 < CountMod
      /\ (b + a) % CountMod = (a + b) % CountMod
  <2>1. a + b = b + a
    BY <1>1, WidthPositive
  <2> QED
    BY <2>1 DEF vcpu_interrupt_count
<1>3. /\ inc(a) \in 0..(CountMod - 1) /\ inc(b) \in 0..(CountMod - 1)
      /\ (inc(a) + b) % CountMod = ((a + b) % CountMod) + 1
      /\ (a + inc(b)) % CountMod = ((a + b) % CountMod) + 1
  BY <1>1, <1>2, SumInc
<1> HIDE DEF a, b
<1>4. CASE i \in fiq[v]
  <2>1. irq_count' = irq_count /\ fiq_count' = [fiq_count EXCEPT ![v] = inc(b)]
    BY <1>4 DEF count_increment, TypeOK, b
  <2> QED
    BY <1>1, <1>3, <2>1 DEF TypeOK, vcpu_interrupt_count, a, b
<1>5. CASE i \notin fiq[v]
  <2>1. fiq_count' = fiq_count /\ irq_count' = [irq_count EXCEPT ![v] = inc(a)]
    BY <1>5 DEF count_increment, TypeOK, a
  <2> QED
    BY <1>1, <1>3, <2>1 DEF TypeOK, vcpu_interrupt_count, a, b
<1> QED
  BY <1>4, <1>5

\* The effect of a counter step down on the sum (vcpu_irq_count_decrement,
\* vcpu_fiq_count_decrement).
LEMMA StepDown ==
  ASSUME TypeOK, NEW v \in Vcpus, NEW i, vcpu_interrupt_count(v) > 0,
         count_decrement(v, i)
  PROVE  /\ irq_count' \in [Vcpus -> 0..(CountMod - 1)]
         /\ fiq_count' \in [Vcpus -> 0..(CountMod - 1)]
         /\ vcpu_interrupt_count(v)' = vcpu_interrupt_count(v) - 1
         /\ \A w \in Vcpus \ {v} : vcpu_interrupt_count(w)' = vcpu_interrupt_count(w)
<1> DEFINE a == irq_count[v]  b == fiq_count[v]
<1>1. a \in 0..(CountMod - 1) /\ b \in 0..(CountMod - 1)
  BY DEF TypeOK
<1>2. (a + b) % CountMod > 0 /\ (b + a) % CountMod > 0
      /\ (b + a) % CountMod = (a + b) % CountMod
  <2>1. a + b = b + a
    BY <1>1, WidthPositive
  <2> QED
    BY <2>1 DEF vcpu_interrupt_count
<1>3. /\ dec(a) \in 0..(CountMod - 1) /\ dec(b) \in 0..(CountMod - 1)
      /\ (dec(a) + b) % CountMod = ((a + b) % CountMod) - 1
      /\ (a + dec(b)) % CountMod = ((a + b) % CountMod) - 1
  BY <1>1, <1>2, SumDec
<1> HIDE DEF a, b
<1>4. CASE i \in fiq[v]
  <2>1. irq_count' = irq_count /\ fiq_count' = [fiq_count EXCEPT ![v] = dec(b)]
    BY <1>4 DEF count_decrement, TypeOK, b
  <2> QED
    BY <1>1, <1>3, <2>1 DEF TypeOK, vcpu_interrupt_count, a, b
<1>5. CASE i \notin fiq[v]
  <2>1. fiq_count' = fiq_count /\ irq_count' = [irq_count EXCEPT ![v] = dec(a)]
    BY <1>5 DEF count_decrement, TypeOK, a
  <2> QED
    BY <1>1, <1>3, <2>1 DEF TypeOK, vcpu_interrupt_count, a, b
<1> QED
  BY <1>4, <1>5

-----------------------------------------------------------------------------
\* The boot state satisfies the inductive invariant.
LEMMA InitIInv == Init => IInv
<1> SUFFICES ASSUME Init PROVE IInv
  OBVIOUS
<1>1. TypeOK
  BY VcpuAssumption, WidthPositive DEF Init, TypeOK, States, Calls, NoCall
<1>2. CallInv /\ HolderInv /\ SwitchInv /\ PinnedInv
  BY DEF Init, CallInv, HolderInv, SwitchInv, PinnedInv
<1>3. CountsSum
  <2> SUFFICES ASSUME NEW v \in Vcpus
               PROVE  vcpu_interrupt_count(v) = Cardinality(enabled[v] \cap pending[v])
                                                + (IF lock[v] = Free THEN 0 ELSE 1)
    BY DEF CountsSum
  <2>1. vcpu_interrupt_count(v) = 0
    BY WidthPositive, ModSmall DEF Init, vcpu_interrupt_count
  <2>2. enabled[v] \cap pending[v] = {} /\ lock[v] = Free
    BY DEF Init
  <2> QED
    BY <2>1, <2>2, FS_EmptySet
<1> QED
  BY <1>1, <1>2, <1>3 DEF IInv

\* A call of the guest changes only the step and the arguments of its CPU.
LEMMA TrapIInv ==
  ASSUME IInv, NEW p \in Cpu, NEW c \in Calls,
         NEW step \in {"enable", "disable", "get", "inject", "cpu_on", "affinity_info",
                       "switch_to_vm"},
         Trap(p, c, step),
         step = "enable" => c \in [op : {"enable"}, intid : Intid, type : Types],
         step = "disable" => c \in [op : {"disable"}, intid : Intid],
         step = "inject" => c \in InjectCalls,
         step \in {"cpu_on", "affinity_info"} => c.target \in Vcpus,
         step = "switch_to_vm" => c \in [op : {"switch"}, to : States],
         step \in {"cpu_on", "switch_to_vm"} => vm(current[p]) # PrimaryVmId
  PROVE  IInv'
<1> USE DEF Trap, Goto, sched, interrupts, lines, IInv
<1>1. TypeOK'
  BY DEF TypeOK
<1>2. CallInv'
  BY DEF CallInv, TypeOK
<1>3. HolderInv'
  BY VcpuAssumption DEF HolderInv, TypeOK
<1>4. SwitchInv'
  BY DEF SwitchInv, TypeOK
<1>5. CountsSum'
  BY DEF CountsSum, vcpu_interrupt_count
<1>6. PinnedInv'
  BY DEF PinnedInv, TypeOK
<1> QED
  BY <1>1, <1>2, <1>3, <1>4, <1>5, <1>6

\* Every hypercall a guest can make preserves the inductive invariant.
LEMMA GuestIInv ==
  ASSUME IInv, NEW p \in Cpu, GuestStep(p)
  PROVE  IInv'
<1>1. CASE HvcEnable(p)
  BY <1>1, TrapIInv DEF HvcEnable, Calls
<1>2. CASE HvcGet(p)
  BY <1>2, TrapIInv DEF HvcGet, Calls
<1>3. CASE HvcInject(p)
  BY <1>3, TrapIInv DEF HvcInject, Calls, InjectCalls
<1>4. CASE HvcPsci(p)
  <2>1. CASE Trap(p, [op |-> "switch", to |-> "BLOCKED_INTERRUPT"], "switch_to_vm")
    BY <1>4, <2>1, TrapIInv DEF HvcPsci, Calls, States
  <2>2. CASE Trap(p, [op |-> "switch", to |-> "OFF"], "switch_to_vm")
    BY <1>4, <2>2, TrapIInv DEF HvcPsci, Calls, States
  <2>3. ASSUME NEW t \in Vcpus, NEW f \in {"cpu_on", "affinity_info"},
               Trap(p, [op |-> f, target |-> t], f)
        PROVE  IInv'
    BY <1>4, <2>3, TrapIInv DEF HvcPsci, Calls
  <2> QED
    BY <1>4, <2>1, <2>2, <2>3 DEF HvcPsci
<1> QED
  BY <1>1, <1>2, <1>3, <1>4 DEF GuestStep

-----------------------------------------------------------------------------
\* A handler that touches one vCPU under its lock and leaves its sum right
\* leaves every sum right.
LEMMA CountsAt ==
  ASSUME CountsSum, NEW v \in Vcpus,
         vcpu_interrupt_count(v)' = Cardinality(enabled'[v] \cap pending'[v])
                                    + (IF lock'[v] = Free THEN 0 ELSE 1),
         \A w \in Vcpus \ {v} :
           /\ vcpu_interrupt_count(w)' = vcpu_interrupt_count(w)
           /\ enabled'[w] = enabled[w] /\ pending'[w] = pending[w] /\ lock'[w] = lock[w]
  PROVE  CountsSum'
<1> SUFFICES ASSUME NEW w \in Vcpus
             PROVE  vcpu_interrupt_count(w)' = Cardinality(enabled'[w] \cap pending'[w])
                                               + (IF lock'[w] = Free THEN 0 ELSE 1)
  BY DEF CountsSum
<1>1. CASE w = v
  BY <1>1
<1>2. CASE w # v
  BY <1>2 DEF CountsSum
<1> QED
  BY <1>1, <1>2

\* PG_INTERRUPT_ENABLE with enable set.
LEMMA EnableIInv ==
  ASSUME IInv, NEW p \in Cpu, api_interrupt_enable(p)
  PROVE  IInv'
<1>0. PICK v \in Vcpus, i \in Intid, E \in SUBSET Intid, P \in SUBSET Intid :
        /\ v = current[p] /\ i = call[p].intid /\ E = enabled[v] /\ P = pending[v]
        /\ lock[v] = Free /\ pc[p] = "enable"
  BY DEF IInv, TypeOK, CallInv, api_interrupt_enable
<1>1. vcpu_interrupt_count(v) = Cardinality(E \cap P)
  <2>1. Cardinality(E \cap P) \in Nat
    BY IntidRoom
  <2> QED
    BY <1>0, <2>1 DEF IInv, CountsSum
<1>2. /\ irq_count' \in [Vcpus -> 0..(CountMod - 1)]
      /\ fiq_count' \in [Vcpus -> 0..(CountMod - 1)]
      /\ vcpu_interrupt_count(v)' = Cardinality((E \cup {i}) \cap P)
      /\ \A w \in Vcpus \ {v} : vcpu_interrupt_count(w)' = vcpu_interrupt_count(w)
  <2>1. CASE i \in P \ E
    <3>1. (E \cup {i}) \cap P = (E \cap P) \cup {i} /\ i \notin E \cap P
      BY <2>1
    <3>2. /\ Cardinality((E \cap P) \cup {i}) = Cardinality(E \cap P) + 1
          /\ Cardinality(E \cap P) + 1 < CountMod
      BY <1>0, <3>1, IntidRoom
    <3>3. count_increment(v, i)
      BY <1>0, <2>1 DEF api_interrupt_enable
    <3> QED
      BY <1>0, <1>1, <3>1, <3>2, <3>3, StepUp DEF IInv
  <2>2. CASE i \notin P \ E
    <3>1. (E \cup {i}) \cap P = E \cap P
      BY <2>2
    <3>2. UNCHANGED <<irq_count, fiq_count>>
      BY <1>0, <2>2 DEF api_interrupt_enable
    <3> QED
      BY <1>1, <3>1, <3>2 DEF IInv, TypeOK, vcpu_interrupt_count
  <2> QED
    BY <2>1, <2>2
<1>3. /\ enabled' = [enabled EXCEPT ![v] = E \cup {i}]
      /\ fiq' \in [Vcpus -> SUBSET Intid]
      /\ pc' = [pc EXCEPT ![p] = "update"]
      /\ UNCHANGED <<current, state, regs_available, pending, vi, vf, lock, call, next>>
  BY <1>0 DEF api_interrupt_enable, Goto, sched, lines, IInv, TypeOK
<1>4. TypeOK'
  BY <1>0, <1>2, <1>3 DEF IInv, TypeOK
<1>5. CallInv'
  BY <1>0, <1>3 DEF IInv, TypeOK, CallInv
<1>6. HolderInv'
  BY <1>0, <1>3 DEF IInv, TypeOK, HolderInv
<1>7. SwitchInv'
  BY <1>0, <1>3, VcpuAssumption DEF IInv, TypeOK, SwitchInv, CallInv
<1>8. CountsSum'
  <2>1. Cardinality(enabled'[v] \cap pending'[v]) \in Nat
    BY <1>4, IntidCard DEF TypeOK
  <2>2. vcpu_interrupt_count(v)' = Cardinality(enabled'[v] \cap pending'[v])
                                   + (IF lock'[v] = Free THEN 0 ELSE 1)
    BY <1>0, <1>2, <1>3, <2>1 DEF IInv, TypeOK
  <2>3. \A w \in Vcpus \ {v} :
          enabled'[w] = enabled[w] /\ pending'[w] = pending[w] /\ lock'[w] = lock[w]
    BY <1>3 DEF IInv, TypeOK
  <2> QED
    BY <1>2, <2>2, <2>3, CountsAt DEF IInv
<1>9. PinnedInv'
  BY <1>0, <1>3 DEF IInv, TypeOK, PinnedInv
<1> QED
  BY <1>4, <1>5, <1>6, <1>7, <1>8, <1>9 DEF IInv

\* PG_INTERRUPT_ENABLE with enable clear.
LEMMA DisableIInv ==
  ASSUME IInv, NEW p \in Cpu, api_interrupt_disable(p)
  PROVE  IInv'
<1>0. PICK v \in Vcpus, i \in Intid, E \in SUBSET Intid, P \in SUBSET Intid :
        /\ v = current[p] /\ i = call[p].intid /\ E = enabled[v] /\ P = pending[v]
        /\ lock[v] = Free /\ pc[p] = "disable"
  BY DEF IInv, TypeOK, CallInv, api_interrupt_disable
<1>1. vcpu_interrupt_count(v) = Cardinality(E \cap P)
  <2>1. Cardinality(E \cap P) \in Nat
    BY IntidRoom
  <2> QED
    BY <1>0, <2>1 DEF IInv, CountsSum
<1>2. /\ irq_count' \in [Vcpus -> 0..(CountMod - 1)]
      /\ fiq_count' \in [Vcpus -> 0..(CountMod - 1)]
      /\ vcpu_interrupt_count(v)' = Cardinality((E \ {i}) \cap P)
      /\ \A w \in Vcpus \ {v} : vcpu_interrupt_count(w)' = vcpu_interrupt_count(w)
  <2>1. CASE i \in P \cap E
    <3>1. (E \ {i}) \cap P = (E \cap P) \ {i} /\ i \in E \cap P
      BY <2>1
    <3>2. /\ Cardinality((E \cap P) \ {i}) = Cardinality(E \cap P) - 1
          /\ Cardinality(E \cap P) > 0
      BY <1>0, <3>1, IntidRoom
    <3>3. count_decrement(v, i)
      BY <1>0, <2>1 DEF api_interrupt_disable
    <3> QED
      BY <1>0, <1>1, <3>1, <3>2, <3>3, StepDown DEF IInv
  <2>2. CASE i \notin P \cap E
    <3>1. (E \ {i}) \cap P = E \cap P
      BY <2>2
    <3>2. UNCHANGED <<irq_count, fiq_count>>
      BY <1>0, <2>2 DEF api_interrupt_disable
    <3> QED
      BY <1>1, <3>1, <3>2 DEF IInv, TypeOK, vcpu_interrupt_count
  <2> QED
    BY <2>1, <2>2
<1>3. /\ enabled' = [enabled EXCEPT ![v] = E \ {i}]
      /\ fiq' \in [Vcpus -> SUBSET Intid]
      /\ pc' = [pc EXCEPT ![p] = "update"]
      /\ UNCHANGED <<current, state, regs_available, pending, vi, vf, lock, call, next>>
  BY <1>0 DEF api_interrupt_disable, Goto, sched, lines, IInv, TypeOK
<1>4. TypeOK'
  BY <1>0, <1>2, <1>3 DEF IInv, TypeOK
<1>5. CallInv'
  BY <1>0, <1>3 DEF IInv, TypeOK, CallInv
<1>6. HolderInv'
  BY <1>0, <1>3 DEF IInv, TypeOK, HolderInv
<1>7. SwitchInv'
  BY <1>0, <1>3, VcpuAssumption DEF IInv, TypeOK, SwitchInv, CallInv
<1>8. CountsSum'
  <2>1. Cardinality(enabled'[v] \cap pending'[v]) \in Nat
    BY <1>4, IntidCard DEF TypeOK
  <2>2. vcpu_interrupt_count(v)' = Cardinality(enabled'[v] \cap pending'[v])
                                   + (IF lock'[v] = Free THEN 0 ELSE 1)
    BY <1>0, <1>2, <1>3, <2>1 DEF IInv, TypeOK
  <2>3. \A w \in Vcpus \ {v} :
          enabled'[w] = enabled[w] /\ pending'[w] = pending[w] /\ lock'[w] = lock[w]
    BY <1>3 DEF IInv, TypeOK
  <2> QED
    BY <1>2, <2>2, <2>3, CountsAt DEF IInv
<1>9. PinnedInv'
  BY <1>0, <1>3 DEF IInv, TypeOK, PinnedInv
<1> QED
  BY <1>4, <1>5, <1>6, <1>7, <1>8, <1>9 DEF IInv

\* PG_INTERRUPT_GET.
LEMMA GetIInv ==
  ASSUME IInv, NEW p \in Cpu, api_interrupt_get(p)
  PROVE  IInv'
<1>0. PICK v \in Vcpus, E \in SUBSET Intid, P \in SUBSET Intid :
        /\ v = current[p] /\ E = enabled[v] /\ P = pending[v]
        /\ lock[v] = Free /\ pc[p] = "get"
  BY DEF IInv, TypeOK, api_interrupt_get
<1>1. vcpu_interrupt_count(v) = Cardinality(E \cap P)
  <2>1. Cardinality(E \cap P) \in Nat
    BY IntidCard
  <2> QED
    BY <1>0, <2>1 DEF IInv, CountsSum
<1>2. PICK Q \in SUBSET Intid :
        /\ pending' = [pending EXCEPT ![v] = Q]
        /\ irq_count' \in [Vcpus -> 0..(CountMod - 1)]
        /\ fiq_count' \in [Vcpus -> 0..(CountMod - 1)]
        /\ vcpu_interrupt_count(v)' = Cardinality(E \cap Q)
        /\ \A w \in Vcpus \ {v} : vcpu_interrupt_count(w)' = vcpu_interrupt_count(w)
  <2>1. CASE UNCHANGED <<pending, irq_count, fiq_count>>
    <3>1. pending' = [pending EXCEPT ![v] = P]
      BY <1>0, <2>1 DEF IInv, TypeOK
    <3> QED
      BY <1>1, <2>1, <3>1 DEF IInv, TypeOK, vcpu_interrupt_count
  <2>2. ASSUME NEW i \in E \cap P,
               pending' = [pending EXCEPT ![v] = @ \ {i}],
               count_decrement(v, i)
        PROVE  /\ pending' = [pending EXCEPT ![v] = P \ {i}]
               /\ irq_count' \in [Vcpus -> 0..(CountMod - 1)]
               /\ fiq_count' \in [Vcpus -> 0..(CountMod - 1)]
               /\ vcpu_interrupt_count(v)' = Cardinality(E \cap (P \ {i}))
               /\ \A w \in Vcpus \ {v} : vcpu_interrupt_count(w)' = vcpu_interrupt_count(w)
    <3>1. E \cap (P \ {i}) = (E \cap P) \ {i}
      OBVIOUS
    <3>2. /\ Cardinality((E \cap P) \ {i}) = Cardinality(E \cap P) - 1
          /\ Cardinality(E \cap P) > 0
      BY IntidRoom
    <3>3. pending' = [pending EXCEPT ![v] = P \ {i}]
      BY <1>0, <2>2
    <3> QED
      BY <1>1, <2>2, <3>1, <3>2, <3>3, StepDown DEF IInv
  <2>3. \/ UNCHANGED <<pending, irq_count, fiq_count>>
        \/ \E i \in E \cap P : pending' = [pending EXCEPT ![v] = @ \ {i}] /\ count_decrement(v, i)
    BY <1>0 DEF api_interrupt_get
  <2>4. \A i \in E \cap P : P \ {i} \in SUBSET Intid
    OBVIOUS
  <2> QED
    BY <2>1, <2>2, <2>3, <2>4
<1>3. /\ pending' = [pending EXCEPT ![v] = Q]
      /\ pc' = [pc EXCEPT ![p] = "update"]
      /\ UNCHANGED <<current, state, regs_available, enabled, fiq, vi, vf, lock, call, next>>
  BY <1>2 DEF api_interrupt_get, Goto, sched, lines
<1>4. TypeOK'
  BY <1>0, <1>2, <1>3 DEF IInv, TypeOK
<1>5. CallInv'
  BY <1>0, <1>3 DEF IInv, TypeOK, CallInv
<1>6. HolderInv'
  BY <1>0, <1>3 DEF IInv, TypeOK, HolderInv
<1>7. SwitchInv'
  BY <1>0, <1>3, VcpuAssumption DEF IInv, TypeOK, SwitchInv, CallInv
<1>8. CountsSum'
  <2>1. Cardinality(enabled'[v] \cap pending'[v]) \in Nat
    BY <1>4, IntidCard DEF TypeOK
  <2>2. vcpu_interrupt_count(v)' = Cardinality(enabled'[v] \cap pending'[v])
                                   + (IF lock'[v] = Free THEN 0 ELSE 1)
    BY <1>0, <1>2, <1>3, <2>1 DEF IInv, TypeOK
  <2>3. \A w \in Vcpus \ {v} :
          enabled'[w] = enabled[w] /\ pending'[w] = pending[w] /\ lock'[w] = lock[w]
    BY <1>3 DEF IInv, TypeOK
  <2> QED
    BY <1>2, <2>2, <2>3, CountsAt DEF IInv
<1>9. PinnedInv'
  BY <1>0, <1>3 DEF IInv, TypeOK, PinnedInv
<1> QED
  BY <1>4, <1>5, <1>6, <1>7, <1>8, <1>9 DEF IInv

\* PG_INTERRUPT_INJECT, up to the nested switch when it wakes the target.
LEMMA InjectIInv ==
  ASSUME IInv, NEW p \in Cpu, api_interrupt_inject(p)
  PROVE  IInv'
<1>a. pc[p] = "inject" /\ lock[call[p].target] = Free
  BY DEF api_interrupt_inject
<1>b. call[p] \in InjectCalls
  BY <1>a DEF IInv, CallInv
<1>c. call[p].target \in Vcpus /\ call[p].intid \in Intid
  BY <1>b DEF InjectCalls
<1>d. enabled[call[p].target] \in SUBSET Intid /\ pending[call[p].target] \in SUBSET Intid
  BY <1>c DEF IInv, TypeOK
<1>0. PICK v \in Vcpus, i \in Intid, E \in SUBSET Intid, P \in SUBSET Intid :
        /\ v = call[p].target /\ i = call[p].intid /\ E = enabled[v] /\ P = pending[v]
        /\ lock[v] = Free /\ pc[p] = "inject" /\ call[p] \in InjectCalls
  BY <1>a, <1>b, <1>c, <1>d
<1>1. vcpu_interrupt_count(v) = Cardinality(E \cap P) /\ Cardinality(E \cap P) \in Nat
  <2>1. Cardinality(E \cap P) \in Nat
    BY IntidRoom
  <2> QED
    BY <1>0, <2>1 DEF IInv, CountsSum
<1>2. /\ irq_count' \in [Vcpus -> 0..(CountMod - 1)]
      /\ fiq_count' \in [Vcpus -> 0..(CountMod - 1)]
      /\ vcpu_interrupt_count(v)' = Cardinality(E \cap (P \cup {i}))
      /\ i \in E \ P => vcpu_interrupt_count(v)' = Cardinality(E \cap P) + 1
      /\ \A w \in Vcpus \ {v} : vcpu_interrupt_count(w)' = vcpu_interrupt_count(w)
  <2>1. CASE i \in E \ P
    <3>1. E \cap (P \cup {i}) = (E \cap P) \cup {i} /\ i \notin E \cap P
      BY <2>1
    <3>2. /\ Cardinality((E \cap P) \cup {i}) = Cardinality(E \cap P) + 1
          /\ Cardinality(E \cap P) + 1 < CountMod
      BY <3>1, IntidRoom
    <3>3. count_increment(v, i)
      BY <1>0, <2>1 DEF api_interrupt_inject, NewlyReady
    <3> QED
      BY <1>1, <3>1, <3>2, <3>3, StepUp DEF IInv
  <2>2. CASE i \notin E \ P
    <3>1. E \cap (P \cup {i}) = E \cap P
      BY <2>2
    <3>2. UNCHANGED <<irq_count, fiq_count>>
      BY <1>0, <2>2 DEF api_interrupt_inject, NewlyReady
    <3> QED
      BY <1>1, <2>2, <3>1, <3>2 DEF IInv, TypeOK, vcpu_interrupt_count
  <2> QED
    BY <2>1, <2>2
<1>3. UNCHANGED <<current, state, regs_available, enabled, fiq, vi, vf, call, next>>
  BY DEF api_interrupt_inject, sched, lines
<1>4. CASE WakesTarget(p)
  <2>0. /\ lock' = [lock EXCEPT ![v] = p] /\ pc' = [pc EXCEPT ![p] = "switch_to_vm"]
        /\ pending' = pending /\ i \in E \ P
    BY <1>0, <1>4 DEF api_interrupt_inject, Goto, WakesTarget, NewlyReady
  <2>1. TypeOK'
    BY <1>2, <1>3, <2>0 DEF IInv, TypeOK
  <2>2. CallInv'
    BY <1>0, <1>3, <2>0 DEF IInv, TypeOK, CallInv
  <2>3. HolderInv'
    BY <1>0, <1>3, <2>0 DEF IInv, TypeOK, HolderInv
  <2>4. SwitchInv'
    BY <1>0, <1>3, <2>0, VcpuAssumption DEF IInv, TypeOK, SwitchInv, CallInv, InjectCalls
  <2>5. CountsSum'
    <3>1. lock'[v] # Free
      BY <2>0, VcpuAssumption DEF IInv, TypeOK
    <3>2. vcpu_interrupt_count(v)' = Cardinality(enabled'[v] \cap pending'[v])
                                     + (IF lock'[v] = Free THEN 0 ELSE 1)
      BY <1>0, <1>2, <1>3, <2>0, <3>1
    <3>3. \A w \in Vcpus \ {v} :
            enabled'[w] = enabled[w] /\ pending'[w] = pending[w] /\ lock'[w] = lock[w]
      BY <1>3, <2>0 DEF IInv, TypeOK
    <3> QED
      BY <1>2, <3>2, <3>3, CountsAt DEF IInv
  <2>6. PinnedInv'
    BY <1>0, <1>3, <2>0, <1>4 DEF IInv, TypeOK, PinnedInv, WakesTarget
  <2> QED
    BY <2>1, <2>2, <2>3, <2>4, <2>5, <2>6 DEF IInv
<1>5. CASE ~ WakesTarget(p)
  <2>0. /\ pending' = [pending EXCEPT ![v] = P \cup {i}]
        /\ pc' = [pc EXCEPT ![p] = "update"] /\ lock' = lock
    BY <1>0, <1>5 DEF api_interrupt_inject, Goto
  <2>1. TypeOK'
    BY <1>2, <1>3, <2>0 DEF IInv, TypeOK
  <2>2. CallInv'
    BY <1>0, <1>3, <2>0 DEF IInv, TypeOK, CallInv
  <2>3. HolderInv'
    BY <1>0, <1>3, <2>0 DEF IInv, TypeOK, HolderInv
  <2>4. SwitchInv'
    BY <1>0, <1>3, <2>0, VcpuAssumption DEF IInv, TypeOK, SwitchInv, CallInv, InjectCalls
  <2>5. CountsSum'
    <3>1. enabled'[v] \cap pending'[v] = E \cap (P \cup {i}) /\ lock'[v] = Free
      BY <1>0, <1>3, <2>0 DEF IInv, TypeOK
    <3>2. Cardinality(enabled'[v] \cap pending'[v]) \in Nat
      BY <2>1, IntidCard DEF TypeOK
    <3>3. vcpu_interrupt_count(v)' = Cardinality(enabled'[v] \cap pending'[v])
                                     + (IF lock'[v] = Free THEN 0 ELSE 1)
      <4>1. vcpu_interrupt_count(v)' = Cardinality(enabled'[v] \cap pending'[v])
        BY <1>2, <3>1
      <4> QED
        BY <3>1, <3>2, <4>1
    <3>4. \A w \in Vcpus \ {v} :
            enabled'[w] = enabled[w] /\ pending'[w] = pending[w] /\ lock'[w] = lock[w]
      BY <1>3, <2>0 DEF IInv, TypeOK
    <3> QED
      BY <1>2, <3>3, <3>4, CountsAt DEF IInv
  <2>6. PinnedInv'
    BY <1>0, <1>3, <2>0, <1>5 DEF IInv, TypeOK, PinnedInv, WakesTarget
  <2> QED
    BY <2>1, <2>2, <2>3, <2>4, <2>5, <2>6 DEF IInv
<1> QED
  BY <1>4, <1>5

\* PSCI_CPU_ON of a secondary VM.
LEMMA CpuOnIInv ==
  ASSUME IInv, NEW p \in Cpu, psci_cpu_on(p)
  PROVE  IInv'
<1>0. PICK t \in Vcpus : t = call[p].target /\ pc[p] = "cpu_on"
  BY DEF IInv, CallInv, psci_cpu_on
<1>1. UNCHANGED <<current, regs_available, enabled, pending, fiq, irq_count, fiq_count, lock, next>>
  BY DEF psci_cpu_on, interrupts
<1>2. PICK c \in {NoCall, [op |-> "switch", to |-> "READY"]} :
        /\ call' = [call EXCEPT ![p] = c]
        /\ pc' = [pc EXCEPT ![p] = IF c = NoCall THEN "guest" ELSE "switch_to_vm"]
  <2>1. NoCall # [op |-> "switch", to |-> "READY"]
    BY DEF NoCall
  <2> QED
    BY <2>1 DEF psci_cpu_on, Goto
<1>3. /\ state' \in [Vcpus -> States]
      /\ vi' \in [Vcpus -> BOOLEAN] /\ vf' \in [Vcpus -> BOOLEAN]
  BY DEF psci_cpu_on, lines, IInv, TypeOK, States
<1>4. TypeOK'
  <2>1. c \in Calls
    BY DEF Calls, States
  <2> QED
    BY <1>1, <1>2, <1>3, <2>1 DEF IInv, TypeOK
<1>5. CallInv'
  BY <1>1, <1>2 DEF IInv, CallInv, TypeOK, States
<1>6. HolderInv'
  BY <1>0, <1>1, <1>2, VcpuAssumption DEF IInv, HolderInv, TypeOK
<1>7. SwitchInv'
  BY <1>1, <1>2 DEF IInv, SwitchInv, TypeOK, NoCall
<1>8. PinnedInv'
  BY <1>0, <1>1, <1>2 DEF IInv, PinnedInv, TypeOK
<1>9. CountsSum'
  BY <1>1 DEF IInv, CountsSum, vcpu_interrupt_count
<1> QED
  BY <1>4, <1>5, <1>6, <1>7, <1>8, <1>9 DEF IInv

\* A CPU that is in neither the nested switch nor its failed CHECK holds no
\* lock between two steps.
LEMMA HoldsNone ==
  ASSUME IInv, NEW p \in Cpu, pc[p] \notin {"switch_to_vm", "panic"}
  PROVE  \A v \in Vcpus : lock[v] # p
<1>1. p # Free
  BY VcpuAssumption
<1> QED
  BY <1>1 DEF IInv, HolderInv

\* PSCI_AFFINITY_INFO of a secondary VM.
LEMMA AffinityIInv ==
  ASSUME IInv, NEW p \in Cpu, psci_affinity_info(p)
  PROVE  IInv'
<1>0. \A v \in Vcpus : lock[v] # p
  <2>1. pc[p] = "affinity_info"
    BY DEF psci_affinity_info
  <2> QED
    BY <2>1, HoldsNone
<1> USE DEF IInv, psci_affinity_info, Goto, sched, interrupts, lines
<1>1. TypeOK'
  BY DEF TypeOK, CallInv, States, Calls, NoCall
<1>2. CallInv'
  BY DEF CallInv, TypeOK, States, NoCall
<1>3. HolderInv'
  <2>1. \A q \in Cpu \ {p} : pc'[q] = pc[q] /\ call'[q] = call[q]
    BY DEF TypeOK
  <2>2. lock' = lock /\ \A v \in Vcpus : lock[v] # Free => lock[v] \in Cpu
    BY DEF TypeOK
  <2> QED
    BY <1>0, <2>1, <2>2 DEF HolderInv
<1>4. SwitchInv'
  BY DEF SwitchInv, TypeOK, NoCall
<1>5. PinnedInv'
  BY DEF PinnedInv, CallInv, TypeOK
<1>6. CountsSum'
  BY DEF CountsSum, vcpu_interrupt_count
<1> QED
  BY <1>1, <1>2, <1>3, <1>4, <1>5, <1>6

\* The failed CHECK of api_switch_to_vm keeps the lock of the target held.
LEMMA CheckIInv ==
  ASSUME IInv, NEW p \in Cpu, CheckFails(p)
  PROVE  IInv'
<1> USE DEF IInv, CheckFails, Goto, sched, interrupts, lines
<1>1. TypeOK'
  BY DEF TypeOK, CallInv, States, Calls, NoCall
<1>2. CallInv'
  BY DEF CallInv, TypeOK, States, NoCall
<1>3. HolderInv'
  BY VcpuAssumption DEF HolderInv, TypeOK
<1>4. SwitchInv'
  BY DEF SwitchInv, TypeOK, NoCall
<1>5. PinnedInv'
  BY DEF PinnedInv, CallInv, TypeOK
<1>6. CountsSum'
  BY DEF CountsSum, vcpu_interrupt_count
<1> QED
  BY <1>1, <1>2, <1>3, <1>4, <1>5, <1>6

\* The VI and VF bits are set from the counters.
LEMMA UpdateIInv ==
  ASSUME IInv, NEW p \in Cpu, vcpu_update_virtual_interrupts(p)
  PROVE  IInv'
<1>1. UNCHANGED <<current, state, regs_available, enabled, pending, fiq, irq_count, fiq_count, lock, next>>
  BY DEF vcpu_update_virtual_interrupts, sched, interrupts
<1>2. /\ pc[p] = "update"
      /\ call' = [call EXCEPT ![p] = NoCall]
      /\ pc' = [pc EXCEPT ![p] = IF next[p] = NULL THEN "guest" ELSE "vcpu_switch"]
  BY DEF vcpu_update_virtual_interrupts, Goto
<1>3. vi' \in [Vcpus -> BOOLEAN] /\ vf' \in [Vcpus -> BOOLEAN]
  BY DEF vcpu_update_virtual_interrupts, set_virtual_irq, set_virtual_fiq, IInv, TypeOK
<1>4. /\ call'[p] = NoCall /\ pc'[p] \in {"guest", "vcpu_switch"}
      /\ pc'[p] = "vcpu_switch" => next[p] \in Vcpus
      /\ \A q \in Cpu \ {p} : call'[q] = call[q] /\ pc'[q] = pc[q]
  BY <1>2 DEF IInv, TypeOK
<1>5. TypeOK'
  <2>1. call' \in [Cpu -> Calls]
    BY <1>2 DEF IInv, TypeOK, Calls
  <2>2. pc' \in [Cpu -> {"guest", "enable", "disable", "get", "inject", "cpu_on", "affinity_info",
                         "switch_to_vm", "update", "vcpu_switch", "panic"}]
    BY <1>2 DEF IInv, TypeOK
  <2> QED
    BY <1>1, <1>3, <2>1, <2>2 DEF IInv, TypeOK
<1>6. CallInv'
  <2>1. ASSUME NEW q \in Cpu, q # p
        PROVE  call'[q] = call[q] /\ pc'[q] = pc[q] /\ next'[q] = next[q]
    BY <1>1, <1>4, <2>1
  <2> QED
    BY <1>1, <1>4, <2>1 DEF IInv, CallInv
<1>7. HolderInv'
  <2>1. \A v \in Vcpus : lock[v] # p
    BY <1>2, HoldsNone
  <2>2. \A v \in Vcpus : lock[v] # Free => lock[v] \in Cpu \ {p}
    BY <2>1 DEF IInv, TypeOK
  <2> QED
    BY <1>1, <1>4, <2>2 DEF IInv, HolderInv
<1>8. SwitchInv'
  <2>1. \A q \in Cpu : pc'[q] = "switch_to_vm" => pc[q] = "switch_to_vm" /\ call'[q] = call[q]
    BY <1>4
  <2> QED
    BY <1>1, <2>1 DEF IInv, SwitchInv
<1>9. PinnedInv'
  <2>1. \A q \in Cpu : pc'[q] \in {"cpu_on", "switch_to_vm"} => pc'[q] = pc[q]
    BY <1>4
  <2> QED
    BY <1>1, <2>1 DEF IInv, PinnedInv
<1>10. CountsSum'
  BY <1>1 DEF IInv, CountsSum, vcpu_interrupt_count
<1> QED
  BY <1>5, <1>6, <1>7, <1>8, <1>9, <1>10 DEF IInv

\* The context switch of a physical CPU.
LEMMA VcpuSwitchIInv ==
  ASSUME IInv, NEW p \in Cpu, vcpu_switch(p)
  PROVE  IInv'
<1>1. UNCHANGED <<state, enabled, pending, fiq, irq_count, fiq_count, vi, vf, lock>>
  BY DEF vcpu_switch, interrupts, lines
<1>2. /\ pc[p] = "vcpu_switch"
      /\ regs_available' = [regs_available EXCEPT ![current[p]] = TRUE]
      /\ current' = [current EXCEPT ![p] = next[p]]
      /\ next' = [next EXCEPT ![p] = NULL]
      /\ call' = [call EXCEPT ![p] = NoCall]
      /\ pc' = [pc EXCEPT ![p] = "guest"]
  BY DEF vcpu_switch, Goto
<1>3. next[p] \in Vcpus
  BY <1>2 DEF IInv, CallInv
<1>4. /\ call'[p] = NoCall /\ pc'[p] = "guest" /\ current'[p] = next[p] /\ next'[p] = NULL
      /\ \A q \in Cpu \ {p} : call'[q] = call[q] /\ pc'[q] = pc[q]
                              /\ current'[q] = current[q] /\ next'[q] = next[q]
  BY <1>2 DEF IInv, TypeOK
<1>5. TypeOK'
  <2>1. call' \in [Cpu -> Calls]
    BY <1>2 DEF IInv, TypeOK, Calls
  <2>2. pc' \in [Cpu -> {"guest", "enable", "disable", "get", "inject", "cpu_on", "affinity_info",
                         "switch_to_vm", "update", "vcpu_switch", "panic"}]
    BY <1>2 DEF IInv, TypeOK
  <2>3. current' \in [Cpu -> Vcpus] /\ next' \in [Cpu -> Vcpus \cup {NULL}]
    BY <1>2, <1>3 DEF IInv, TypeOK
  <2>4. regs_available' \in [Vcpus -> BOOLEAN]
    BY <1>2 DEF IInv, TypeOK
  <2> QED
    BY <1>1, <2>1, <2>2, <2>3, <2>4 DEF IInv, TypeOK
<1>6. CallInv'
  <2>1. ASSUME NEW q \in Cpu, q # p
        PROVE  call'[q] = call[q] /\ pc'[q] = pc[q] /\ next'[q] = next[q]
    BY <1>1, <1>4, <2>1
  <2> QED
    BY <1>4, <2>1 DEF IInv, CallInv
<1>7. HolderInv'
  <2>1. \A v \in Vcpus : lock[v] # p
    BY <1>2, HoldsNone
  <2>2. \A v \in Vcpus : lock[v] # Free => lock[v] \in Cpu \ {p}
    BY <2>1 DEF IInv, TypeOK
  <2> QED
    BY <1>1, <1>4, <2>2 DEF IInv, HolderInv
<1>8. SwitchInv'
  <2>1. \A q \in Cpu : pc'[q] = "switch_to_vm" => pc[q] = "switch_to_vm" /\ call'[q] = call[q]
    BY <1>4
  <2> QED
    BY <1>1, <2>1 DEF IInv, SwitchInv
<1>9. PinnedInv'
  <2>1. vm(next[p]) = PrimaryVmId
    BY <1>3, VcpuAssumption DEF IInv, PinnedInv
  <2>2. ASSUME NEW q \in Cpu
        PROVE  /\ vm(current'[q]) # PrimaryVmId => current'[q] = pinned[q]
               /\ pc'[q] \in {"cpu_on", "switch_to_vm"} => vm(current'[q]) # PrimaryVmId
               /\ next'[q] # NULL => vm(next'[q]) = PrimaryVmId
    <3>1. CASE q = p
      BY <1>4, <2>1, <3>1
    <3>2. CASE q # p
      BY <1>4, <3>2 DEF IInv, PinnedInv
    <3> QED
      BY <3>1, <3>2
  <2> QED
    BY <2>2 DEF PinnedInv, vm
<1>10. CountsSum'
  BY <1>1 DEF IInv, CountsSum, vcpu_interrupt_count
<1> QED
  BY <1>5, <1>6, <1>7, <1>8, <1>9, <1>10 DEF IInv

\* The nested switch: the pending bit catches up with the count as the lock of
\* the target is released.
LEMMA SwitchToVmIInv ==
  ASSUME IInv, NEW p \in Cpu, api_switch_to_vm(p)
  PROVE  IInv'
<1>0. /\ current[p] = pinned[p] /\ current[p] \in Vcpus /\ pc[p] = "switch_to_vm"
      /\ call[p] \in InjectCalls \cup [op : {"switch"}, to : States]
      /\ lock[current[p]] = Free
  BY DEF IInv, TypeOK, PinnedInv, CallInv, api_switch_to_vm
<1>1. /\ next' \in [Cpu -> Vcpus \cup {NULL}] /\ next'[p] \in Vcpus
      /\ vm(next'[p]) = PrimaryVmId /\ \A q \in Cpu \ {p} : next'[q] = next[q]
  BY <1>0, PrimaryVcpu DEF IInv, TypeOK, api_switch_to_vm
<1>2. UNCHANGED <<current, regs_available, enabled, fiq, irq_count, fiq_count, vi, vf, call>>
  BY DEF api_switch_to_vm, lines
<1>3. CASE call[p].op = "inject"
  <2>0. PICK v \in Vcpus, i \in Intid :
          /\ v = call[p].target /\ i = call[p].intid /\ call[p] \in InjectCalls
          /\ lock[v] = p /\ i \in enabled[v] \ pending[v]
    BY <1>0, <1>3 DEF IInv, SwitchInv, InjectCalls
  <2>1. /\ state' = [state EXCEPT ![current[p]] = "READY"]
        /\ pending' = [pending EXCEPT ![v] = @ \cup {i}]
        /\ lock' = [lock EXCEPT ![v] = Free]
        /\ pc' = [pc EXCEPT ![p] = "update"]
    BY <1>3, <2>0 DEF api_switch_to_vm, FinishInject, Goto
  <2>2. TypeOK'
    BY <1>1, <1>2, <2>0, <2>1 DEF IInv, TypeOK, States
  <2>3. CallInv'
    BY <1>1, <1>2, <2>1 DEF IInv, TypeOK, CallInv
  <2>4. HolderInv'
    BY <1>2, <2>0, <2>1 DEF IInv, TypeOK, HolderInv
  <2>5. SwitchInv'
    <3>1. pc'[p] = "update" /\ \A q \in Cpu \ {p} : pc'[q] = pc[q]
      BY <2>1 DEF IInv, TypeOK
    <3>2. \A w \in Vcpus \ {v} : pending'[w] = pending[w] /\ lock'[w] = lock[w]
      BY <2>1 DEF IInv, TypeOK
    <3>3. ASSUME NEW q \in Cpu, pc'[q] = "switch_to_vm", call'[q].op = "inject"
          PROVE  /\ lock'[call'[q].target] = q
                 /\ call'[q].intid \in enabled'[call'[q].target] \ pending'[call'[q].target]
      <4>1. q # p /\ pc[q] = "switch_to_vm" /\ call[q].op = "inject" /\ call' = call /\ enabled' = enabled
        BY <1>2, <3>1, <3>3
      <4>2. /\ lock[call[q].target] = q
            /\ call[q].intid \in enabled[call[q].target] \ pending[call[q].target]
        BY <4>1 DEF IInv, SwitchInv
      <4>3. call[q] \in InjectCalls \cup [op : {"switch"}, to : States]
        BY <4>1 DEF IInv, CallInv
      <4>4. call[q].target \in Vcpus
        BY <4>1, <4>3 DEF InjectCalls
      <4>5. call[q].target # v
        BY <2>0, <4>1, <4>2
      <4> QED
        BY <3>2, <4>1, <4>2, <4>4, <4>5
    <3> QED
      BY <3>3 DEF SwitchInv
  <2>6. PinnedInv'
    BY <1>1, <1>2, <2>1 DEF IInv, TypeOK, PinnedInv
  <2>7. CountsSum'
    <3>1. vcpu_interrupt_count(v) = Cardinality(enabled[v] \cap pending[v]) + 1
      BY <2>0, VcpuAssumption DEF IInv, CountsSum
    <3>2. /\ enabled'[v] \cap pending'[v] = (enabled[v] \cap pending[v]) \cup {i}
          /\ lock'[v] = Free
      BY <1>2, <2>0, <2>1 DEF IInv, TypeOK
    <3>3. /\ Cardinality(enabled'[v] \cap pending'[v]) = Cardinality(enabled[v] \cap pending[v]) + 1
          /\ Cardinality(enabled'[v] \cap pending'[v]) \in Nat
      <4>1. enabled[v] \cap pending[v] \in SUBSET Intid /\ i \notin enabled[v] \cap pending[v]
        BY <2>0 DEF IInv, TypeOK
      <4> QED
        BY <3>2, <4>1, IntidRoom
    <3>4. \A w \in Vcpus : vcpu_interrupt_count(w)' = vcpu_interrupt_count(w)
      BY <1>2 DEF vcpu_interrupt_count
    <3>5. vcpu_interrupt_count(v)' = Cardinality(enabled'[v] \cap pending'[v])
                                     + (IF lock'[v] = Free THEN 0 ELSE 1)
      BY <3>1, <3>2, <3>3, <3>4
    <3>6. \A w \in Vcpus \ {v} :
            enabled'[w] = enabled[w] /\ pending'[w] = pending[w] /\ lock'[w] = lock[w]
      BY <1>2, <2>1 DEF IInv, TypeOK
    <3> QED
      BY <3>4, <3>5, <3>6, CountsAt DEF IInv
  <2> QED
    BY <2>2, <2>3, <2>4, <2>5, <2>6, <2>7 DEF IInv
<1>4. CASE call[p].op # "inject"
  <2>1. /\ state' = [state EXCEPT ![current[p]] = call[p].to] /\ call[p].to \in States
        /\ UNCHANGED <<pending, lock>>
        /\ pc' = [pc EXCEPT ![p] = "vcpu_switch"]
    BY <1>0, <1>4 DEF api_switch_to_vm, ReturnNext, Goto, InjectCalls
  <2>2. TypeOK'
    BY <1>1, <1>2, <2>1 DEF IInv, TypeOK
  <2>3. CallInv'
    BY <1>1, <1>2, <2>1 DEF IInv, TypeOK, CallInv
  <2>4. HolderInv'
    <3>1. \A v \in Vcpus : lock[v] # p
      BY <1>4, VcpuAssumption DEF IInv, HolderInv, InjectCalls
    <3> QED
      BY <1>2, <2>1, <3>1 DEF IInv, TypeOK, HolderInv
  <2>5. SwitchInv'
    BY <1>2, <2>1 DEF IInv, TypeOK, SwitchInv
  <2>6. PinnedInv'
    BY <1>1, <1>2, <2>1 DEF IInv, TypeOK, PinnedInv
  <2>7. CountsSum'
    BY <1>2, <2>1 DEF IInv, CountsSum, vcpu_interrupt_count
  <2> QED
    BY <2>2, <2>3, <2>4, <2>5, <2>6, <2>7 DEF IInv
<1> QED
  BY <1>3, <1>4

\* Every step preserves the inductive invariant.
LEMMA NextIInv == IInv /\ [Next]_vars => IInv'
<1> SUFFICES ASSUME IInv, [Next]_vars PROVE IInv'
  OBVIOUS
<1>1. ASSUME NEW p \in Cpu, GuestStep(p) PROVE IInv'
  BY <1>1, GuestIInv
<1>2. ASSUME NEW p \in Cpu, HandlerStep(p) PROVE IInv'
  BY <1>2, EnableIInv, DisableIInv, GetIInv, InjectIInv, CpuOnIInv, AffinityIInv,
     SwitchToVmIInv, CheckIInv, UpdateIInv, VcpuSwitchIInv DEF HandlerStep
<1>3. CASE UNCHANGED vars
  BY <1>3 DEF vars, sched, interrupts, lines, IInv, TypeOK, CallInv, HolderInv, SwitchInv,
              PinnedInv, CountsSum, vcpu_interrupt_count
<1> QED
  BY <1>1, <1>2, <1>3 DEF Next

\* The inductive invariant holds in every reachable state of the hypercalls.
THEOREM VcpuInvariant == Spec => []IInv
  BY InitIInv, NextIInv, PTL DEF Spec

\* Type correctness, in particular that the wrapping counters stay in range
\* and a switch always has a vCPU to go to.
THEOREM VcpuTypeCorrect == Spec => []TypeOK
<1>1. IInv => TypeOK
  BY DEF IInv
<1> QED
  BY <1>1, VcpuInvariant, PTL

\* The sum of enabled_and_pending_irq_count and enabled_and_pending_fiq_count
\* is the number of enabled and pending interrupts of the vCPU, whatever types
\* the guest passes and whoever injects.
THEOREM VcpuCountsSum == Spec => []CountsSum
<1>1. IInv => CountsSum
  BY DEF IInv
<1> QED
  BY <1>1, VcpuInvariant, PTL

=============================================================================
