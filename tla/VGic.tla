-------------------------------- MODULE VGic --------------------------------
(***************************************************************************)
(* Guest accesses to the GIC (src/src/arch/aarch64/emulator.c): every CPU  *)
(* traps by itself, the accesses are serialised by one spinlock, and the   *)
(* CPU with id 0 resets the distributor whenever it comes up.              *)
(*                                                                         *)
(* On the modelled platform MPIDR.MT is set, so that the id of CPU n is    *)
(* n << 8, and the id 0 of CPU 0 is also the reset value of a route.  The  *)
(* vGIC's copies of the registers are only what a guest reads back; they   *)
(* are left out.  The distributor and the redistributors are external.     *)
(***************************************************************************)
EXTENDS Integers, Sequences, FiniteSets, FiniteSetsExt

CONSTANTS NCpus,        \* physical CPUs are 0 .. NCpus - 1
          cpus,         \* vm->cpus: VM -> sequence of physical CPUs
          Uses,         \* VM -> interrupts its guest drives
          Accesses,     \* VM -> accesses its guest makes, some of Writes(VM)
          Frames,       \* redistributor frames of a vGIC, MAX_FB_GICR
          UintMod,      \* 2^32 in the code
          MaxAccesses, MaxOffs  \* bounds on what the guests do

NULL == 0
Cpus == 0 .. NCpus - 1
Vms == DOMAIN cpus
Intids == UNION {Uses[v] : v \in Vms}
Own(v) == {cpus[v][i] : i \in DOMAIN cpus[v]}
VmOf(c) == CHOOSE v \in Vms : c \in Own(v)
VcpuCount(v) == Len(cpus[v])

\* What a guest may access: interrupts of one GICD_ISENABLERn at a time.
Word(i) == i \div 32
Writes(v) ==
  [k : {"ctlr", "read", "unclaimed", "invalid"}]
    \union [k : {"irouter"}, i : Uses[v], to : 0 .. VcpuCount(v), irm : BOOLEAN]
    \union [k : {"enable", "disable"},
            s : {s \in SUBSET Uses[v] : s # {} /\ \A i, j \in s : Word(i) = Word(j)}]
    \union [k : {"gicr"}, f : 0 .. Frames - 1]

ASSUME VGicAssumption ==
  /\ NCpus \in Nat \ {0} /\ {Frames, UintMod} \subseteq Nat
  /\ NULL \notin Vms
  /\ \A v \in Vms : cpus[v] \in Seq(Cpus) \ {<<>>} /\ Uses[v] \subseteq Nat
  /\ \A v, w \in Vms : v # w => Own(v) \cap Own(w) = {}
  /\ UNION {Own(v) : v \in Vms} = Cpus
  /\ UintMod > Frames /\ Frames >= NCpus
  /\ \A v \in Vms : Accesses[v] \subseteq Writes(v)

VARIABLES pc,      \* step of the handler a CPU is in, "guest", "starting" or "off"
          acc,     \* the trapped access of a CPU
          todo,    \* interrupts of an enable still to be routed
          saved,   \* value of GICD_CTLR read by a write to it
          locked,  \* spinlock
          ready,   \* vcpu->state != VCPU_STATE_OFF
          bound,   \* vcpu->cpu != NULL
          ctlr,    \* bits of the real GICD_CTLR
          irouter, enabled, \* real GICD_IROUTERn and GICD_ISENABLER bits
          owner,   \* interrupts[].vm
          gicr,    \* <<VM, frame of its vGIC>> that wrote to a real frame
          n, offs, \* accesses and CPU_OFFs so far
          stray,   \* history: the lock was released under another CPU
          late     \* history: GICD_CTLR was written back with an old value

gic == <<ctlr, irouter, enabled, owner, gicr>>
history == <<stray, late>>
vars == <<pc, acc, todo, saved, locked, ready, bound, gic, n, offs, history>>

ARE_NS == "ARE_NS"
EnableGrp1 == "EnableGrp1"
EnableGrp1A == "EnableGrp1A"

NoRoute == [irm |-> FALSE, cpu |-> 0]
Zero(r) == r = NoRoute
Idle == [k |-> "none"]

Goto(c, l) == pc' = [pc EXCEPT ![c] = l]
KeepGuests == UNCHANGED <<ready, bound, n, offs>>

----------------------------------------------------------------------------
\* Bit 31 of GICD_IROUTERn is the one-of-N mode, which takes any CPU.
Route(irm, c) == [irm |-> irm, cpu |-> c]

\* A data abort that no virtual device claimed.  An address that is not the
\* GIC's, a missing syndrome or a hole between the registers leave early.
access_gicv3(c) ==
  /\ pc[c] = "guest" /\ n < MaxAccesses
  /\ \E a \in Accesses[VmOf(c)] :
       /\ acc' = [acc EXCEPT ![c] = a]
       /\ Goto(c, IF a.k \in {"unclaimed", "invalid"} THEN "out" ELSE "lock")
  /\ n' = n + 1
  /\ UNCHANGED <<todo, saved, locked, ready, bound, gic, offs, history>>

LockNever(c) ==
  /\ pc[c] = "lock"
  /\ locked' = TRUE /\ Goto(c, "write")
  /\ UNCHANGED <<acc, todo, saved, gic, history>> /\ KeepGuests

sl_lock(c) ==
  /\ pc[c] = "lock" /\ ~locked
  /\ locked' = TRUE /\ Goto(c, "write")
  /\ UNCHANGED <<acc, todo, saved, gic, history>> /\ KeepGuests

UnlockForgotten(c) ==
  /\ pc[c] = "out"
  /\ locked' = (locked /\ acc[c].k = "disable")
  /\ stray' = (stray \/ (locked /\ acc[c].k \in {"unclaimed", "invalid"}))
  /\ acc' = [acc EXCEPT ![c] = Idle] /\ Goto(c, "guest")
  /\ UNCHANGED <<todo, saved, gic, late>> /\ KeepGuests

\* Every path leaves through here, also those that did not take the lock.
sl_unlock(c) ==
  /\ pc[c] = "out"
  /\ locked' = FALSE
  /\ stray' = (stray \/ (locked /\ acc[c].k \in {"unclaimed", "invalid"}))
  /\ acc' = [acc EXCEPT ![c] = Idle] /\ Goto(c, "guest")
  /\ UNCHANGED <<todo, saved, gic, late>> /\ KeepGuests

----------------------------------------------------------------------------
\* The CPU a route is given for vCPU number t: that of the vCPU if it is on,
\* otherwise the one that made the access.
HostUntranslated(c, t) == IF t < NCpus THEN t ELSE c

host_id(c, t) ==
  LET v == VmOf(c)
  IN  IF /\ t < VcpuCount(v)
         /\ bound[cpus[v][t + 1]] /\ ready[cpus[v][t + 1]]
      THEN cpus[v][t + 1] ELSE c

\* The physical frame of frame f of the vGIC.  vm->cpus is zero behind its
\* end, and the difference of two numbers is an unsigned 32-bit one.
FrameSigned(c, f) ==
  LET v == VmOf(c)
      p == IF f < VcpuCount(v) THEN cpus[v][f + 1] ELSE IF f = VcpuCount(v) THEN 0 ELSE c
  IN  f + (p - f)

gicr_adjust_cpu_offset(c, f) ==
  LET v == VmOf(c)
      p == IF f < VcpuCount(v) THEN cpus[v][f + 1] ELSE IF f = VcpuCount(v) THEN 0 ELSE c
  IN  f + ((p - f) % UintMod)

\* write_to_reg, up to the store to the real GIC.
Store(c) ==
  /\ pc[c] = "write" /\ acc[c].k \notin {"ctlr", "read", "gicr"}
  /\ LET a == acc[c]
     IN  /\ irouter' = IF a.k = "irouter" THEN [irouter EXCEPT ![a.i] = Route(a.irm, host_id(c, a.to))]
                       ELSE irouter
         /\ enabled' = CASE a.k = "enable" -> enabled \union a.s
                         [] a.k = "disable" -> enabled \ a.s
                         [] OTHER -> enabled
         /\ todo' = [todo EXCEPT ![c] = IF a.k = "enable" THEN a.s ELSE {}]
         /\ Goto(c, IF a.k = "enable" THEN "check" ELSE "out")
  /\ UNCHANGED <<acc, saved, locked, ctlr, owner, gicr, history>> /\ KeepGuests

\* A read only looks at the vGIC.
ReadVgic(c) == /\ pc[c] = "write" /\ acc[c].k = "read" /\ Goto(c, "out")
               /\ UNCHANGED <<acc, todo, saved, locked, gic, history>> /\ KeepGuests

\* GICD_CTLR is written with the value it has.
ReadCtlr(c) == /\ pc[c] = "write" /\ acc[c].k = "ctlr"
               /\ saved' = [saved EXCEPT ![c] = ctlr] /\ Goto(c, "wb")
               /\ UNCHANGED <<acc, todo, locked, gic, history>> /\ KeepGuests

WriteGuestCtlr(c) ==
  /\ pc[c] = "wb" /\ ctlr' = {} /\ Goto(c, "out")
  /\ late' = (late \/ saved[c] # ctlr)
  /\ UNCHANGED <<acc, todo, saved, locked, irouter, enabled, owner, gicr, stray>>
  /\ KeepGuests

WriteBackCtlr(c) ==
  /\ pc[c] = "wb" /\ ctlr' = saved[c] /\ Goto(c, "out")
  /\ late' = (late \/ saved[c] # ctlr)
  /\ UNCHANGED <<acc, todo, saved, locked, irouter, enabled, owner, gicr, stray>>
  /\ KeepGuests

\* A store outside the mapped frames is an exception at EL2.
WriteGicr(c) ==
  /\ pc[c] = "write" /\ acc[c].k = "gicr"
  /\ LET f == gicr_adjust_cpu_offset(c, acc[c].f)
     IN  IF f \in Cpus
           THEN gicr' = [gicr EXCEPT ![f] = @ \union {<<VmOf(c), acc[c].f>>}] /\ Goto(c, "out")
           ELSE UNCHANGED gicr /\ Goto(c, "panic")
  /\ UNCHANGED <<acc, todo, saved, locked, ctlr, irouter, enabled, owner, history>> /\ KeepGuests

----------------------------------------------------------------------------
\* The loop over the bits of GICD_ISENABLERn.
Current(c) == Min(todo[c])
Routable(i) == i >= 32 /\ i <= 988

routed_to_vm(i, v) ==
  /\ irouter[i].irm
  /\ \E c \in Own(v) : bound[c] /\ ready[c] /\ c = irouter[i].cpu

\* Another VM may hold the interrupt: its route stays with the old owner.
NeedsReroute(i, v) == ~Zero(irouter[i]) /\ v # owner[i]

route_intid_to_cpu(c) ==
  /\ pc[c] = "check"
  /\ LET i == Current(c) v == VmOf(c)
         here == Routable(i) /\ ~routed_to_vm(i, v)
     IN  /\ Goto(c, IF here /\ NeedsReroute(i, v) THEN "reroute" ELSE "own")
         /\ irouter' = IF here /\ ~NeedsReroute(i, v) THEN [irouter EXCEPT ![i] = Route(FALSE, c)]
                       ELSE irouter
  /\ UNCHANGED <<acc, todo, saved, locked, ctlr, enabled, owner, gicr, history>> /\ KeepGuests

\* The first vCPU of the recorded owner that is on, on another CPU.  Without
\* an owner, or for a vCPU that has no CPU yet, a null pointer is followed.
reroute_intid_to_vm(c) ==
  /\ pc[c] = "reroute"
  /\ LET i == Current(c) v == owner[i]
         others == IF v = NULL THEN {}
                   ELSE {j \in DOMAIN cpus[v] : ready[cpus[v][j]] /\ cpus[v][j] # c}
     IN  IF v = NULL \/ (others # {} /\ ~bound[cpus[v][Min(others)]])
           THEN Goto(c, "panic") /\ UNCHANGED irouter
           ELSE /\ irouter' = [irouter EXCEPT ![i] = IF others = {} THEN NoRoute
                                                     ELSE Route(FALSE, cpus[v][Min(others)])]
                /\ Goto(c, "own")
  /\ UNCHANGED <<acc, todo, saved, locked, ctlr, enabled, owner, gicr, history>> /\ KeepGuests

SetOwner(c) ==
  /\ pc[c] = "own"
  /\ owner' = [owner EXCEPT ![Current(c)] = VmOf(c)]
  /\ todo' = [todo EXCEPT ![c] = @ \ {Current(c)}]
  /\ Goto(c, IF todo[c] = {Current(c)} THEN "out" ELSE "check")
  /\ UNCHANGED <<acc, saved, locked, ctlr, irouter, enabled, gicr, history>> /\ KeepGuests

----------------------------------------------------------------------------
\* cpu_main and arch_cpu_init: CPU 0 goes through init_gic, without the lock
\* and while the CPUs of other VMs may already run their guests.
cpu_main(c) ==
  /\ pc[c] = "starting"
  /\ bound' = [bound EXCEPT ![c] = TRUE]
  /\ Goto(c, IF c = 0 THEN "ctlr_zero" ELSE "guest")
  /\ UNCHANGED <<acc, todo, saved, locked, ready, gic, n, offs, history>>

CtlrBits == CASE pc[0] = "ctlr_zero" -> {}
              [] pc[0] = "ctlr_are" -> ctlr \union {ARE_NS}
              [] OTHER -> ctlr \union {IF ARE_NS \in ctlr THEN EnableGrp1A ELSE EnableGrp1}

init_gic ==
  /\ pc[0] \in {"ctlr_zero", "ctlr_are", "ctlr_enable"}
  /\ ctlr' = CtlrBits
  /\ Goto(0, CASE pc[0] = "ctlr_zero" -> "ctlr_are" [] pc[0] = "ctlr_are" -> "ctlr_enable"
               [] OTHER -> "owners")
  /\ UNCHANGED <<acc, todo, saved, locked, irouter, enabled, owner, gicr, history>> /\ KeepGuests

init_interrupt_owners ==
  /\ pc[0] = "owners"
  /\ owner' = [i \in Intids |-> NULL]
  /\ Goto(0, "guest")
  /\ UNCHANGED <<acc, todo, saved, locked, ctlr, irouter, enabled, gicr, history>> /\ KeepGuests

\* PSCI, as far as it matters here: a CPU turns itself off, another CPU of
\* its VM turns it on.  The state of the vCPU stays what it was.
CpuOff(c) ==
  /\ pc[c] = "guest" /\ offs < MaxOffs
  /\ Goto(c, "off") /\ offs' = offs + 1
  /\ UNCHANGED <<acc, todo, saved, locked, ready, bound, gic, n, history>>

CpuOn(c, d) ==
  /\ pc[d] = "guest" /\ VmOf(c) = VmOf(d) /\ pc[c] = "off"
  /\ ready' = [ready EXCEPT ![c] = TRUE]
  /\ Goto(c, "starting")
  /\ UNCHANGED <<acc, todo, saved, locked, bound, gic, n, offs, history>>

\* After one_time_init: the first vCPU of every VM is on, its CPU is started.
Init ==
  /\ pc = [c \in Cpus |-> IF c = cpus[VmOf(c)][1] THEN "starting" ELSE "off"]
  /\ acc = [c \in Cpus |-> Idle] /\ todo = [c \in Cpus |-> {}] /\ saved = [c \in Cpus |-> {}]
  /\ locked = FALSE
  /\ ready = [c \in Cpus |-> c = cpus[VmOf(c)][1]]
  /\ bound = [c \in Cpus |-> FALSE]
  /\ ctlr = {} /\ irouter = [i \in Intids |-> NoRoute] /\ enabled = {}
  /\ owner = [i \in Intids |-> NULL] /\ gicr = [f \in Cpus |-> {}]
  /\ n = 0 /\ offs = 0
  /\ stray = FALSE /\ late = FALSE

Handler(c) == \/ sl_lock(c) \/ sl_unlock(c) \/ Store(c) \/ ReadVgic(c) \/ ReadCtlr(c)
              \/ WriteBackCtlr(c) \/ WriteGicr(c) \/ route_intid_to_cpu(c)
              \/ reroute_intid_to_vm(c) \/ SetOwner(c)
              \/ cpu_main(c) \/ (c = 0 /\ (init_gic \/ init_interrupt_owners))
Guest(c) == access_gicv3(c) \/ CpuOff(c) \/ \E d \in Cpus : CpuOn(c, d)

Next == \E c \in Cpus : Handler(c) \/ Guest(c)

\* A CPU inside the hypervisor keeps executing.
Spec == Init /\ [][Next]_vars /\ \A c \in Cpus : WF_vars(Handler(c))

----------------------------------------------------------------------------
Inside == {"write", "wb", "check", "reroute", "own"}
Initialising == {"starting", "ctlr_zero", "ctlr_are", "ctlr_enable", "owners"}

\* Two CPUs are inside the locked part of access_gicv3 only after an access
\* that left early has released the lock it never took.
ExclusiveAccess == ~stray => Cardinality({c \in Cpus : pc[c] \in Inside}) <= 1

\* An interrupt that one VM alone uses is, once enabled, delivered to a CPU
\* of that VM, unless the guest chose the one-of-N mode: the numbers in guest
\* routes are translated, and enabling an interrupt takes its route over.
DeliveredToUser == \A v \in Vms : \A i \in Uses[v] :
  (/\ i \in enabled /\ Routable(i) /\ ~irouter[i].irm
   /\ \A w \in Vms : i \in Uses[w] => w = v
   /\ \A c \in Cpus : i \notin todo[c])
  => irouter[i].cpu \in Own(v)

\* Once CPU 0 runs its guest the distributor is on, whatever the guests
\* write to GICD_CTLR; the exception is a CPU that read the register before
\* init_gic was done and wrote the old value back afterwards.
DistributorOn == pc[0] \notin Initialising \union {"off"} /\ ~late => ctlr = {ARE_NS, EnableGrp1A}

\* A VM only ever writes to redistributor frames of its own CPUs, and through
\* frame f of its vGIC to that of its vCPU f; one frame further the unsigned
\* difference wraps around and the store does not reach another VM's frame.
FramesOwn == \A f \in Cpus : \A w \in gicr[f] :
  IF w[2] < VcpuCount(w[1]) THEN f = cpus[w[1]][w[2] + 1] ELSE f \in Own(w[1])

\* Every trapped access returns to the guest, unless a CPU has stopped inside
\* the handler, which leaves the lock taken for good.
AccessReturns == \A c \in Cpus :
  (pc[c] \in Inside \union {"lock", "out"}) ~> (pc[c] = "guest" \/ \E d \in Cpus : pc[d] = "panic")
=============================================================================
