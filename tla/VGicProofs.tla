----------------------------- MODULE VGicProofs -----------------------------
(***************************************************************************)
(* The safety properties of VGic for every number of CPUs, every           *)
(* assignment of CPUs and interrupts to VMs and all accesses of guests.    *)
(***************************************************************************)
EXTENDS VGic, WellFoundedInduction, FiniteSetTheorems, TLAPS

Routing == {"check", "reroute", "own"}
Booting == {"ctlr_zero", "ctlr_are", "ctlr_enable", "owners"}
Steps == {"off", "starting", "guest", "lock", "out", "panic"} \union Booting \union Inside
Requests == (UNION {Accesses[v] : v \in Vms}) \union {Idle}

-----------------------------------------------------------------------------
\* The inductive invariant, in parts.

TypeOK ==
  /\ pc \in [Cpus -> Steps] /\ acc \in [Cpus -> Requests]
  /\ todo \in [Cpus -> SUBSET Intids]
  /\ ready \in [Cpus -> BOOLEAN] /\ bound \in [Cpus -> BOOLEAN]
  /\ irouter \in [Intids -> [irm : BOOLEAN, cpu : Cpus]] /\ enabled \subseteq Intids
  /\ owner \in [Intids -> Vms \union {NULL}]
  /\ gicr \in [Cpus -> SUBSET (Vms \X Nat)]
  /\ {locked, stray, late} \subseteq BOOLEAN

\* A CPU in the handler works on an access of its own VM, and routes the
\* interrupts of an enable only.
AccessInv == \A c \in Cpus :
  /\ pc[c] \in Inside \union {"lock", "out"} => acc[c] \in Accesses[VmOf(c)]
  /\ todo[c] \subseteq Uses[VmOf(c)]
  /\ pc[c] \in Routing => todo[c] # {}
  /\ pc[c] \notin Routing \union {"panic"} => todo[c] = {}
  /\ pc[c] # "off" => ready[c]

\* A CPU that took the lock and has not come to sl_unlock yet.
Holds(c) == \/ pc[c] \in Inside \union {"panic"}
            \/ pc[c] = "out" /\ acc[c].k \notin {"unclaimed", "invalid"}

LockInv == ~stray =>
  /\ \A c \in Cpus : Holds(c) => locked
  /\ \A c, d \in Cpus : Holds(c) /\ Holds(d) => c = d

CtlrInv == ~late =>
  /\ pc[0] = "ctlr_are" => ctlr = {}
  /\ pc[0] = "ctlr_enable" => ctlr = {ARE_NS}
  /\ pc[0] \in {"owners", "guest", "lock", "out", "panic"} \union Inside => ctlr = {ARE_NS, EnableGrp1A}

\* VM v alone uses interrupt i.
Sole(v, i) == i \in Uses[v] /\ \A w \in Vms : i \in Uses[w] => w = v
Reaches(v, i) == irouter[i].cpu \in Own(v)

\* A route taken away while the interrupt had no owner would stop the CPU; an
\* owner that appears in between is the same VM, on another CPU that is on.
Routed(v, i) ==
  /\ owner[i] \in {NULL, v}
  /\ \A c \in Cpus : pc[c] = "reroute" /\ Current(c) = i /\ owner[i] = v =>
       \E d \in Own(v) : d # c /\ ready[d]
  /\ \A c \in Cpus : pc[c] = "own" /\ Current(c) = i /\ Routable(i) => Reaches(v, i)
  /\ i \in enabled /\ Routable(i) => Reaches(v, i) \/ \E c \in Cpus : i \in todo[c]

RouteInv == \A v \in Vms : \A i \in Uses[v] : Sole(v, i) => Routed(v, i)

-----------------------------------------------------------------------------

\* The first interrupt of a word exists: CHOOSE in Min has something to choose.
LEMMA MinIn ==
  ASSUME NEW S, S \subseteq Nat, S # {}
  PROVE  Min(S) \in S
<1>1. \E x \in S : \A y \in S : ~(<<y, x>> \in OpToRel(<, Nat))
  BY WFMin, NatLessThanWellFounded, Zenon
<1>2. \A x, y \in Nat : x < y => <<x, y>> \in OpToRel(<, Nat)
  BY Zenon DEF OpToRel
<1>3. \E x \in S : \A y \in S : ~(y < x)
  BY <1>1, <1>2, Zenon
<1>4. \E x \in S : \A y \in S : x =< y
  BY <1>3
<1> QED BY <1>4 DEF Min

\* Every CPU is in the VM VmOf answers, and in no other.
LEMMA VmOfCpu ==
  /\ \A c \in Cpus : VmOf(c) \in Vms /\ c \in Own(VmOf(c))
  /\ \A v \in Vms : \A c \in Own(v) : c \in Cpus /\ VmOf(c) = v
<1>1. \A c \in Cpus : \E v \in Vms : c \in Own(v)
  BY VGicAssumption
<1>2. \A c \in Cpus : VmOf(c) \in Vms /\ c \in Own(VmOf(c))
  BY <1>1 DEF VmOf
<1>3. \A v \in Vms : \A c \in Own(v) : c \in Cpus
  BY VGicAssumption
<1> QED BY <1>2, <1>3, VGicAssumption

\* A difference below the modulus is kept, a negative one wraps around.
LEMMA Wraps ==
  ASSUME NEW a \in Int, NEW m \in Nat, -m < a, a < m
  PROVE  a % m = IF a >= 0 THEN a ELSE a + m
<1>1. CASE a >= 0
  BY <1>1
<1>2. CASE a < 0
  BY <1>2
<1> QED BY <1>1, <1>2

\* What Writes says of the fields of an access.
LEMMA AccessShape ==
  ASSUME NEW v \in Vms, NEW a \in Accesses[v]
  PROVE  /\ a.k = "irouter" => a.i \in Uses[v] /\ a.to \in Nat /\ a.irm \in BOOLEAN
         /\ a.k \in {"enable", "disable"} => a.s \subseteq Uses[v] /\ a.s # {}
         /\ a.k = "gicr" => a.f \in 0 .. Frames - 1
         /\ a.k \in {"ctlr", "read", "unclaimed", "invalid", "irouter", "enable", "disable", "gicr"}
<1>1. a \in Writes(v)
  BY VGicAssumption
<1>2. VcpuCount(v) \in Nat
  BY VGicAssumption DEF VcpuCount
<1>3. CASE a \in [k : {"ctlr", "read", "unclaimed", "invalid"}]
  BY <1>3
<1>4. CASE a \in [k : {"irouter"}, i : Uses[v], to : 0 .. VcpuCount(v), irm : BOOLEAN]
  BY <1>2, <1>4
<1>5. CASE a \in [k : {"enable", "disable"},
                  s : {s \in SUBSET Uses[v] : s # {} /\ \A i, j \in s : Word(i) = Word(j)}]
  BY <1>5
<1>6. CASE a \in [k : {"gicr"}, f : 0 .. Frames - 1]
  BY <1>6
<1> QED BY <1>1, <1>3, <1>4, <1>5, <1>6 DEF Writes

\* host_id answers a CPU of the VM that makes the access.
LEMMA HostOwn ==
  ASSUME NEW c \in Cpus, NEW t \in Nat
  PROVE  host_id(c, t) \in Own(VmOf(c))
<1> DEFINE v == VmOf(c)
<1>1. v \in Vms /\ c \in Own(v)
  BY VmOfCpu
<1>2. cpus[v] \in Seq(Cpus)
  BY <1>1, VGicAssumption
<1>3. CASE t < Len(cpus[v])
  <2>1. t + 1 \in DOMAIN cpus[v]
    BY <1>2, <1>3
  <2> QED BY <1>1, <2>1 DEF host_id, Own
<1>4. CASE ~(t < Len(cpus[v]))
  BY <1>1, <1>4 DEF host_id, VcpuCount
<1> QED BY <1>3, <1>4

-----------------------------------------------------------------------------
\* The interrupt at hand is one of those the access enables.
LEMMA CurrentIn ==
  ASSUME AccessInv, NEW c \in Cpus, pc[c] \in Routing
  PROVE  /\ Current(c) \in todo[c]
         /\ Current(c) \in Uses[VmOf(c)]
         /\ Current(c) \in Intids
<1>1. todo[c] \subseteq Uses[VmOf(c)] /\ todo[c] # {}
  BY DEF AccessInv
<1>2. VmOf(c) \in Vms
  BY VmOfCpu
<1>3. todo[c] \subseteq Nat
  BY <1>1, <1>2, VGicAssumption
<1>4. Current(c) \in todo[c]
  BY <1>1, <1>3, MinIn DEF Current
<1> QED BY <1>1, <1>2, <1>4 DEF Intids

\* The vCPU reroute_intid_to_vm finds runs on a CPU of the owner.
LEMMA RerouteOwn ==
  ASSUME NEW v \in Vms, NEW c,
         {j \in DOMAIN cpus[v] : ready[cpus[v][j]] /\ cpus[v][j] # c} # {}
  PROVE  /\ cpus[v][Min({j \in DOMAIN cpus[v] : ready[cpus[v][j]] /\ cpus[v][j] # c})] \in Own(v)
         /\ cpus[v][Min({j \in DOMAIN cpus[v] : ready[cpus[v][j]] /\ cpus[v][j] # c})] \in Cpus
<1> DEFINE others == {j \in DOMAIN cpus[v] : ready[cpus[v][j]] /\ cpus[v][j] # c}
<1>1. cpus[v] \in Seq(Cpus)
  BY VGicAssumption
<1>2. others \subseteq Nat
  BY <1>1
<1>3. Min(others) \in others
  BY <1>2, MinIn
<1>4. cpus[v][Min(others)] \in Own(v)
  BY <1>3 DEF Own
<1> QED BY <1>4, VmOfCpu

\* A CPU outside the handler has no access.
LEMMA IdleRequest == Idle \in Requests
BY DEF Requests

\* In the initial states the types are right and no CPU is in the handler.
LEMMA AccessInit == Init => TypeOK /\ AccessInv
<1> SUFFICES ASSUME Init PROVE TypeOK /\ AccessInv
  OBVIOUS
<1>1. 0 \in Cpus
  BY VGicAssumption DEF Cpus
<1>2. NoRoute \in [irm : BOOLEAN, cpu : Cpus] /\ Idle \in Requests
  BY <1>1, IdleRequest DEF NoRoute
<1>3. pc \in [Cpus -> Steps] /\ ready \in [Cpus -> BOOLEAN] /\ bound \in [Cpus -> BOOLEAN]
  BY DEF Init, Steps
<1>4. {locked, stray, late} \subseteq BOOLEAN
  BY DEF Init
<1>5. TypeOK
  BY <1>2, <1>3, <1>4 DEF Init, TypeOK
<1>6. AccessInv
  BY DEF Init, AccessInv, Inside, Routing
<1> QED BY <1>5, <1>6

\* Every step of a CPU keeps the types, and the access it works on.
LEMMA AccessStep ==
  ASSUME TypeOK, AccessInv, [Next]_vars
  PROVE  TypeOK' /\ AccessInv'
<1>1. CASE UNCHANGED vars
  BY <1>1 DEF vars, gic, history, TypeOK, AccessInv
<1>2. ASSUME NEW c \in Cpus, sl_lock(c) \/ sl_unlock(c) \/ ReadVgic(c) \/ ReadCtlr(c) \/ WriteBackCtlr(c)
      PROVE  TypeOK' /\ AccessInv'
  <2>1. TypeOK'
    <3>1. CASE sl_unlock(c)
      <4>1. {locked', stray', late'} \subseteq BOOLEAN
        BY <3>1 DEF sl_unlock, TypeOK
      <4>2. acc' \in [Cpus -> Requests]
        BY <3>1, IdleRequest DEF sl_unlock, TypeOK
      <4> QED BY <3>1, <4>1, <4>2 DEF sl_unlock, Goto, KeepGuests, gic, TypeOK, Steps
    <3>2. CASE WriteBackCtlr(c)
      <4>1. {locked', stray', late'} \subseteq BOOLEAN
        BY <3>2 DEF WriteBackCtlr, TypeOK
      <4> QED BY <3>2, <4>1 DEF WriteBackCtlr, Goto, KeepGuests, TypeOK, Steps
    <3>3. CASE sl_lock(c)
      BY <3>3 DEF sl_lock, Goto, KeepGuests, gic, history, TypeOK, Steps, Inside
    <3>4. CASE ReadVgic(c) \/ ReadCtlr(c)
      BY <3>4 DEF ReadVgic, ReadCtlr, Goto, KeepGuests, gic, history, TypeOK, Steps, Inside
    <3> QED BY <1>2, <3>1, <3>2, <3>3, <3>4
  <2>2. AccessInv'
    BY <1>2 DEF sl_lock, sl_unlock, ReadVgic, ReadCtlr, WriteBackCtlr, Goto, KeepGuests, gic,
                history, TypeOK, AccessInv, Inside, Routing
  <2> QED BY <2>1, <2>2
<1>3. ASSUME NEW c \in Cpus, access_gicv3(c)
      PROVE  TypeOK' /\ AccessInv'
  <2>1. PICK a \in Accesses[VmOf(c)] :
          /\ acc' = [acc EXCEPT ![c] = a]
          /\ Goto(c, IF a.k \in {"unclaimed", "invalid"} THEN "out" ELSE "lock")
    BY <1>3 DEF access_gicv3
  <2>2. a \in Requests
    BY VmOfCpu DEF Requests
  <2>3. TypeOK'
    BY <1>3, <2>1, <2>2 DEF access_gicv3, Goto, gic, history, TypeOK, Steps
  <2>4. AccessInv'
    BY <1>3, <2>1 DEF access_gicv3, Goto, gic, history, TypeOK, AccessInv, Inside, Routing
  <2> QED BY <2>3, <2>4
<1>4. ASSUME NEW c \in Cpus, Store(c)
      PROVE  TypeOK' /\ AccessInv'
  <2> DEFINE a == acc[c]
  <2>1. a \in Accesses[VmOf(c)] /\ VmOf(c) \in Vms
    BY <1>4, VmOfCpu DEF Store, AccessInv, Inside
  <2>2. Uses[VmOf(c)] \subseteq Intids
    BY <2>1 DEF Intids
  <2>3. /\ a.k = "irouter" => a.i \in Intids /\ a.to \in Nat /\ a.irm \in BOOLEAN
        /\ a.k \in {"enable", "disable"} => a.s \subseteq Uses[VmOf(c)] /\ a.s # {}
    BY <2>1, <2>2, AccessShape
  <2>4. a.k = "irouter" => Route(a.irm, host_id(c, a.to)) \in [irm : BOOLEAN, cpu : Cpus]
    BY <2>1, <2>3, HostOwn, VmOfCpu DEF Route
  <2>5. irouter' \in [Intids -> [irm : BOOLEAN, cpu : Cpus]]
    BY <1>4, <2>3, <2>4 DEF Store, TypeOK
  <2>6. enabled' \subseteq Intids
    BY <1>4, <2>2, <2>3 DEF Store, TypeOK
  <2>7. todo' \in [Cpus -> SUBSET Intids]
    BY <1>4, <2>2, <2>3 DEF Store, TypeOK
  <2>8. TypeOK'
    BY <1>4, <2>5, <2>6, <2>7 DEF Store, Goto, KeepGuests, history, TypeOK, Steps, Inside
  <2>9. AccessInv'
    BY <1>4, <2>3 DEF Store, Goto, KeepGuests, TypeOK, AccessInv, Inside, Routing
  <2> QED BY <2>8, <2>9
<1>5. ASSUME NEW c \in Cpus, WriteGicr(c)
      PROVE  TypeOK' /\ AccessInv'
  <2>1. acc[c].f \in Nat /\ VmOf(c) \in Vms
    BY <1>5, AccessShape, VmOfCpu, VGicAssumption DEF WriteGicr, AccessInv, Inside
  <2>2. gicr' \in [Cpus -> SUBSET (Vms \X Nat)]
    BY <1>5, <2>1 DEF WriteGicr, TypeOK
  <2>3. TypeOK'
    BY <1>5, <2>2 DEF WriteGicr, Goto, KeepGuests, history, TypeOK, Steps
  <2>4. AccessInv'
    BY <1>5 DEF WriteGicr, Goto, KeepGuests, TypeOK, AccessInv, Inside, Routing
  <2> QED BY <2>3, <2>4
<1>6. ASSUME NEW c \in Cpus, route_intid_to_cpu(c)
      PROVE  TypeOK' /\ AccessInv'
  <2>1. Current(c) \in Intids
    BY <1>6, CurrentIn DEF route_intid_to_cpu, Routing
  <2>2. irouter' \in [Intids -> [irm : BOOLEAN, cpu : Cpus]]
    BY <1>6, <2>1 DEF route_intid_to_cpu, Route, TypeOK
  <2>3. TypeOK'
    BY <1>6, <2>2 DEF route_intid_to_cpu, Goto, KeepGuests, history, TypeOK, Steps, Inside
  <2>4. AccessInv'
    BY <1>6 DEF route_intid_to_cpu, Goto, KeepGuests, TypeOK, AccessInv, Inside, Routing
  <2> QED BY <2>3, <2>4
<1>7. ASSUME NEW c \in Cpus, reroute_intid_to_vm(c)
      PROVE  TypeOK' /\ AccessInv'
  <2> DEFINE i == Current(c)
             v == owner[i]
             running == {j \in DOMAIN cpus[v] : ready[cpus[v][j]] /\ cpus[v][j] # c}
  <2>1. i \in Intids
    BY <1>7, CurrentIn DEF reroute_intid_to_vm, Routing
  <2>2. v # NULL /\ running # {} => cpus[v][Min(running)] \in Cpus
    <3>1. v # NULL => v \in Vms
      BY <2>1 DEF TypeOK
    <3> QED BY <3>1, RerouteOwn
  <2>3. \/ pc' = [pc EXCEPT ![c] = "panic"] /\ UNCHANGED irouter
        \/ pc' = [pc EXCEPT ![c] = "own"] /\ \E r \in Cpus : irouter' = [irouter EXCEPT ![i] = Route(FALSE, r)]
    <3>1. NoRoute = Route(FALSE, 0) /\ 0 \in Cpus
      BY VGicAssumption DEF NoRoute, Route, Cpus
    <3> QED BY <1>7, <2>2, <3>1 DEF reroute_intid_to_vm, Goto
  <2>4. irouter' \in [Intids -> [irm : BOOLEAN, cpu : Cpus]]
    <3>1. \A r \in Cpus : Route(FALSE, r) \in [irm : BOOLEAN, cpu : Cpus]
      BY DEF Route
    <3>2. irouter \in [Intids -> [irm : BOOLEAN, cpu : Cpus]]
      BY DEF TypeOK
    <3>3. CASE UNCHANGED irouter
      BY <3>2, <3>3
    <3>4. ASSUME NEW r \in Cpus, irouter' = [irouter EXCEPT ![i] = Route(FALSE, r)]
          PROVE  irouter' \in [Intids -> [irm : BOOLEAN, cpu : Cpus]]
      BY <3>1, <3>2, <3>4
    <3> QED BY <2>3, <3>3, <3>4
  <2>5. pc[c] = "reroute" /\ UNCHANGED <<acc, todo, locked, enabled, owner, gicr, stray, late, ready, bound>>
    BY <1>7 DEF reroute_intid_to_vm, KeepGuests, history
  <2>6. TypeOK'
    BY <2>3, <2>4, <2>5 DEF TypeOK, Steps, Inside
  <2>7. AccessInv'
    <3>1. pc' = [pc EXCEPT ![c] = "panic"] \/ pc' = [pc EXCEPT ![c] = "own"]
      BY <2>3
    <3>2. todo[c] # {} /\ pc \in [Cpus -> Steps]
      BY <2>5 DEF AccessInv, TypeOK, Routing
    <3> QED BY <2>5, <3>1, <3>2 DEF AccessInv, Inside, Routing
  <2> QED BY <2>6, <2>7
<1>8. ASSUME NEW c \in Cpus, SetOwner(c)
      PROVE  TypeOK' /\ AccessInv'
  <2>1. Current(c) \in Intids /\ Current(c) \in todo[c] /\ VmOf(c) \in Vms
    BY <1>8, CurrentIn, VmOfCpu DEF SetOwner, Routing
  <2>2. TypeOK'
    BY <1>8, <2>1 DEF SetOwner, Goto, KeepGuests, history, TypeOK, Steps, Inside
  <2>3. AccessInv'
    BY <1>8, <2>1 DEF SetOwner, Goto, KeepGuests, TypeOK, AccessInv, Inside, Routing
  <2> QED BY <2>2, <2>3
<1>9. ASSUME NEW c \in Cpus, cpu_main(c) \/ (c = 0 /\ (init_gic \/ init_interrupt_owners))
      PROVE  TypeOK' /\ AccessInv'
  <2>1. TypeOK'
    BY <1>9 DEF cpu_main, init_gic, init_interrupt_owners, Goto, KeepGuests, gic, history,
                TypeOK, Steps, Booting
  <2>2. AccessInv'
    BY <1>9 DEF cpu_main, init_gic, init_interrupt_owners, Goto, KeepGuests, gic, history,
                TypeOK, AccessInv, Inside, Routing, Booting
  <2> QED BY <2>1, <2>2
<1>10. ASSUME NEW c \in Cpus, NEW d \in Cpus, CpuOff(c) \/ CpuOn(c, d)
       PROVE  TypeOK' /\ AccessInv'
  <2>1. TypeOK'
    BY <1>10 DEF CpuOff, CpuOn, Goto, gic, history, TypeOK, Steps
  <2>2. AccessInv'
    BY <1>10 DEF CpuOff, CpuOn, Goto, gic, history, TypeOK, AccessInv, Inside, Routing
  <2> QED BY <2>1, <2>2
<1> QED
  BY <1>1, <1>2, <1>3, <1>4, <1>5, <1>6, <1>7, <1>8, <1>9, <1>10 DEF Next, Handler, Guest

-----------------------------------------------------------------------------
\* As long as no access has released the lock under another CPU, at most one
\* CPU holds it.
LEMMA LockStep ==
  ASSUME TypeOK, LockInv, [Next]_vars
  PROVE  LockInv'
<1>1. CASE UNCHANGED vars
  BY <1>1 DEF vars, history, LockInv, Holds
<1>2. ASSUME NEW c \in Cpus, sl_lock(c)
      PROVE  LockInv'
  BY <1>2 DEF sl_lock, Goto, history, TypeOK, LockInv, Holds, Inside
<1>3. ASSUME NEW c \in Cpus, sl_unlock(c)
      PROVE  LockInv'
  <2> SUFFICES ASSUME ~stray' PROVE LockInv'
    BY DEF LockInv
  <2>1. ~stray /\ (locked => acc[c].k \notin {"unclaimed", "invalid"})
    BY <1>3 DEF sl_unlock
  <2>2. locked => Holds(c)
    BY <1>3, <2>1 DEF sl_unlock, Holds
  <2>3. \A d \in Cpus : Holds(d) => d = c
    BY <2>1, <2>2 DEF LockInv
  <2>4. \A d \in Cpus : Holds(d)' => d # c /\ Holds(d)
    BY <1>3 DEF sl_unlock, Goto, TypeOK, Holds, Inside
  <2> QED BY <2>3, <2>4 DEF LockInv
<1>4. ASSUME NEW c \in Cpus,
             Store(c) \/ ReadVgic(c) \/ ReadCtlr(c) \/ WriteBackCtlr(c) \/ WriteGicr(c)
               \/ route_intid_to_cpu(c) \/ reroute_intid_to_vm(c) \/ SetOwner(c)
      PROVE  LockInv'
  <2>1. /\ pc[c] \in Inside
        /\ \E l \in Inside \union {"out", "panic"} : pc' = [pc EXCEPT ![c] = l]
        /\ UNCHANGED <<acc, locked, stray>>
    BY <1>4 DEF Store, ReadVgic, ReadCtlr, WriteBackCtlr, WriteGicr, route_intid_to_cpu,
                reroute_intid_to_vm, SetOwner, Goto, history, Inside
  <2>2. \A d \in Cpus : Holds(d)' => Holds(d)
    BY <2>1 DEF TypeOK, Holds, Inside
  <2> QED BY <2>1, <2>2 DEF LockInv
<1>5. ASSUME NEW c \in Cpus, NEW d \in Cpus,
             \/ access_gicv3(c) \/ CpuOff(c) \/ CpuOn(c, d)
             \/ cpu_main(c) \/ (c = 0 /\ (init_gic \/ init_interrupt_owners))
      PROVE  LockInv'
  <2>1. /\ UNCHANGED <<locked, stray>>
        /\ \A e \in Cpus : Holds(e)' => Holds(e)
    BY <1>5 DEF access_gicv3, CpuOff, CpuOn, cpu_main, init_gic, init_interrupt_owners, Goto,
                history, TypeOK, Holds, Inside
  <2> QED BY <2>1 DEF LockInv
<1> QED BY <1>1, <1>2, <1>3, <1>4, <1>5 DEF Next, Handler, Guest

\* At most one CPU holds the lock: the set of those inside has one element.
LEMMA LockImplies == LockInv => ExclusiveAccess
<1> SUFFICES ASSUME LockInv, ~stray
             PROVE  Cardinality({c \in Cpus : pc[c] \in Inside}) <= 1
  BY DEF ExclusiveAccess
<1> DEFINE S == {c \in Cpus : pc[c] \in Inside}
<1>1. \A c, d \in S : c = d
  BY DEF LockInv, Holds
<1>2. CASE S = {}
  BY <1>2, FS_EmptySet
<1>3. ASSUME NEW c \in S
      PROVE  Cardinality(S) <= 1
  <2>1. S = {c}
    BY <1>1
  <2>2. Cardinality({c}) = 1
    BY FS_Singleton
  <2> HIDE DEF S
  <2> QED BY <2>1, <2>2
<1> QED BY <1>2, <1>3

-----------------------------------------------------------------------------
\* GICD_CTLR follows the steps of init_gic and is kept by the guests.
LEMMA CtlrStep ==
  ASSUME TypeOK, CtlrInv, [Next]_vars
  PROVE  CtlrInv'
<1>0. 0 \in Cpus
  BY VGicAssumption DEF Cpus
<1>1. CASE UNCHANGED vars
  BY <1>1 DEF vars, gic, history, CtlrInv
<1>2. CASE init_gic
  BY <1>0, <1>2 DEF init_gic, CtlrBits, Goto, history, TypeOK, CtlrInv, Inside, ARE_NS,
                    EnableGrp1, EnableGrp1A
<1>3. ASSUME NEW c \in Cpus, WriteBackCtlr(c)
      PROVE  CtlrInv'
  BY <1>0, <1>3 DEF WriteBackCtlr, Goto, TypeOK, CtlrInv, Inside
<1>4. ASSUME NEW c \in Cpus,
             Store(c) \/ ReadVgic(c) \/ ReadCtlr(c) \/ WriteGicr(c) \/ sl_lock(c) \/ sl_unlock(c)
               \/ route_intid_to_cpu(c) \/ reroute_intid_to_vm(c) \/ SetOwner(c)
      PROVE  CtlrInv'
  <2>1. /\ pc[c] \in Inside \union {"lock", "out"} /\ UNCHANGED <<ctlr, late>>
        /\ \E l \in Inside \union {"guest", "out", "panic"} : pc' = [pc EXCEPT ![c] = l]
    BY <1>4 DEF Store, ReadVgic, ReadCtlr, WriteGicr, sl_lock, sl_unlock, route_intid_to_cpu,
                reroute_intid_to_vm, SetOwner, Goto, gic, history, Inside
  <2> QED BY <1>0, <2>1 DEF TypeOK, CtlrInv, Inside
<1>5. ASSUME NEW c \in Cpus, NEW d \in Cpus,
             access_gicv3(c) \/ CpuOff(c) \/ CpuOn(c, d) \/ cpu_main(c) \/ init_interrupt_owners
      PROVE  CtlrInv'
  <2>1. UNCHANGED <<ctlr, late>>
    BY <1>5 DEF access_gicv3, CpuOff, CpuOn, cpu_main, init_interrupt_owners, gic, history
  <2> QED BY <1>0, <1>5, <2>1, SMTT(30) DEF access_gicv3, CpuOff, CpuOn, cpu_main, init_interrupt_owners,
                                  Goto, TypeOK, CtlrInv, Inside
<1> QED BY <1>1, <1>2, <1>3, <1>4, <1>5 DEF Next, Handler, Guest

-----------------------------------------------------------------------------
\* The frame gicr_adjust_cpu_offset answers, if it is one of the machine.
LEMMA FrameOf ==
  ASSUME NEW c \in Cpus, NEW f \in 0 .. Frames - 1, gicr_adjust_cpu_offset(c, f) \in Cpus
  PROVE  LET g == gicr_adjust_cpu_offset(c, f)
             v == VmOf(c)
         IN  IF f < VcpuCount(v) THEN g = cpus[v][f + 1] ELSE g \in Own(v)
<1> DEFINE v == VmOf(c)
           p == IF f < VcpuCount(v) THEN cpus[v][f + 1] ELSE IF f = VcpuCount(v) THEN 0 ELSE c
           g == gicr_adjust_cpu_offset(c, f)
<1>1. v \in Vms /\ c \in Own(v)
  BY VmOfCpu
<1>2. cpus[v] \in Seq(Cpus) /\ VcpuCount(v) \in Nat \ {0}
  BY <1>1, VGicAssumption DEF VcpuCount
<1>3. p \in Cpus
  BY <1>2, VGicAssumption DEF Cpus, VcpuCount
<1>4. g = f + ((p - f) % UintMod)
  BY DEF gicr_adjust_cpu_offset
<1> HIDE DEF p, g
<1>5. (p - f) % UintMod = IF p - f >= 0 THEN p - f ELSE p - f + UintMod
  <2>1. p - f \in Int /\ -UintMod < p - f /\ p - f < UintMod
    BY <1>3, VGicAssumption DEF Cpus
  <2> QED BY <2>1, Wraps, VGicAssumption
<1>6. g = p /\ p >= f
  BY <1>3, <1>4, <1>5, VGicAssumption DEF Cpus, g
<1> QED BY <1>1, <1>2, <1>6 DEF p, g

\* Only a store of the guest changes who has written to a frame.
LEMMA FramesStep ==
  ASSUME TypeOK, AccessInv, FramesOwn, [Next]_vars
  PROVE  FramesOwn'
<1>1. CASE UNCHANGED gicr
  BY <1>1 DEF FramesOwn
<1>2. ASSUME NEW c \in Cpus, WriteGicr(c)
      PROVE  FramesOwn'
  <2> DEFINE f == acc[c].f
             g == gicr_adjust_cpu_offset(c, f)
  <2>1. f \in 0 .. Frames - 1
    BY <1>2, AccessShape, VmOfCpu DEF WriteGicr, AccessInv, Inside
  <2>2. CASE g \notin Cpus
    BY <1>1, <1>2, <2>2 DEF WriteGicr
  <2>3. CASE g \in Cpus
    <3>1. gicr' = [gicr EXCEPT ![g] = @ \union {<<VmOf(c), f>>}]
      BY <1>2, <2>3 DEF WriteGicr
    <3>2. IF f < VcpuCount(VmOf(c)) THEN g = cpus[VmOf(c)][f + 1] ELSE g \in Own(VmOf(c))
      BY <2>1, <2>3, FrameOf
    <3> HIDE DEF f, g
    <3>3. \A h \in Cpus : \A w \in gicr'[h] : w \in gicr[h] \/ (h = g /\ w = <<VmOf(c), f>>)
      BY <2>3, <3>1 DEF TypeOK
    <3> QED BY <3>2, <3>3 DEF FramesOwn
  <2> QED BY <2>2, <2>3
<1> QED
  BY <1>1, <1>2 DEF Next, Handler, Guest, vars, gic, Store, ReadVgic, ReadCtlr, WriteBackCtlr,
     sl_lock, sl_unlock, route_intid_to_cpu, reroute_intid_to_vm, SetOwner, access_gicv3, CpuOff,
     CpuOn, cpu_main, init_gic, init_interrupt_owners

-----------------------------------------------------------------------------
\* A step that neither routes nor enables and turns no vCPU off.
LEMMA RouteKept ==
  ASSUME NEW v \in Vms, NEW i \in Uses[v], Routed(v, i),
         UNCHANGED <<todo, irouter, enabled>>, owner'[i] \in {NULL, owner[i]},
         \A d \in Cpus : ready[d] => ready'[d],
         \A d \in Cpus : pc'[d] \in {"reroute", "own"} => pc'[d] = pc[d]
  PROVE  Routed(v, i)'
<1>1. \A d \in Cpus : Current(d)' = Current(d)
  BY DEF Current
<1>2. v # NULL /\ \A d \in Own(v) : d \in Cpus
  BY VGicAssumption, VmOfCpu
<1> QED BY <1>1, <1>2 DEF Routed, Reaches

\* The actions that RouteKept is about.
LEMMA OtherSteps ==
  ASSUME TypeOK, NEW c \in Cpus, NEW e \in Cpus, NEW i \in Intids,
         \/ sl_lock(c) \/ sl_unlock(c) \/ ReadVgic(c) \/ ReadCtlr(c) \/ WriteBackCtlr(c)
         \/ WriteGicr(c) \/ access_gicv3(c) \/ CpuOff(c) \/ CpuOn(c, e) \/ cpu_main(c)
         \/ (c = 0 /\ (init_gic \/ init_interrupt_owners))
  PROVE  /\ UNCHANGED <<todo, irouter, enabled>> /\ owner'[i] \in {NULL, owner[i]}
         /\ \A d \in Cpus : ready[d] => ready'[d]
         /\ \A d \in Cpus : pc'[d] \in {"reroute", "own"} => pc'[d] = pc[d]
<1>1. UNCHANGED <<todo, irouter, enabled>> /\ owner'[i] \in {NULL, owner[i]}
  BY DEF sl_lock, sl_unlock, ReadVgic, ReadCtlr, WriteBackCtlr, WriteGicr, access_gicv3, CpuOff,
         CpuOn, cpu_main, init_gic, init_interrupt_owners, gic
<1>2. \A d \in Cpus : ready[d] => ready'[d]
  BY DEF sl_lock, sl_unlock, ReadVgic, ReadCtlr, WriteBackCtlr, WriteGicr, access_gicv3, CpuOff,
         CpuOn, cpu_main, init_gic, init_interrupt_owners, KeepGuests, TypeOK
<1>3. \A d \in Cpus : pc'[d] \in {"reroute", "own"} => pc'[d] = pc[d]
  BY DEF sl_lock, sl_unlock, ReadVgic, ReadCtlr, WriteBackCtlr, WriteGicr, access_gicv3, CpuOff,
         CpuOn, cpu_main, init_gic, init_interrupt_owners, Goto, TypeOK
<1> QED BY <1>1, <1>2, <1>3

\* Routing and enabling keep an interrupt of one VM at that VM.
LEMMA RouteStep ==
  ASSUME TypeOK, AccessInv, RouteInv, [Next]_vars
  PROVE  RouteInv'
<1> SUFFICES ASSUME NEW v \in Vms, NEW i \in Uses[v], Sole(v, i)
             PROVE  Routed(v, i)'
  BY DEF RouteInv, Sole
<1>0. /\ Routed(v, i) /\ i \in Intids /\ v # NULL
      /\ \A c \in Cpus : i \in Uses[VmOf(c)] => VmOf(c) = v /\ c \in Own(v)
      /\ \A d \in Own(v) : d \in Cpus
  BY VGicAssumption, VmOfCpu DEF RouteInv, Sole, Intids
<1>1. CASE UNCHANGED vars
  BY <1>0, <1>1, RouteKept DEF vars, gic
<1>2. ASSUME NEW c \in Cpus, Store(c)
      PROVE  Routed(v, i)'
  <2> DEFINE a == acc[c]
  <2>1. a \in Accesses[VmOf(c)] /\ VmOf(c) \in Vms /\ todo[c] = {}
    BY <1>2, VmOfCpu DEF Store, AccessInv, Inside, Routing
  <2>2. a.k = "irouter" => a.i \in Uses[VmOf(c)] /\ a.i \in Intids /\ host_id(c, a.to) \in Own(VmOf(c))
    BY <2>1, AccessShape, HostOwn DEF Intids
  <2>3. Reaches(v, i) => Reaches(v, i)'
    BY <1>0, <1>2, <2>2 DEF Store, Reaches, Route, TypeOK
  <2>4. i \in enabled' => i \in enabled \/ i \in todo'[c]
    BY <1>2 DEF Store, TypeOK
  <2>5. \A d \in Cpus : i \in todo[d] => i \in todo'[d]
    BY <1>2, <2>1 DEF Store, TypeOK
  <2>6. \A d \in Cpus : pc'[d] \in {"reroute", "own"} => pc'[d] = pc[d] /\ Current(d)' = Current(d)
    BY <1>2 DEF Store, Goto, Current, TypeOK
  <2>7. UNCHANGED <<owner, ready>>
    BY <1>2 DEF Store, KeepGuests
  <2> QED BY <1>0, <2>3, <2>4, <2>5, <2>6, <2>7 DEF Routed
<1>3. ASSUME NEW c \in Cpus, route_intid_to_cpu(c)
      PROVE  Routed(v, i)'
  <2>1. Current(c) \in Intids /\ (Current(c) = i => VmOf(c) = v /\ c \in Own(v))
    BY <1>0, <1>3, CurrentIn DEF route_intid_to_cpu, Routing
  <2>2. UNCHANGED <<owner, ready, todo, enabled>> /\ \A d \in Cpus : Current(d)' = Current(d)
    BY <1>3 DEF route_intid_to_cpu, KeepGuests, Current
  <2>3. Reaches(v, i) => Reaches(v, i)'
    BY <1>0, <1>3, <2>1, SMTT(30) DEF route_intid_to_cpu, Reaches, Route, TypeOK
  <2>4. pc'[c] = "own" /\ Current(c) = i /\ Routable(i) => Reaches(v, i)'
    BY <1>0, <1>3, <2>1, SMTT(30) DEF route_intid_to_cpu, routed_to_vm, Reaches, Route, Goto, TypeOK
  <2>5. pc'[c] = "reroute" /\ Current(c) = i => owner[i] # v
    BY <1>3, <2>1, SMTT(30) DEF route_intid_to_cpu, NeedsReroute, Goto, TypeOK
  <2>6. \A d \in Cpus : d # c => pc'[d] = pc[d]
    BY <1>3 DEF route_intid_to_cpu, Goto, TypeOK
  <2> QED BY <1>0, <2>2, <2>3, <2>4, <2>5, <2>6 DEF Routed
<1>4. ASSUME NEW c \in Cpus, reroute_intid_to_vm(c)
      PROVE  Routed(v, i)'
  <2>1. Current(c) \in Intids /\ pc[c] = "reroute"
    BY <1>4, CurrentIn DEF reroute_intid_to_vm, Routing
  <2>2. UNCHANGED <<owner, ready, todo, enabled>> /\ \A d \in Cpus : Current(d)' = Current(d)
    BY <1>4 DEF reroute_intid_to_vm, KeepGuests, Current
  <2>3. pc' = [pc EXCEPT ![c] = "panic"] \/ pc' = [pc EXCEPT ![c] = "own"]
    BY <1>4 DEF reroute_intid_to_vm, Goto
  <2>4. CASE Current(c) # i
    <3>1. irouter'[i] = irouter[i]
      BY <1>0, <1>4, <2>1, <2>4 DEF reroute_intid_to_vm, TypeOK
    <3> QED BY <1>0, <2>2, <2>3, <2>4, <3>1 DEF Routed, Reaches, TypeOK
  <2>5. CASE Current(c) = i /\ owner[i] = NULL
    <3>1. pc' = [pc EXCEPT ![c] = "panic"] /\ UNCHANGED irouter
      BY <1>4, <2>5 DEF reroute_intid_to_vm, Goto
    <3> QED BY <1>0, <2>2, <3>1 DEF Routed, Reaches, TypeOK
  <2>6. CASE Current(c) = i /\ owner[i] = v
    <3> DEFINE running == {j \in DOMAIN cpus[v] : ready[cpus[v][j]] /\ cpus[v][j] # c}
    <3>1. running # {}
      <4>1. PICK d \in Own(v) : d # c /\ ready[d]
        BY <1>0, <2>1, <2>6 DEF Routed
      <4> QED BY <4>1, SMTT(30) DEF Own
    <3>2. cpus[v][Min(running)] \in Own(v)
      BY <3>1, RerouteOwn
    <3>3. \/ UNCHANGED irouter /\ pc' = [pc EXCEPT ![c] = "panic"]
          \/ irouter' = [irouter EXCEPT ![i] = Route(FALSE, cpus[v][Min(running)])]
      BY <1>0, <1>4, <2>6, <3>1 DEF reroute_intid_to_vm, Goto
    <3> HIDE DEF running
    <3>4. Reaches(v, i)' \/ (UNCHANGED irouter /\ pc' = [pc EXCEPT ![c] = "panic"])
      <4> DEFINE r == cpus[v][Min(running)]
      <4> HIDE DEF r
      <4>1. ASSUME irouter' = [irouter EXCEPT ![i] = Route(FALSE, r)]
            PROVE  Reaches(v, i)'
        <5>1. irouter'[i] = Route(FALSE, r)
          BY <1>0, <4>1 DEF TypeOK
        <5>2. r \in Own(v) /\ Route(FALSE, r).cpu = r
          BY <3>2 DEF Route, r
        <5> QED BY <5>1, <5>2 DEF Reaches
      <4> QED BY <3>3, <4>1 DEF r
    <3> QED BY <1>0, <2>2, <2>3, <3>4 DEF Routed, Reaches, TypeOK
  <2> QED BY <1>0, <2>4, <2>5, <2>6 DEF Routed
<1>5. ASSUME NEW c \in Cpus, SetOwner(c)
      PROVE  Routed(v, i)'
  <2>1. /\ Current(c) \in Intids /\ ready[c] /\ pc[c] = "own"
        /\ Current(c) = i => VmOf(c) = v /\ c \in Own(v)
    BY <1>0, <1>5, CurrentIn, SMTT(30) DEF SetOwner, AccessInv, Routing
  <2>2. UNCHANGED <<irouter, ready, enabled>> /\ (Reaches(v, i) => Reaches(v, i)')
    BY <1>5 DEF SetOwner, KeepGuests, Reaches
  <2>3. owner'[i] = IF Current(c) = i THEN v ELSE owner[i]
    BY <1>0, <1>5, <2>1 DEF SetOwner, TypeOK
  <2>4. \A d \in Cpus : d # c => pc'[d] = pc[d] /\ todo'[d] = todo[d] /\ Current(d)' = Current(d)
    BY <1>5 DEF SetOwner, Goto, Current, TypeOK
  <2>5. pc'[c] \notin {"reroute", "own"} /\ (i \in todo[c] /\ Current(c) # i => i \in todo'[c])
    BY <1>5 DEF SetOwner, Goto, TypeOK
  <2>6. owner'[i] \in {NULL, v}
    BY <1>0, <2>3 DEF Routed
  <2>7. \A d \in Cpus : pc'[d] = "reroute" /\ Current(d)' = i /\ owner'[i] = v =>
          \E e \in Own(v) : e # d /\ ready'[e]
    BY <1>0, <2>1, <2>2, <2>3, <2>4, <2>5 DEF Routed
  <2>8. \A d \in Cpus : pc'[d] = "own" /\ Current(d)' = i /\ Routable(i) => Reaches(v, i)'
    BY <1>0, <2>2, <2>4, <2>5 DEF Routed
  <2>9. i \in enabled' /\ Routable(i) => Reaches(v, i)' \/ \E d \in Cpus : i \in todo'[d]
    BY <1>0, <2>1, <2>2, <2>4, <2>5, SMTT(30) DEF Routed
  <2> QED BY <2>6, <2>7, <2>8, <2>9, SMTT(30) DEF Routed, Routable
<1>6. ASSUME NEW c \in Cpus, NEW e \in Cpus,
             \/ sl_lock(c) \/ sl_unlock(c) \/ ReadVgic(c) \/ ReadCtlr(c) \/ WriteBackCtlr(c)
             \/ WriteGicr(c) \/ access_gicv3(c) \/ CpuOff(c) \/ CpuOn(c, e) \/ cpu_main(c)
             \/ (c = 0 /\ (init_gic \/ init_interrupt_owners))
      PROVE  Routed(v, i)'
  BY <1>0, <1>6, OtherSteps, RouteKept
<1> QED BY <1>1, <1>2, <1>3, <1>4, <1>5, <1>6 DEF Next, Handler, Guest

-----------------------------------------------------------------------------
\* Two CPUs are inside the locked part of access_gicv3 only after an access
\* that left early has released the lock it never took.
THEOREM VGicExclusive == Spec => []ExclusiveAccess
<1>1. Init => TypeOK /\ AccessInv /\ LockInv
  BY AccessInit DEF Init, LockInv, Holds, Inside
<1>2. TypeOK /\ AccessInv /\ LockInv /\ [Next]_vars => (TypeOK /\ AccessInv /\ LockInv)'
  BY AccessStep, LockStep
<1> QED BY <1>1, <1>2, LockImplies, PTL DEF Spec

\* Once CPU 0 runs its guest the distributor is on, unless a CPU wrote an old
\* value of GICD_CTLR back.
THEOREM VGicDistributorOn == Spec => []DistributorOn
<1>1. Init => TypeOK /\ AccessInv /\ CtlrInv
  <2>1. Init => CtlrInv
    BY VGicAssumption DEF Init, CtlrInv, Cpus, Inside
  <2> QED BY <2>1, AccessInit
<1>2. TypeOK /\ AccessInv /\ CtlrInv /\ [Next]_vars => (TypeOK /\ AccessInv /\ CtlrInv)'
  BY AccessStep, CtlrStep
<1>3. TypeOK /\ CtlrInv => DistributorOn
  BY VGicAssumption DEF TypeOK, CtlrInv, DistributorOn, Steps, Booting, Initialising, Cpus
<1> QED BY <1>1, <1>2, <1>3, PTL DEF Spec

\* A VM only writes to redistributor frames of its own CPUs: the unsigned
\* difference of gicr_adjust_cpu_offset wraps around, or is the right one.
THEOREM VGicFramesOwn == Spec => []FramesOwn
<1>1. Init => TypeOK /\ AccessInv /\ FramesOwn
  BY AccessInit DEF Init, FramesOwn
<1>2. TypeOK /\ AccessInv /\ FramesOwn /\ [Next]_vars => (TypeOK /\ AccessInv /\ FramesOwn)'
  BY AccessStep, FramesStep
<1> QED BY <1>1, <1>2, PTL DEF Spec

\* An interrupt that one VM alone uses is, once enabled, delivered to a CPU of
\* that VM: guest routes are translated, enabling takes the route over.
THEOREM VGicDelivered == Spec => []DeliveredToUser
<1>1. Init => TypeOK /\ AccessInv /\ RouteInv
  <2>1. Init => RouteInv
    BY VGicAssumption DEF Init, RouteInv, Routed, Intids
  <2> QED BY <2>1, AccessInit
<1>2. TypeOK /\ AccessInv /\ RouteInv /\ [Next]_vars => (TypeOK /\ AccessInv /\ RouteInv)'
  BY AccessStep, RouteStep
<1>3. RouteInv => DeliveredToUser
  BY DEF RouteInv, Routed, Reaches, Sole, DeliveredToUser
<1> QED BY <1>1, <1>2, <1>3, PTL DEF Spec
=============================================================================
