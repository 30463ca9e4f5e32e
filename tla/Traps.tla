-------------------------------- MODULE Traps --------------------------------
(***************************************************************************)
(* What a VM sees of an instruction that traps (hypervisor/exceptions.S,   *)
(* handler.c, virtioac.c): the registers are saved, the exception is sent  *)
(* to the handler in charge, which moves data, skips the instruction, lets *)
(* it run again or injects an exception, and the registers are restored.   *)
(*                                                                         *)
(* x stands for a caller-saved register, y for x19 to x28.  The trapped    *)
(* instruction is at address Here.  What the GIC, PSCI and interrupt       *)
(* handlers do with a call is the subject of VGic, Psci and Vcpu.          *)
(***************************************************************************)
EXTENDS VirtDevs, SysRegs

CONSTANTS Scenes,       \* records [build, mt, menu, max]: a build, MPIDR_EL1.MT, the
                        \* instructions each CPU may trap on, the number of traps
          VIRTIO,       \* addresses of virtio devices
          VGIC,         \* address -> whether it is a register of the GIC frames
          Ram           \* addresses that stage 2 maps

VARIABLES scene,        \* the instructions and CPUs of this behaviour
          mt,           \* MPIDR_EL1.MT of the platform
          traps,        \* traps taken so far
          elr,          \* CPU -> ELR_EL1 of an injected exception
          touched,      \* CPU -> system register read or written
          shown,        \* CPU -> fields of the ID register read
          reached       \* CPU -> CPUs an SGI was sent to

trapVars == <<scene, mt, traps, elr, touched, shown, reached>>
vars == <<at, trap, regs, result, moved, devVars, trapVars>>

Here == 4
Handler == 50
Answer == <<2, 2>>      \* what a call returns in x0
RealValue == <<3, 9>>   \* contents of a system register

\* The guest's registers: HVC's preferred return address is the next one.
Away == [x |-> Zero, y |-> Zero, pc |-> Here]
Live(i) == [x |-> <<5, i.val>>, y |-> <<6, i.val>>, pc |-> IF i.op = "hvc" THEN Here + 1 ELSE Here]

----------------------------------------------------------------------------
\* lower_sync_exception, save_volatile_to_vcpu: all of x0 to x30, and pc.
Trap(c) ==
  /\ at[c] = "guest" /\ traps < Scenes[scene].max
  /\ \E i \in Scenes[scene].menu[c] :
       /\ trap' = [trap EXCEPT ![c] = i]
       /\ regs' = [regs EXCEPT ![c] = Live(i)]
       /\ at' = [at EXCEPT ![c] = IF i.op = "sysreg" THEN "sysreg" ELSE "sync"]
  /\ traps' = traps + 1
  /\ UNCHANGED <<result, moved, devVars, scene, mt, elr, touched, shown, reached>>

\* inject_el1_exception
Inject(c, file) ==
  /\ elr' = [elr EXCEPT ![c] = file.pc]
  /\ regs' = [regs EXCEPT ![c] = [file EXCEPT !.pc = Handler]]
  /\ Finish(c, "inject")

----------------------------------------------------------------------------

Call(c) ==
  LET op == trap[c].op
  IN  /\ at[c] = "sync" /\ op \in {"wfx", "hvc", "smc"}
      /\ regs' = [regs EXCEPT ![c].x = IF op = "wfx" THEN @ ELSE Answer,
                              ![c].pc = IF op = "hvc" THEN @ ELSE SkipOf(@)]
      /\ Finish(c, "handled")
      /\ UNCHANGED <<trap, moved, devVars, trapVars>>

\* The default of sync_lower_exception.
UnknownException(c) ==
  /\ at[c] = "sync" /\ trap[c].op = "other"
  /\ Inject(c, regs[c])
  /\ UNCHANGED <<trap, moved, devVars, scene, mt, traps, touched, shown, reached>>

InstructionAbort(c) ==
  /\ at[c] = "sync" /\ trap[c].op = "fetch"
  /\ at' = [at EXCEPT ![c] = "fault"]
  /\ UNCHANGED <<trap, regs, result, moved, devVars, trapVars>>

\* virtioac_handle takes W registers only.  For x19 to x28 it uses the live
\* register, which holds whatever the hypervisor keeps there: a store sends any
\* value, a load is lost when vcpu->regs is restored, if it does no damage.
VirtioHandles(i) == i.isv /\ i.sz # "d"
Leftover == {<<0, 0>>, <<0, 1>>}
readreg(file, i) == IF i.r = "y" THEN Leftover ELSE {Stored(file, i)}
writereg(file, i, v) == IF i.r = "x" THEN [file EXCEPT !.x = v] ELSE file

virtioac_handle(c) ==
  LET i == trap[c]
  IN  \/ /\ \E v \in (IF i.op = "ld" THEN {<<0, 4>>} ELSE readreg(regs[c], i)) :
              LET file == IF i.op = "ld" THEN writereg(regs[c], i, v) ELSE regs[c]
              IN  /\ moved' = [moved EXCEPT ![c] = v]
                  /\ regs' = [regs EXCEPT ![c] = [file EXCEPT !.pc = SkipOf(@)]]
         /\ Finish(c, "handled")
      \/ /\ i.op = "ld" /\ i.r = "y"
         /\ at' = [at EXCEPT ![c] = "panic"]
         /\ UNCHANGED <<regs, moved, result>>

DataAbort(c) ==
  LET i == trap[c]
  IN  /\ at[c] = "sync" /\ i.op \in {"ld", "st"}
      /\ \/ /\ Ipa(i) \in VIRTIO /\ VirtioHandles(i)
            /\ virtioac_handle(c)
            /\ UNCHANGED <<trap, devVars>>
         \/ /\ Ipa(i) \in VIRTIO /\ ~VirtioHandles(i)
            /\ at' = [at EXCEPT ![c] = "fault"]
            /\ UNCHANGED <<trap, regs, result, moved, devVars>>
         \/ Ipa(i) \notin VIRTIO /\ Claimants(i) # {} /\ access(c)
         \/ /\ Ipa(i) \notin VIRTIO /\ Claimants(i) = {}
            /\ at' = [at EXCEPT ![c] = "gic"]
            /\ UNCHANGED <<trap, regs, result, moved, devVars>>
      /\ UNCHANGED trapVars

\* access_gicv3: an address of no frame is skipped, a refused access is skipped
\* and then reported; a byte or halfword is not loaded.
access_gicv3(c) ==
  LET i == trap[c]
      v == IF i.op = "ld" THEN <<7, 7>> ELSE Stored(regs[c], i)
      frame == Ipa(i) \in DOMAIN VGIC
      served == frame /\ i.isv /\ VGIC[Ipa(i)]
      file == IF served /\ i.op = "ld" /\ i.sz # "b" THEN LoadInto(regs[c], i, Trunc(v, i.sz)) ELSE regs[c]
  IN  /\ at[c] = "gic"
      /\ regs' = [regs EXCEPT ![c] = [file EXCEPT !.pc = SkipOf(@)]]
      /\ moved' = IF served THEN [moved EXCEPT ![c] = Trunc(v, i.sz)] ELSE moved
      /\ IF frame /\ ~served THEN at' = [at EXCEPT ![c] = "fault"] /\ UNCHANGED result
         ELSE Finish(c, "handled")
      /\ UNCHANGED <<trap, devVars, trapVars>>

\* vcpu_handle_page_fault, and the injection when the access is not allowed.
vcpu_handle_page_fault(c) ==
  /\ at[c] = "fault"
  /\ IF Ipa(trap[c]) \in Ram THEN Finish(c, "retry") /\ UNCHANGED <<regs, elr>>
     ELSE Inject(c, regs[c])
  /\ UNCHANGED <<trap, moved, devVars, scene, mt, traps, touched, shown, reached>>

----------------------------------------------------------------------------
CpusOf(vm) == SetToSortSeq({c \in Cpus : VmOf[c] = vm}, LAMBDA a, b : a < b)

\* What a read leaves in its register, and what a write hands over.
Read(file, i, outcome) ==
  IF i.r = "zr" THEN file
  ELSE CASE outcome = "real" -> [file EXCEPT ![i.r] = RealValue]
         [] outcome = "raz" -> [file EXCEPT ![i.r] = Zero]
         [] OTHER -> file

handle_system_register_access(c) ==
  LET i == trap[c]
      vm == VmOf[c]
      outcome == Outcome(i.e, i.read, vm)
      file == IF i.read /\ ~is_cache_maintenance(i.e) THEN Read(regs[c], i, outcome) ELSE regs[c]
  IN  /\ at[c] = "sysreg"
      /\ touched' = IF outcome = "real" THEN [touched EXCEPT ![c] = i.e] ELSE touched
      /\ moved' = [moved EXCEPT ![c] = IF i.read THEN RealValue ELSE Stored(regs[c], i)]
      /\ shown' = [shown EXCEPT ![c] = IF i.read THEN IdValue(i.e, vm) ELSE {}]
      /\ reached' = [reached EXCEPT ![c] =
           IF i.e = ICC_SGI1R_EL1 /\ ~i.read THEN Sgi(mt, CpusOf(vm), i.k, i.irm, c, Cpus) ELSE {}]
      /\ IF outcome = "refuse" THEN Inject(c, regs[c])
         ELSE /\ regs' = [regs EXCEPT ![c] = [file EXCEPT !.pc = SkipOf(@)]]
              /\ Finish(c, "handled") /\ UNCHANGED elr
      /\ UNCHANGED <<trap, devVars, scene, mt, traps>>

\* vcpu_restore_volatile_and_run; what the guest does with its registers until
\* the next trap is not followed.
Return(c) ==
  /\ at[c] = "exit"
  /\ at' = [at EXCEPT ![c] = "guest"]
  /\ trap' = [trap EXCEPT ![c] = NONE]
  /\ regs' = [regs EXCEPT ![c] = Away]
  /\ result' = [result EXCEPT ![c] = "handled"]
  /\ moved' = [moved EXCEPT ![c] = Zero]
  /\ printed' = [printed EXCEPT ![c] = 0]
  /\ elr' = [elr EXCEPT ![c] = None]
  /\ touched' = [touched EXCEPT ![c] = <<>>]
  /\ shown' = [shown EXCEPT ![c] = {}]
  /\ reached' = [reached EXCEPT ![c] = {}]
  /\ UNCHANGED <<devs, spinlocks, tx_buff, lpc, sl, cells, mapped, out, sent, scene, mt, traps>>

HandlerStep(c) ==
  \/ Call(c) \/ UnknownException(c) \/ InstructionAbort(c) \/ DataAbort(c)
  \/ (DeviceStep(c) /\ UNCHANGED trapVars)
  \/ access_gicv3(c) \/ vcpu_handle_page_fault(c) \/ handle_system_register_access(c) \/ Return(c)

Init ==
  /\ scene \in DOMAIN Scenes /\ mt = Scenes[scene].mt /\ traps = 0
  /\ at = [c \in Cpus |-> "guest"]
  /\ trap = [c \in Cpus |-> NONE]
  /\ regs = [c \in Cpus |-> Away]
  /\ result = [c \in Cpus |-> "handled"]
  /\ moved = [c \in Cpus |-> Zero]
  /\ elr = [c \in Cpus |-> None]
  /\ touched = [c \in Cpus |-> <<>>]
  /\ shown = [c \in Cpus |-> {}]
  /\ reached = [c \in Cpus |-> {}]
  /\ devs = init_virt_devs(Scenes[scene].build).devs
  /\ DevInit

Next == \E c \in Cpus : Trap(c) \/ HandlerStep(c)
Spec == Init /\ [][Next]_vars /\ \A c \in Cpus : WF_vars(HandlerStep(c))

----------------------------------------------------------------------------

Access(i) == i.op \in {"ld", "st"}
InVirtio(i) == Access(i) /\ Ipa(i) \in VIRTIO
InDevice(i) == Access(i) /\ ~InVirtio(i) /\ Claimants(i) # {}
InGic(i) == Access(i) /\ ~InVirtio(i) /\ ~InDevice(i) /\ Ipa(i) \in DOMAIN VGIC
Done(c) == at[c] = "exit"

\* A device that is in charge of the address and refuses the access, and a GIC
\* access refused: pc is advanced before anything else is tried.
Refused(i) ==
  \/ InDevice(i) /\ (~i.isv \/ (devs[Owner(i)].mode # "passthr" /\ Owner(i) \notin Uarts))
  \/ InGic(i) /\ (~i.isv \/ ~VGIC[Ipa(i)])
ZeroLoad(i) == (InDevice(i) \/ InGic(i)) /\ i.op = "ld" /\ i.r = "zr"

(* A VM resumes behind an instruction that was carried out, at it when it is  *)
(* to run again, and in its handler with ELR at it when it is reported: no    *)
(* path of sync_lower_exception skips twice or not at all.  Not so for an     *)
(* access that a device or the GIC refuses, and for a load into XZR, whose    *)
(* place in arch_regs is pc.                                                  *)
PcExact ==
  \A c \in Cpus : Done(c) /\ ~(Refused(trap[c]) /\ result[c] # "retry") /\ ~ZeroLoad(trap[c]) =>
    CASE result[c] = "handled" -> regs[c].pc = Here + 1
      [] result[c] = "retry" -> regs[c].pc = Here
      [] result[c] = "inject" -> regs[c].pc = Handler /\ elr[c] = Here

\* virtio and the live x19 to x28; a write to a filtered clock register or to
\* one the i.MX UART does not implement; a byte of the GIC.
Lossy(i) ==
  \/ InVirtio(i) /\ i.r = "y"
  \/ InDevice(i) /\ i.op = "st" /\ (IsFiltered(i) \/ (Owner(i) \in Uarts /\ devs[Owner(i)].kind = "imx" /\ Offset(i) # URTX0))
  \/ InGic(i) /\ i.sz = "b" /\ i.op = "ld"

(* An access that was carried out moves exactly the data the instruction      *)
(* names: a store sends its register (XZR is zero), a load or MRS fills its   *)
(* register, at least the lower half of a W register, and no other register   *)
(* changes.                                                                   *)
TransferExact ==
  \A c \in Cpus : LET i == trap[c]
                      was == Live(i)
                      written == IF i.op \in {"hvc", "smc"} THEN "x" ELSE i.r
                  IN  (Done(c) /\ ~Refused(i) /\ ~ZeroLoad(i)) =>
    /\ \A r \in {"x", "y"} \ {written} : regs[c][r] = was[r]
    /\ (result[c] # "handled" \/ i.op = "st") => regs[c].x = was.x /\ regs[c].y = was.y
    /\ result[c] = "handled" /\ ~Lossy(i) =>
         /\ ((i.op = "st" /\ (InVirtio(i) \/ InDevice(i) \/ InGic(i))) \/ (i.op = "sysreg" /\ ~i.read)) =>
              moved[c] = Trunc(IF i.r = "zr" THEN Zero ELSE was[i.r], i.sz)
         /\ (i.op = "ld" /\ i.r # "zr" /\ (InVirtio(i) \/ InDevice(i) \/ InGic(i))) =>
              regs[c][i.r][2] = moved[c][2] /\ (i.sz = "d" => regs[c][i.r] = moved[c])
         /\ (i.op = "sysreg" /\ i.read /\ i.r # "zr" /\ touched[c] \notin CACHE_OPERATIONS) =>
              regs[c][i.r] = IF touched[c] # <<>> THEN moved[c]
                             ELSE IF feature_id_is_register_access(i.e) THEN Zero ELSE was[i.r]

Listed(i, vm) ==
  \/ i.e \in EL1_DEBUG_REGISTERS_READ_WRITE
  \/ vm = PRIMARY /\ i.e \in PERFMON_REGISTERS_READ_WRITE
  \/ i.e \in CACHE_OPERATIONS
  \/ i.read /\ i.e \in EL1_DEBUG_REGISTERS_READ \union FEATURE_ID_REGISTERS_READ \union ICC_REGISTERS_READ
  \/ i.read /\ vm = PRIMARY /\ i.e \in PERFMON_REGISTERS_READ
  \/ ~i.read /\ i.e \in EL1_DEBUG_REGISTERS_WRITE \union ICC_REGISTERS_WRITE
  \/ ~i.read /\ vm = PRIMARY /\ i.e \in PERFMON_REGISTERS_WRITE

(* Every register in the tables of perfmon.c, debug_el1.c, feature_id.c and   *)
(* emulator.c is reached: the ranges that choose a handler, tried in order,   *)
(* hide no entry of a table, and nothing outside the tables is touched.       *)
ListedServed ==
  \A c \in Cpus : Done(c) /\ trap[c].op = "sysreg" =>
    touched[c] = IF Listed(trap[c], VmOf[c]) THEN trap[c].e ELSE <<>>

(* A VM does not see, in the ID registers, a feature whose use traps, and     *)
(* sees the others.  LO and APA are left out: their masks in feature_id.c are *)
(* at the shift of another field, which goes instead.                         *)
TrappedIsHidden ==
  \A c \in Cpus : Done(c) /\ trap[c].op = "sysreg" /\ trap[c].read /\ touched[c] \in FEATURE_ID_REGISTERS_READ =>
    \A f \in DOMAIN Fields : \A field \in Fields[f] :
      field[1] = touched[c] /\ field \notin {<<ID_AA64MMFR1_EL1, 16>>, <<ID_AA64MMFR1_EL1, 24>>, <<ID_AA64ISAR1_EL1, 4>>}
        => (field[2] \in shown[c] <=> f \notin arch_vm_features_set(VmOf[c]) \union {"VHE"})

(* An SGI to a vCPU of the VM reaches the CPU this vCPU runs on, and no other *)
(* (process of ICC_SGI1R_EL1).  Only where CPUs are numbered in Aff1 (MT),    *)
(* and not for the broadcast form, which is passed on as it is.               *)
SgiReaches ==
  \A c \in Cpus : LET i == trap[c]
                      list == CpusOf(VmOf[c])
                  IN  Done(c) /\ i.op = "sysreg" /\ i.e = ICC_SGI1R_EL1 /\ ~i.read /\ mt /\ ~i.irm /\ i.k < Len(list)
                        => reached[c] = {list[i.k + 1]}

----------------------------------------------------------------------------
Flushing(d) == {c \in Cpus : at[c] = "chars" /\ Owner(trap[c]) = d}
Chars(d) == SelectSeq(out, LAMBDA m : m[1] = d /\ m[2] # Tag)

(* What a UART has printed, followed by what it still has to print, is what   *)
(* the VMs sent, in this order: no character is lost, repeated or overtaken   *)
(* by a flush of another CPU (dev_write, flush_tx_buff, emu_state_update).    *)
ConsoleOrder ==
  \A d \in Uarts : LET n == IF Flushing(d) = {} THEN 0 ELSE printed[CHOOSE c \in Flushing(d) : TRUE]
                   IN  [k \in 1 .. Len(Chars(d)) |-> Chars(d)[k][2]] \o SubSeq(tx_buff[d], n + 1, Len(tx_buff[d]))
                         = sent[d]

(* The lines of the sanctuary UARTs are whole: a tag comes first in a line,   *)
(* only there, and is followed by a character of the device it names (the     *)
(* lock of dlog covers flush_tx_buff and its lpc).  The i.MX UART prints      *)
(* without this lock, and its characters are left out.                        *)
LinesTagged ==
  LET lines == SelectSeq(out, LAMBDA m : devs[m[1]].kind = "sanct")
  IN  \A k \in 1 .. Len(lines) :
        LET starts == k = 1 \/ lines[k - 1][2] = END
        IN  /\ (lines[k][2] = Tag) <=> starts
            /\ k > 1 /\ lines[k - 1][2] = Tag => lines[k][1] = lines[k - 1][1]

(* A flush is never overtaken: while the lock of a device is free its buffer  *)
(* has room for the next character, so that tx_head stays in the array.       *)
RoomWhenFree ==
  \A d \in Uarts : /\ spinlocks[d] = None => Len(tx_buff[d]) < TX_BUFF_SZ /\ END \notin Range(tx_buff[d])
                   /\ Len(tx_buff[d]) <= TX_BUFF_SZ

(* A VM gets its CPU back from every trap, whatever the others print: no path *)
(* of a device access keeps a lock or waits for one in a circle.  Excepted is *)
(* a virtio load that destroys a register of the hypervisor.                  *)
TrapReturns ==
  \A c \in Cpus : at[c] = "sync" ~> (at[c] = "guest" \/ (at[c] = "panic" /\ InVirtio(trap[c])))

(* A trapped system register is emulated if a table lists it, an ID register  *)
(* shows the features the VM may use, and an SGI reaches the vCPU it names    *)
(* (handle_system_register_access).                                           *)
RegistersServed == ListedServed /\ TrappedIsHidden /\ SgiReaches


=============================================================================
