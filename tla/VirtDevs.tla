------------------------------- MODULE VirtDevs -------------------------------
(***************************************************************************)
(* The virtual devices (virt_devs.c, virt_devs/*.c): their registration,   *)
(* and what happens to an access that a CPU traps on.                      *)
(*                                                                         *)
(* An address is a number, a value is <<upper half, lower half>>, the      *)
(* lower half also being its last byte.  at[c] is the step CPU c is in.    *)
(* Tag stands for the prefix a UART prints, END for the line's end.        *)
(***************************************************************************)
EXTENDS Integers, Sequences, SequencesExt, FiniteSetsExt

CONSTANTS Cpus,         \* physical CPUs, numbers from 0
          VmOf,         \* the VM of a CPU
          Base,         \* kind -> address of its first window
          Slots,        \* length of devs[]
          TX_BUFF_SZ,
          Builds        \* builds: sequences of [kind, devs, dirmap]

VARIABLES devs,         \* the virtual devices of this build
          at,           \* CPU -> step
          trap,         \* CPU -> the trapped instruction
          regs,         \* CPU -> vcpu->regs: x, y and pc
          spinlocks,    \* device -> the CPU holding its lock, or None
          tx_buff,      \* UART -> characters
          lpc,          \* last character the sanctuary UARTs printed
          sl,           \* the CPU holding dlog's lock, or None
          printed,      \* CPU -> characters of its flush printed so far
          cells,        \* passthrough device -> contents
          mapped,       \* <<VM, device>> mapped in stage 2
          out,          \* the console: sequence of <<device, character>>
          sent,         \* history: UART -> characters accepted
          moved,        \* history: CPU -> value loaded or stored
          result        \* CPU -> "handled", "retry" or "inject"

devVars == <<devs, spinlocks, tx_buff, lpc, sl, printed, cells, mapped, out, sent>>

SIZE == 4
None == -1
NONE == [op |-> "none"]
Clobbered == -7         \* a pc that a load into XZR has overwritten
END == 10
Tag == 0
Zero == <<0, 0>>

\* Registers of the sanctuary UART and of the i.MX UART.
UTX == 1
UCR == 2
URTX0 == 1
IMX21_UTS == 3
UTS_TXEMPTY == 64

\* CCM registers whose writes are dropped (0x44b0 and 0xb000).
Filtered == {2, 3}

----------------------------------------------------------------------------
\* No instances of its own means that a device is passed through.
Mode(b) == IF b.devs # 0 THEN "emulate" ELSE IF b.dirmap THEN "dirmap" ELSE "passthr"

Window(b, k) ==
  [kind |-> b.kind, minor |-> k - 1, mode |-> Mode(b),
   addr_start |-> Base[b.kind] + (k - 1) * SIZE, addr_end |-> Base[b.kind] + k * SIZE]

\* The instances a kind registers: its own, or one that is passed through.
virt_sanct_uart_init(b) == [k \in 1 .. b.devs |-> Window(b, k)]
virt_imx_uart_init(b) == [k \in 1 .. Max({b.devs, 1}) |-> Window(b, k)]
virt_anatop_init(b) == [k \in 1 .. Max({b.devs, 1}) |-> Window(b, k)]
virt_iomux_init(b) == [k \in 1 .. Max({b.devs, 1}) |-> Window(b, k)]
virt_clock_ctrl_init(b) == [k \in 1 .. Max({b.devs, 1}) |-> Window(b, k)]

Instances(b) ==
  CASE b.kind = "sanct" -> virt_sanct_uart_init(b)
    [] b.kind = "imx" -> virt_imx_uart_init(b)
    [] b.kind = "anatop" -> virt_anatop_init(b)
    [] b.kind = "iomux" -> virt_iomux_init(b)
    [] b.kind = "clock" -> virt_clock_ctrl_init(b)

\* A kind that does not fit the slots left makes the boot fail.
init_virt_devs(build) ==
  FoldLeft(LAMBDA acc, b : IF Len(acc.devs) + Len(Instances(b)) > Slots THEN [acc EXCEPT !.ok = FALSE]
                           ELSE IF acc.ok THEN [acc EXCEPT !.devs = @ \o Instances(b)] ELSE acc,
           [ok |-> TRUE, devs |-> <<>>], build)

ASSUME SlotsAssumption == \A build \in Builds : init_virt_devs(build).ok

Devices == DOMAIN devs
Uarts == {d \in Devices : devs[d].kind \in {"sanct", "imx"} /\ devs[d].mode = "emulate"}

\* The devices the hypervisor maps for itself.  A passed-through UART is the
\* console, which is mapped before.
init_backing_devs ==
  {d \in Devices : devs[d].mode # "dirmap" /\ devs[d].kind \in {"anatop", "iomux", "clock"}}
Reachable(d) == d \in init_backing_devs \/ devs[d].kind = "imx"

----------------------------------------------------------------------------
\* fault_info_init: without a fault address only the page is known.
Ipa(i) == IF i.fnv THEN i.ipa - (i.ipa % SIZE) ELSE i.ipa

Claimants(i) == {d \in Devices : Ipa(i) >= devs[d].addr_start /\ Ipa(i) < devs[d].addr_end}
Owner(i) == Min(Claimants(i))
Offset(i) == Ipa(i) - devs[Owner(i)].addr_start

Trunc(v, sz) == IF sz = "d" THEN v ELSE <<0, v[2]>>

SkipOf(pc) == IF pc = Clobbered THEN Clobbered ELSE pc + 1

\* regs.r[srt] of a load: a W register keeps its upper half, and r[31], the
\* place of XZR, is pc.
LoadInto(file, i, v) ==
  IF i.r = "zr" THEN [file EXCEPT !.pc = Clobbered]
  ELSE [file EXCEPT ![i.r] = IF i.sz = "d" THEN v ELSE <<@[1], v[2]>>]

Stored(file, i) == Trunc(IF i.r = "zr" THEN Zero ELSE file[i.r], i.sz)

Advance(c) == regs' = [regs EXCEPT ![c].pc = SkipOf(@)]
Finish(c, how) == at' = [at EXCEPT ![c] = "exit"] /\ result' = [result EXCEPT ![c] = how]

\* access() leaves without having taken the lock.
Refuse(c) ==
  /\ Advance(c)
  /\ at' = [at EXCEPT ![c] = "gic"]
  /\ UNCHANGED <<trap, result, moved, devVars>>

\* DIRMAP: the VM gets the device and executes the instruction again.
MapDevice(c, d) ==
  \/ /\ mapped' = mapped \union {<<VmOf[c], d>>}
     /\ Finish(c, "retry")
     /\ UNCHANGED <<trap, regs, moved, devs, spinlocks, tx_buff, lpc, sl, printed, cells, out, sent>>
  \/ Refuse(c)

IsFiltered(i) == devs[Owner(i)].kind = "clock" /\ i.op = "st" /\ Offset(i) \in Filtered

Kind(c) == devs[Owner(trap[c])].kind
DevMode(c) == devs[Owner(trap[c])].mode

GoOn(c) ==
  /\ at' = [at EXCEPT ![c] = "dev_lock"]
  /\ UNCHANGED <<trap, regs, result, moved, devVars>>

sanct_uart_access(c) == Kind(c) = "sanct" /\ IF trap[c].isv THEN GoOn(c) ELSE Refuse(c)

imx_uart_access(c) ==
  /\ Kind(c) = "imx"
  /\ \/ ~trap[c].isv /\ Refuse(c)
     \/ trap[c].isv /\ DevMode(c) = "dirmap" /\ MapDevice(c, Owner(trap[c]))
     \/ trap[c].isv /\ DevMode(c) # "dirmap" /\ GoOn(c)

\* These three have no emulation yet.
PassOrMap(c) ==
  \/ (~trap[c].isv \/ DevMode(c) = "emulate") /\ Refuse(c)
  \/ trap[c].isv /\ DevMode(c) = "dirmap" /\ MapDevice(c, Owner(trap[c]))
  \/ trap[c].isv /\ DevMode(c) = "passthr" /\ GoOn(c)

anatop_access(c) == Kind(c) = "anatop" /\ PassOrMap(c)
iomux_access(c) == Kind(c) = "iomux" /\ PassOrMap(c)

clock_ctrl_access(c) ==
  LET filtered == trap[c].isv /\ DevMode(c) = "passthr" /\ IsFiltered(trap[c])
  IN  /\ Kind(c) = "clock"
      /\ \/ ~filtered /\ PassOrMap(c)
         \/ /\ filtered
            /\ Advance(c) /\ Finish(c, "handled")
            /\ UNCHANGED <<trap, moved, devVars>>

access(c) ==
  sanct_uart_access(c) \/ imx_uart_access(c) \/ anatop_access(c) \/ iomux_access(c) \/ clock_ctrl_access(c)

sl_lock(c) ==
  /\ at[c] = "dev_lock"
  /\ spinlocks[Owner(trap[c])] = None
  /\ spinlocks' = [spinlocks EXCEPT ![Owner(trap[c])] = c]
  /\ at' = [at EXCEPT ![c] = "dev_op"]
  /\ UNCHANGED <<trap, regs, result, moved, devs, tx_buff, lpc, sl, printed, cells, mapped, out, sent>>

----------------------------------------------------------------------------
\* The move between register and device.  A device the hypervisor has not
\* mapped is a fault in EL2, which panics.
Passthrough(c) ==
  LET i == trap[c]
      d == Owner(i)
      v == IF i.op = "ld" THEN Trunc(cells[d], i.sz) ELSE Stored(regs[c], i)
  IN  /\ at[c] = "dev_op" /\ devs[d].mode = "passthr"
      /\ IF ~Reachable(d)
         THEN at' = [at EXCEPT ![c] = "panic"] /\ UNCHANGED <<regs, cells, moved>>
         ELSE /\ at' = [at EXCEPT ![c] = "dev_unlock"]
              /\ moved' = [moved EXCEPT ![c] = v]
              /\ IF i.op = "ld"
                 THEN regs' = [regs EXCEPT ![c] = LoadInto(@, i, v)] /\ UNCHANGED cells
                 ELSE /\ cells' = [cells EXCEPT ![d] = IF i.sz = "d" THEN v ELSE <<@[1], v[2]>>]
                      /\ UNCHANGED regs
      /\ UNCHANGED <<trap, result, devs, spinlocks, tx_buff, lpc, sl, printed, mapped, out, sent>>

imx_uart_transfer(c) == at[c] = "dev_op" /\ Kind(c) = "imx" /\ Passthrough(c)
anatop_transfer(c) == at[c] = "dev_op" /\ Kind(c) = "anatop" /\ Passthrough(c)
iomux_transfer(c) == at[c] = "dev_op" /\ Kind(c) = "iomux" /\ Passthrough(c)
clock_ctrl_transfer(c) == at[c] = "dev_op" /\ Kind(c) = "clock" /\ Passthrough(c)

\* The sanctuary UART's only readable register is never filled.  Of the i.MX
\* UART one register reads; any other has its destination cleared.
dev_read(c) ==
  /\ at[c] = "dev_op" /\ Kind(c) = "sanct" /\ trap[c].op = "ld"
  /\ at' = [at EXCEPT ![c] = "dev_unlock"]
  /\ regs' = [regs EXCEPT ![c] = LoadInto(@, trap[c], Zero)]
  /\ moved' = [moved EXCEPT ![c] = Zero]
  /\ UNCHANGED <<trap, result, devVars>>

imx_uart_read(c) ==
  LET v == IF Offset(trap[c]) = IMX21_UTS THEN <<0, UTS_TXEMPTY>> ELSE Zero
  IN  /\ at[c] = "dev_op" /\ Kind(c) = "imx" /\ DevMode(c) = "emulate" /\ trap[c].op = "ld"
      /\ at' = [at EXCEPT ![c] = "dev_unlock"]
      /\ regs' = [regs EXCEPT ![c] = LoadInto(@, trap[c], v)]
      /\ moved' = [moved EXCEPT ![c] = v]
      /\ UNCHANGED <<trap, result, devVars>>

\* A character is buffered.  A full buffer, a line's end or, for the sanctuary
\* UART, a request in UCR starts a flush; other registers ignore what is sent.
Buffer(c, d, v, flush) ==
  /\ tx_buff' = [tx_buff EXCEPT ![d] = Append(@, v[2])]
  /\ sent' = [sent EXCEPT ![d] = Append(@, v[2])]
  /\ at' = [at EXCEPT ![c] = IF flush THEN "tag" ELSE "dev_unlock"]

dev_write(c) ==
  LET i == trap[c]
      d == Owner(i)
      v == Stored(regs[c], i)
      asks == Offset(i) = UCR /\ v[2] # 0 /\ tx_buff[d] # <<>>
  IN  /\ at[c] = "dev_op" /\ Kind(c) = "sanct" /\ i.op = "st"
      /\ \/ Offset(i) = UTX /\ Buffer(c, d, v, v[2] = END \/ Len(tx_buff[d]) + 1 = TX_BUFF_SZ)
         \/ /\ Offset(i) # UTX
            /\ at' = [at EXCEPT ![c] = IF asks THEN "tag" ELSE "dev_unlock"]
            /\ UNCHANGED <<tx_buff, sent>>
      /\ moved' = [moved EXCEPT ![c] = v]
      /\ UNCHANGED <<trap, regs, result, devs, spinlocks, lpc, sl, printed, cells, mapped, out>>

emu_state_update(c) ==
  LET i == trap[c]
      d == Owner(i)
      v == Stored(regs[c], i)
  IN  /\ at[c] = "dev_op" /\ Kind(c) = "imx" /\ DevMode(c) = "emulate" /\ i.op = "st"
      /\ \/ /\ Offset(i) = URTX0
            /\ Buffer(c, d, v, v[2] = END \/ Len(tx_buff[d]) + 1 = TX_BUFF_SZ)
            /\ moved' = [moved EXCEPT ![c] = v]
         \/ /\ Offset(i) # URTX0
            /\ at' = [at EXCEPT ![c] = "dev_unlock"]
            /\ UNCHANGED <<tx_buff, sent, moved>>
      /\ UNCHANGED <<trap, regs, result, devs, spinlocks, lpc, sl, printed, cells, mapped, out>>

----------------------------------------------------------------------------
IsSanct(c) == Kind(c) = "sanct"

\* flush_tx_buff keeps dlog's lock until the buffer is out and prints a tag at
\* a line's start; emu_state_update only calls dlog, which locks for the tag.
PutTag(c) ==
  LET d == Owner(trap[c])
  IN  /\ at[c] = "tag" /\ sl = None
      /\ sl' = IF IsSanct(c) THEN c ELSE None
      /\ out' = IF IsSanct(c) /\ lpc # END THEN out ELSE Append(out, <<d, Tag>>)
      /\ at' = [at EXCEPT ![c] = "chars"]
      /\ UNCHANGED <<trap, regs, result, moved, devs, spinlocks, tx_buff, lpc, printed, cells, mapped, sent>>

\* stdout_puts, and the loop over backing_putchar.
PutChar(c) ==
  LET d == Owner(trap[c])
  IN  /\ at[c] = "chars" /\ printed[c] < Len(tx_buff[d])
      /\ out' = Append(out, <<d, tx_buff[d][printed[c] + 1]>>)
      /\ printed' = [printed EXCEPT ![c] = @ + 1]
      /\ UNCHANGED <<at, trap, regs, result, moved, devs, spinlocks, tx_buff, lpc, sl, cells, mapped, sent>>


EndFlush(c) ==
  LET d == Owner(trap[c])
  IN  /\ at[c] = "chars" /\ printed[c] >= Len(tx_buff[d])
      /\ lpc' = IF IsSanct(c) THEN Last(tx_buff[d]) ELSE lpc
      /\ sl' = IF IsSanct(c) THEN None ELSE sl
      /\ tx_buff' = [tx_buff EXCEPT ![d] = <<>>]
      /\ at' = [at EXCEPT ![c] = "dev_unlock"]
      /\ UNCHANGED <<trap, regs, result, moved, devs, spinlocks, printed, cells, mapped, out, sent>>

UnlockForgotten(c) ==
  /\ at[c] = "dev_unlock"
  /\ Advance(c)
  /\ Finish(c, "handled")
  /\ UNCHANGED <<trap, moved, devs, spinlocks, tx_buff, lpc, sl, printed, cells, mapped, out, sent>>

sl_unlock(c) ==
  /\ at[c] = "dev_unlock"
  /\ spinlocks' = [spinlocks EXCEPT ![Owner(trap[c])] = None]
  /\ Advance(c)
  /\ Finish(c, "handled")
  /\ UNCHANGED <<trap, moved, devs, tx_buff, lpc, sl, printed, cells, mapped, out, sent>>

DeviceStep(c) ==
  sl_lock(c) \/ imx_uart_transfer(c) \/ anatop_transfer(c) \/ iomux_transfer(c)
    \/ clock_ctrl_transfer(c) \/ dev_read(c) \/ imx_uart_read(c) \/ dev_write(c) \/ emu_state_update(c) \/ PutTag(c) \/ PutChar(c)
    \/ EndFlush(c) \/ sl_unlock(c)

----------------------------------------------------------------------------
DevInit ==
  /\ spinlocks = [d \in Devices |-> None]
  /\ tx_buff = [d \in Uarts |-> <<>>]
  /\ sent = [d \in Uarts |-> <<>>]
  /\ lpc = END /\ sl = None
  /\ printed = [c \in Cpus |-> 0]
  /\ cells = [d \in Devices |-> <<8, 8>>]
  /\ mapped = {} /\ out = <<>>
=============================================================================
