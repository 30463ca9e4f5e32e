------------------------------- MODULE MCLoad -------------------------------
(***************************************************************************)
(* A machine of 32 pages, two VMs; device pages from 40 on.                *)
(***************************************************************************)
EXTENDS Load

Image == <<<<1, 2, "x">>, <<2, 3, "r">>, <<3, 4, "rw">>>>
FdtRange == <<6, 8>>
InitrdRange == <<10, 11>>
Gic == <<40, 42>>
Shared == <<<<43, 44>>>>

Vm(kernel, fdt, ramdisk, sizes, memory, gic, identity) ==
  [kernel |-> kernel, fdt |-> fdt, ramdisk |-> ramdisk,
   size |-> [c \in Parts |-> IF c = "kernel" THEN sizes[1] ELSE IF c = "fdt" THEN sizes[2] ELSE sizes[3]],
   memory_size |-> memory, gic |-> gic, identity_mapping |-> identity,
   vcpu_count |-> 1, pcpu_count |-> 1, devices |-> <<<<44, 45>>>>, interrupts |-> <<7>>]

\* Kernel first, its address off a block; a gap of seven pages that has to be split.
Linux(memory) == Vm(3, 8, 12, <<3, 1, 2>>, memory, 1, FALSE)
\* Device tree first, RAM disk before the kernel.
Reversed == Vm(7, 2, 4, <<2, 1, 2>>, 8, 0, FALSE)
Direct(begin, memory) == Vm(begin, begin + 3, MANIFEST_INVALID_ADDRESS, <<2, 1, 0>>, memory,
                            MANIFEST_INVALID_ADDRESS, TRUE)
SameAddress == Vm(3, 8, 3, <<2, 1, 1>>, 8, 1, FALSE)
Overlapping == Vm(3, 6, 4, <<1, 1, 3>>, 8, 1, FALSE)
\* The device tree reaches beyond the VM's memory.
TooSmall == Vm(3, 8, MANIFEST_INVALID_ADDRESS, <<2, 3, 0>>, 6, 1, FALSE)

SomeManifests ==
  {<<Linux(11), Reversed>>, <<Linux(13), Direct(22, 5)>>, <<Reversed, Direct(26, 5)>>,
   <<Direct(18, 5), Linux(18)>>, <<SameAddress, Direct(26, 5)>>, <<Direct(26, 5), Overlapping>>,
   <<Reversed, TooSmall>>, <<Direct(26, 5), Direct(21, 7)>>}
=============================================================================
