----------------------------- MODULE BootParams -----------------------------
(***************************************************************************)
(* What one_time_init takes from the board's device tree and from the boot *)
(* archive before it parses the manifest (fdt_handler.c, boot_flow,        *)
(* cpio.c).                                                                *)
(***************************************************************************)
EXTENDS Fdt

CONSTANTS MAX_CPUS, MAX_MEM_RANGES, MAX_DEVICE_MEM_RANGES

-----------------------------------------------------------------------------
(* The archive.  A header is ten bytes: the magic, a field that is not     *)
(* read, the size of the name and the two halves of the size of the file.  *)

CPIO_HEADER == 10
CPIO_MAGIC == 7
Half(s, n) == s[n] + BYTE * s[n + 1]
Unpadded(n) == n
Even(n) == n + (n % 2)
TRAILER == <<Letter(3), Letter(3), NUL>>

NoFile == [ok |-> FALSE, name |-> << >>, contents |-> 0, size |-> 0, next |-> 0]

\* The entry after the first pos bytes, which ends after next bytes.
cpio_next(cpio, pos) ==
  LET h == Drop(cpio, pos)
      name == pos + CPIO_HEADER
      namesize == Half(h, 5)
      contents == name + Even(namesize)
      size == Half(h, 7) * BYTE^2 + Half(h, 9)
  IN IF \/ name > Len(cpio)
        \/ Half(h, 1) # CPIO_MAGIC
        \/ contents > Len(cpio)
        \/ namesize = 0
        \/ cpio[name + namesize] # NUL
        \/ contents + Even(size) > Len(cpio)
        \/ SameUpTo(Drop(cpio, name), TRAILER, Len(TRAILER))
     THEN NoFile
     ELSE [ok |-> TRUE, name |-> SubSeq(cpio, name + 1, name + namesize),
           contents |-> contents, size |-> size, next |-> contents + Even(size)]

RECURSIVE GetFileFrom(_, _, _)
GetFileFrom(cpio, pos, name) ==
  LET file == cpio_next(cpio, pos)
  IN CASE ~file.ok -> NoFile
       [] file.ok /\ SameUpTo(file.name, name, STRING_MAX_SIZE) -> file
       [] OTHER -> GetFileFrom(cpio, file.next, name)

cpio_get_file(cpio, name) == GetFileFrom(cpio, 0, name)

-----------------------------------------------------------------------------
(* The board's device tree.  outcome is "ok", "false" or "panic".          *)

CPU == <<Letter(1), NUL>>
MEMORY == <<Letter(2), NUL>>
DEVICE_MEMORY == <<Letter(3), NUL>>
CHOSEN == <<Letter(0)>>
CPUS == <<Letter(1)>>

fdt_find_initrd(fdt) ==
  LET chosen == fdt_find_node(fdt, CHOSEN)
      begin == fdt_read_number(chosen, "linux,initrd-start")
      end == fdt_read_number(chosen, "linux,initrd-end")
  IN [outcome |-> IF chosen # NoNode /\ begin.ok /\ end.ok THEN "ok" ELSE "false",
      begin |-> begin.val, end |-> end.val]

\* The reg properties of the children of that device_type, in order.
Regs(node, type) ==
  LET typed(kid) == /\ HasProperty(kid, "device_type")
                    /\ string_eq(type, kid.props["device_type"])
                    /\ HasProperty(kid, "reg")
      kids == SelectSeq(node.kids, typed)
  IN [n \in DOMAIN kids |-> kids[n].props["reg"]]

\* A reg is read as whole entries of these sizes, or not at all.
Readable(reg, sizes) ==
  \/ reg = << >>
  \/ (\A n \in DOMAIN sizes : sizes[n] \in {4, 8}) /\ Len(reg) % FoldLeft(+, 0, sizes) = 0

Entries(reg, bytes) == [n \in 1..(Len(reg) \div bytes) |-> SubSeq(reg, bytes * (n - 1) + 1, bytes * n)]

fdt_find_cpus(fdt) ==
  LET cpus == fdt_find_node(fdt, CPUS)
      addr_size == fdt_address_size(cpus)
      regs == Regs(cpus, CPU)
      ids == FlattenSeq([n \in DOMAIN regs |-> Entries(regs[n], addr_size.size)])
  IN IF \/ cpus = NoNode \/ ~addr_size.ok \/ cpus.kids = << >>
        \/ \E n \in DOMAIN regs : ~Readable(regs[n], <<addr_size.size>>)
        \/ Len(ids) > MAX_CPUS
     THEN [outcome |-> "false", cpu_ids |-> << >>]
     ELSE [outcome |-> "ok", cpu_ids |-> [n \in DOMAIN ids |-> BigEndian(ids[n])]]

fdt_find_memory_ranges(fdt, type, limit) ==
  LET addr_size == fdt_address_size(fdt)
      size_size == fdt_size_size(fdt)
      regs == Regs(fdt, type)
      bytes == addr_size.size + size_size.size
      found == FlattenSeq([n \in DOMAIN regs |-> Entries(regs[n], bytes)])
      begin(e) == BigEndian(SubSeq(e, 1, addr_size.size))
      len(e) == BigEndian(Drop(e, addr_size.size))
      range(e) == [begin |-> begin(e), end |-> (begin(e) + len(e)) % BYTE^8]
  IN CASE ~addr_size.ok \/ ~size_size.ok \/ fdt.kids = << >> ->
            [outcome |-> "false", ranges |-> << >>]
       [] \E n \in DOMAIN regs : ~Readable(regs[n], <<addr_size.size, size_size.size>>) ->
            [outcome |-> "panic", ranges |-> << >>]
       [] OTHER ->
            [outcome |-> "ok", ranges |-> [n \in 1..Min({limit, Len(found)}) |-> range(found[n])]]

boot_flow_get_params(fdt) ==
  LET initrd == fdt_find_initrd(fdt)
      cpus == fdt_find_cpus(fdt)
      mem == fdt_find_memory_ranges(fdt, MEMORY, MAX_MEM_RANGES)
      dev == fdt_find_memory_ranges(fdt, DEVICE_MEMORY, MAX_DEVICE_MEM_RANGES)
      steps == <<initrd.outcome, cpus.outcome, mem.outcome, dev.outcome>>
      bad == SelectSeq(steps, LAMBDA o : o # "ok")
  IN [outcome |-> IF bad = << >> THEN "ok" ELSE Head(bad),
      initrd_begin |-> initrd.begin, cpu_ids |-> cpus.cpu_ids,
      mem_ranges |-> mem.ranges, device_mem_ranges |-> dev.ranges]
=============================================================================
