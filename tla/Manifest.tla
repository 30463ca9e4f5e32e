------------------------------ MODULE Manifest ------------------------------
(***************************************************************************)
(* The boot from the mapped device tree to the parsed manifest:            *)
(* boot_flow_get_params, the search for the manifest in the archive, the   *)
(* choice of a mediator, whose probe calls manifest_init, and the parser   *)
(* itself (init.c, mediator.c, default_mediator.c, manifest.c).            *)
(*                                                                         *)
(* The parser is a program of field reads, one step each, over the nodes   *)
(* it walks.  A boot (of Boots) has an image: a board tree, an archive and *)
(* the tree of the manifest; and a build: MAX_VMS, MEASURED_BOOT, whether  *)
(* errors are logged, and whether there is an external mediator.  junk is  *)
(* what the third byte of the uninitialised temp_str of uuid_from_str      *)
(* holds.                                                                  *)
(***************************************************************************)
EXTENDS BootParams

CONSTANTS Boots, MAX_SMCS, MAX_SECSERVS,
          SP_MAX_INTERRUPTS_PER_DEVICE, SP_MAX_STREAMS_PER_DEVICE

VARIABLES
  image, build, junk,    \* the input
  pc,                    \* the function the boot is in
  k,                     \* the field it reads next
  params,                \* struct boot_params
  mediator,              \* the registered one
  manifest,              \* manifest_raw
  i,                     \* the VM that is parsed
  node, mem_node,        \* parse_vm's nodes
  list,                  \* the iterator of parse_device_region_node
  regions,               \* the device regions read so far
  ret,                   \* what manifest_init returns
  attempts               \* history: how often manifest_init has run

inputs == <<image, build, junk>>
parser == <<manifest, i, node, mem_node, list, regions, ret>>
vars == <<inputs, pc, k, params, mediator, parser, attempts>>

PG_VM_ID_BASE == 0
PG_VM_ID_OFFSET == 1
PG_PRIMARY_VM_ID == 1
MANIFEST_INVALID_ADDRESS == UINT64_MAX
MANIFEST_INVALID_ID == UINT32_MAX
MM_PERM_MASK == 8            \* attributes modulo 8 are the permissions
MM_MODE_D == 8
HYPERVISOR == <<Letter(0)>>
MANIFEST_FNAME == <<Letter(2), NUL>>
MANIFEST_SIG_FNAME == <<Letter(2), Letter(2), NUL>>
LAYOUT == <<Letter(2), NUL>>
REGIONS == <<Letter(3), NUL>>

-----------------------------------------------------------------------------
(* The fields, in the order they are read: how, from which property, with  *)
(* which default, and whether in every build.                              *)

Field(kind, prop) == [kind |-> kind, prop |-> prop, default |-> 0, always |-> TRUE]
Default(f, value) == [f EXCEPT !.default = value]
Measured(f) == [f EXCEPT !.always = FALSE]

HeaderFields ==
  <<Field("uuid", "manifest_uuid"), Field("optional_uint32", "manifest_version"),
    Measured(Field("optional_uint32", "manifest_signature_algo_id")),
    Measured(Field("optional_uint32", "manifest_signature_size")),
    Measured(Field("optional_uint32", "manifest_hash_size")),
    Measured(Field("optional_uint32", "manifest_hash_algo_id"))>>

VmFields ==
  <<Field("uuid", "uuid"), Field("string", "debug_name"),
    Field("optional_string", "kernel_filename"), Field("optional_uint32", "kernel_version"),
    Field("char_arr", "kernel_boot_params"), Measured(Field("char_arr", "kernel_hash")),
    Field("optional_string", "fdt_filename"), Field("optional_uint32", "fdt_version"),
    Measured(Field("char_arr", "fdt_hash")), Field("optional_string", "ramdisk_filename"),
    Field("optional_uint32", "ramdisk_version"), Measured(Field("char_arr", "ramdisk_hash")),
    Field("bool", "is_primary"), Field("uint16", "vcpu_count"), Field("cpus", "cpus"),
    Field("smcs", "smc_whitelist"), Field("bool", "smc_whitelist_permissive"),
    Field("secservs", "security_services"), Field("optional_uint64", "memory_size"),
    Field("bool", "use_disk_encryption"), Measured(Field("uint32", "hash_algo_id")),
    Measured(Field("uint16", "hash_size")),
    Default(Field("optional_uint64", "boot_address"), MANIFEST_INVALID_ADDRESS),
    Field("bool", "requires_identity_mapping")>>

LayoutFields ==
  <<Field("uint64", "kernel"),
    Default(Field("optional_uint64", "gic"), MANIFEST_INVALID_ADDRESS),
    Default(Field("optional_uint64", "fdt"), MANIFEST_INVALID_ADDRESS),
    Default(Field("optional_uint64", "ramdisk"), MANIFEST_INVALID_ADDRESS)>>

RegionFields ==
  <<Field("optional_string", "description"), Field("uint64", "base-address"),
    Field("uint32", "pages-count"), Field("attributes", "attributes"),
    Field("interrupts", "interrupts"),
    Default(Field("optional_uint32", "smmu-id"), MANIFEST_INVALID_ID),
    Field("streams", "stream-ids"), Field("bool", "exclusive-access")>>

Program(fields) == SelectSeq(fields, LAMBDA f : f.always \/ build.measured)

\* What the static manifest_raw holds before it is parsed.
Zero(kind) ==
  CASE kind = "uuid" -> NoUuid
    [] kind \in {"string", "optional_string", "char_arr", "cpus", "smcs", "secservs",
                 "interrupts", "streams"} -> << >>
    [] kind = "bool" -> FALSE
    [] OTHER -> 0

Blank(fields) ==
  LET program == Program(fields)
  IN [p \in {program[n].prop : n \in DOMAIN program} |->
        Zero((CHOOSE f \in ToSet(program) : f.prop = p).kind)]

NoVm == Blank(VmFields) @@ Blank(LayoutFields) @@ ("dev_regions" :> << >>)

-----------------------------------------------------------------------------
(* Reading one field.  have is what the manifest holds there, out what it  *)
(* holds afterwards.                                                       *)

Outcome(ret_, out, rest) == [ret |-> ret_, out |-> out, list |-> rest]

\* The loop over the strings of security_services: an entry is counted
\* before it is read.
RECURSIVE TakeSecservs(_, _)
TakeSecservs(strings, have) ==
  LET next == chararrlist_get_next(strings)
      uuid == uuid_from_str(next.str, next.size, junk)
  IN CASE strings = << >> \/ Len(have) = MAX_SECSERVS -> Outcome("SUCCESS", have, list)
       [] ~next.ok \/ ~uuid.ok -> Outcome("MALFORMED_UUID", Append(have, NoUuid), list)
       [] OTHER -> TakeSecservs(next.rest, Append(have, uuid.uuid))

ReadCpus(nd, p) ==
  LET read == read_uint32list(nd, p, << >>)
  IN Outcome(read.ret, uint32list_take(read.out, MAX_CPUS).out, list)


ReadSmcs(nd, p, have) ==
  LET read == read_optional_uint32list(nd, p, << >>)
  IN Outcome(read.ret, have \o uint32list_take(read.out, MAX_SMCS - Len(have)).out, list)

\* Pairs of an interrupt and its attributes.
ReadInterrupts(nd, p) ==
  LET read == read_optional_uint32list(nd, p, list)
      cells == uint32list_take(read.out, 2 * SP_MAX_INTERRUPTS_PER_DEVICE)
      pairs == [n \in 1..(Len(cells.out) \div 2) |-> <<cells.out[2 * n - 1], cells.out[2 * n]>>]
  IN IF read.ret = "SUCCESS" /\ Len(cells.out) % 2 = 1
     THEN Outcome("MALFORMED_INTEGER_LIST", << >>, cells.rest)
     ELSE Outcome(read.ret, pairs, cells.rest)

ReadStreams(nd, p) ==
  LET read == read_optional_uint32list(nd, p, list)
      cells == uint32list_take(read.out, SP_MAX_STREAMS_PER_DEVICE)
  IN Outcome(read.ret, cells.out, cells.rest)

ReadAttributes(nd, p) ==
  LET read == read_uint32(nd, p)
  IN Outcome(read.ret, (read.out % MM_PERM_MASK) + MM_MODE_D, list)

Plain(read) == Outcome(read.ret, read.out, list)

ReadField(f, nd, have) ==
  CASE f.kind = "uuid" -> Plain(read_optional_uuid(nd, f.prop, junk))
    [] f.kind = "string" -> Plain(read_string(nd, f.prop))
    [] f.kind = "optional_string" -> Plain(read_optional_string(nd, f.prop))
    [] f.kind = "char_arr" -> Plain(read_optional_char_arr(nd, f.prop))
    [] f.kind = "bool" -> Plain(read_bool(nd, f.prop))
    [] f.kind = "uint64" -> Plain(read_uint64(nd, f.prop))
    [] f.kind = "uint32" -> Plain(read_uint32(nd, f.prop))
    [] f.kind = "uint16" -> Plain(read_uint16(nd, f.prop))
    [] f.kind = "optional_uint64" -> Plain(read_optional_uint64(nd, f.prop, f.default))
    [] f.kind = "optional_uint32" -> Plain(read_optional_uint32(nd, f.prop, f.default))
    [] f.kind = "cpus" -> ReadCpus(nd, f.prop)
    [] f.kind = "smcs" -> ReadSmcs(nd, f.prop, have)
    [] f.kind = "secservs" -> TakeSecservs(read_optional_char_arr(nd, f.prop).out, have)
    [] f.kind = "attributes" -> ReadAttributes(nd, f.prop)
    [] f.kind = "interrupts" -> ReadInterrupts(nd, f.prop)
    [] f.kind = "streams" -> ReadStreams(nd, f.prop)

\* What a failed read leaves behind: cpu_count is cleared, and a service
\* counted, before the read.
Kept(f, read, have) ==
  IF read.ret = "SUCCESS" \/ f.kind \in {"cpus", "secservs"} THEN read.out ELSE have

-----------------------------------------------------------------------------
(* The parser.                                                             *)

\* Codes manifest_strerror has a text for; it panics on the others.
Described ==
  {"SUCCESS", "FILE_SIZE", "MALFORMED_DTB", "NO_ROOT_NODE", "NO_HYPERVISOR_FDT_NODE",
   "NOT_COMPATIBLE", "RESERVED_VM_ID", "NO_PRIMARY_VM", "TOO_MANY_VMS",
   "PROPERTY_NOT_FOUND", "MALFORMED_STRING", "STRING_TOO_LONG", "MALFORMED_INTEGER",
   "INTEGER_OVERFLOW", "MALFORMED_INTEGER_LIST", "MALFORMED_BOOLEAN",
   "MEMORY_REGION_NODE_EMPTY", "DEVICE_REGION_NODE_EMPTY", "RXTX_SIZE_MISMATCH",
   "MALFORMED_UUID"}

manifest_strerror(code) == code \in Described

\* RET with a text: the text is evaluated only in a build that logs.
Finish(code) ==
  /\ ret' = code
  /\ pc' = IF build.logs /\ ~manifest_strerror(code) THEN "panic" ELSE "parsed"

\* One field of a program, and the structure with the value read.
Reading(fields, nd, have) == ReadField(Program(fields)[k], nd, have[Program(fields)[k].prop])
Stored(fields, nd, have) ==
  LET f == Program(fields)[k] IN [have EXCEPT ![f.prop] = Kept(f, Reading(fields, nd, have), @)]

\* An error ends the parser; else the next field, or then.
Advance(fields, nd, have, then) ==
  LET read == Reading(fields, nd, have)
  IN /\ list' = read.list
     /\ IF read.ret # "SUCCESS" THEN Finish(read.ret) /\ UNCHANGED k
        ELSE /\ UNCHANGED ret
             /\ IF k < Len(Program(fields)) THEN k' = k + 1 /\ UNCHANGED pc
                ELSE k' = 1 /\ pc' = then

\* The manifest in the archive; fdt_check_full (external) accepts it whole.
manifest_it == cpio_get_file(image.cpio, MANIFEST_FNAME)
Valid == SubSeq(image.cpio, manifest_it.contents + 1, manifest_it.contents + manifest_it.size) = image.blob
hyp_node == fdt_find_node(image.manifest, HYPERVISOR)

\* How long a VM's number is, and its name.
count_digits(n) == Min({d \in 1..5 : n < RADIX^d})
generate_vm_node_name(n) ==
  LET c == count_digits(n)
  IN <<Letter(1)>> \o [m \in 1..c |-> Digit((n \div RADIX^(c - m)) % RADIX)] \o <<NUL>>

NoChild(name) == fdt_find_child(hyp_node, name) = NoNode

\* manifest_init up to the fields of the hypervisor node.
manifest_init ==
  /\ pc = "manifest_init"
  /\ attempts' = attempts + 1
  /\ k' = 1 /\ i' = 0
  /\ CASE ~Valid -> Finish("FILE_SIZE")
       [] Valid /\ hyp_node = NoNode -> Finish("NO_HYPERVISOR_FDT_NODE")
       [] Valid /\ hyp_node # NoNode /\ ~fdt_is_compatible(hyp_node) -> Finish("NOT_COMPATIBLE")
       [] OTHER -> pc' = "header" /\ UNCHANGED ret
  /\ UNCHANGED <<inputs, params, mediator, manifest, node, mem_node, list, regions>>

ParseHeader ==
  /\ pc = "header"
  /\ Advance(HeaderFields, hyp_node, manifest.header, "reserved")
  /\ manifest' = [manifest EXCEPT !.header = Stored(HeaderFields, hyp_node, @)]
  /\ UNCHANGED <<inputs, params, mediator, i, node, mem_node, regions, attempts>>

CheckReserved ==
  /\ pc = "reserved"
  /\ IF \E n \in PG_VM_ID_BASE..(PG_VM_ID_OFFSET - 1) : ~NoChild(generate_vm_node_name(n - PG_VM_ID_BASE))
     THEN Finish("RESERVED_VM_ID")
     ELSE pc' = "next_vm" /\ UNCHANGED ret
  /\ UNCHANGED <<inputs, k, params, mediator, manifest, i, node, mem_node, list, regions, attempts>>

\* The head of the loop over the VMs.  The primary VM is the first.
NextVm ==
  LET vm_id == PG_VM_ID_OFFSET + i
      name == generate_vm_node_name(vm_id - PG_VM_ID_BASE)
      found_primary_vm == i > PG_PRIMARY_VM_ID - PG_VM_ID_OFFSET
  IN /\ pc = "next_vm"
     /\ CASE NoChild(name) ->
               /\ Finish(IF found_primary_vm THEN "SUCCESS" ELSE "NO_PRIMARY_VM")
               /\ UNCHANGED <<manifest, node>>
          [] ~NoChild(name) /\ i = build.max_vms ->
               Finish("TOO_MANY_VMS") /\ UNCHANGED <<manifest, node>>
          [] OTHER ->
               /\ manifest' = [manifest EXCEPT !.vm_count = i + 1]
               /\ node' = fdt_find_child(hyp_node, name)
               /\ pc' = "vm" /\ UNCHANGED ret
     /\ UNCHANGED <<inputs, k, params, mediator, i, mem_node, list, regions, attempts>>

parse_vm ==
  /\ pc = "vm"
  /\ Advance(VmFields, node, manifest.vm[i], "find_layout")
  /\ manifest' = [manifest EXCEPT !.vm[i] = Stored(VmFields, node, @)]
  /\ UNCHANGED <<inputs, params, mediator, i, node, mem_node, regions, attempts>>

\* The search for the layout works on a copy of the node.
FindLayout ==
  LET found == fdt_find_child(node, LAYOUT)
  IN /\ pc = "find_layout"
     /\ mem_node' = found
     /\ IF found = NoNode THEN Finish("NO_MEMORY_LAYOUT")
        ELSE pc' = "layout" /\ UNCHANGED ret
     /\ UNCHANGED <<inputs, k, params, mediator, manifest, i, node, list, regions, attempts>>

ParseLayout ==
  /\ pc = "layout"
  /\ Advance(LayoutFields, mem_node, manifest.vm[i], "find_regions")
  /\ manifest' = [manifest EXCEPT !.vm[i] = Stored(LayoutFields, mem_node, @)]
  /\ UNCHANGED <<inputs, params, mediator, i, node, mem_node, regions, attempts>>

\* The VM's last node is optional, but must not be empty.
FindRegions ==
  LET found == fdt_find_child(node, REGIONS)
  IN /\ pc = "find_regions"
     /\ CASE found = NoNode ->
               pc' = "next_vm" /\ i' = i + 1 /\ UNCHANGED <<node, regions, ret>>
          [] found # NoNode /\ found.kids = << >> ->
               node' = found /\ Finish("DEVICE_REGION_NODE_EMPTY") /\ UNCHANGED <<i, regions>>
          [] OTHER ->
               /\ node' = found
               /\ regions' = <<Blank(RegionFields)>>
               /\ pc' = "region" /\ UNCHANGED <<i, ret>>
     /\ UNCHANGED <<inputs, k, params, mediator, manifest, mem_node, list, attempts>>

\* The regions of one VM.  Their number is not compared with the size of
\* the array (SP_MAX_DEVICE_REGIONS); the images have no more than that.
parse_device_region_node ==
  LET d == Len(regions)
      read == Stored(RegionFields, node.kids[d], regions[d])
      complete == k = Len(Program(RegionFields))
                  /\ Reading(RegionFields, node.kids[d], regions[d]).ret = "SUCCESS"
      last == complete /\ d = Len(node.kids)
  IN /\ pc = "region"
     /\ Advance(RegionFields, node.kids[d], regions[d], IF last THEN "next_vm" ELSE "region")
     /\ regions' = [regions EXCEPT ![d] = read]
                     \o (IF complete /\ ~last THEN <<Blank(RegionFields)>> ELSE << >>)
     /\ manifest' = IF last THEN [manifest EXCEPT !.vm[i]["dev_regions"] = regions'] ELSE manifest
     /\ i' = IF last THEN i + 1 ELSE i
     /\ UNCHANGED <<inputs, params, mediator, node, mem_node, attempts>>

-----------------------------------------------------------------------------
(* one_time_init.                                                          *)

NoParams == [outcome |-> "none", initrd_begin |-> 0, cpu_ids |-> << >>,
             mem_ranges |-> << >>, device_mem_ranges |-> << >>]

Init ==
  /\ \E b \in Boots : image = b.image /\ build = b.build /\ junk = b.junk
  /\ pc = "params" /\ k = 1
  /\ params = NoParams
  /\ mediator = "none"
  /\ manifest = [vm_count |-> 0, header |-> Blank(HeaderFields),
                 vm |-> [n \in 0..(build.max_vms - 1) |-> NoVm]]
  /\ i = 0 /\ node = NoNode /\ mem_node = NoNode
  /\ list = << >> /\ regions = << >>
  /\ ret = "none" /\ attempts = 0

GetParams ==
  /\ pc = "params"
  /\ params' = boot_flow_get_params(image.tree)
  /\ pc' = IF params'.outcome = "ok" /\ params'.initrd_begin # 0 THEN "archive" ELSE "panic"
  /\ UNCHANGED <<inputs, k, mediator, parser, attempts>>

FindManifest ==
  /\ pc = "archive"
  /\ pc' = IF /\ manifest_it.ok
              /\ build.measured => cpio_get_file(image.cpio, MANIFEST_SIG_FNAME).ok
              /\ manifest_it.contents % 4 = 0
           THEN "register" ELSE "panic"
  /\ UNCHANGED <<inputs, k, params, mediator, parser, attempts>>

RegisterMediator ==
  /\ pc = "register"
  /\ mediator' = IF build.external THEN "external" ELSE "default"
  /\ pc' = "probe"
  /\ UNCHANGED <<inputs, k, params, parser, attempts>>

\* The default mediator parses; an external one parses, or fails before.
Probe ==
  /\ pc = "probe"
  /\ pc' = "manifest_init"
  /\ UNCHANGED <<inputs, k, params, mediator, parser, attempts>>

\* A probe that fails is repeated with the default mediator, on the same
\* manifest_raw (external: whether and when the other mediator fails).
ProbeFails ==
  /\ mediator = "external" /\ pc \in {"probe", "parsed"}
  /\ mediator' = "default" /\ pc' = "probe"
  /\ UNCHANGED <<inputs, k, params, parser, attempts>>

\* An external mediator accepts what it could parse.  The default one
\* ignores what manifest_init returned.
ProbeSucceeds ==
  /\ pc = "parsed"
  /\ mediator = "external" => ret = "SUCCESS"
  /\ pc' = "booted"
  /\ UNCHANGED <<inputs, k, params, mediator, parser, attempts>>

Done == pc \in {"booted", "panic"} /\ UNCHANGED vars

Next ==
  \/ GetParams \/ FindManifest \/ RegisterMediator
  \/ Probe \/ ProbeFails \/ ProbeSucceeds
  \/ manifest_init \/ ParseHeader \/ CheckReserved \/ NextVm
  \/ parse_vm \/ FindLayout \/ ParseLayout \/ FindRegions \/ parse_device_region_node
  \/ Done

Spec == Init /\ [][Next]_vars

-----------------------------------------------------------------------------
(* What a manifest says, defined without the parser's readers.             *)

Number(s) == MapThenSumSet(LAMBDA n : s[n] * BYTE^(Len(s) - n), DOMAIN s)
Cells(s) == [n \in 1..(Len(s) \div 4) |-> Number(SubSeq(s, 4 * n - 3, 4 * n))]
First(s, n) == SubSeq(s, 1, Min({n, Len(s)}))
Value(nd, p) == IF HasProperty(nd, p) THEN nd.props[p] ELSE << >>

\* The strings of a list, each with the zero byte that ends it.
Strings(s) ==
  LET ends == Positions(s, LAMBDA n : s[n] = NUL \/ n = Len(s))
  IN [m \in DOMAIN ends |-> SubSeq(s, IF m = 1 THEN 1 ELSE ends[m - 1] + 1, ends[m])]

IsString(s) == s # << >> /\ \A n \in DOMAIN s : s[n] = NUL <=> n = Len(s)

\* Three dashes at least, and something behind the third.
IsUuid(s) ==
  LET dash == {n \in DOMAIN s : s[n] = DASH}
  IN /\ Len(s) = UUID_STR_SIZE + 1 /\ NUL \notin ToSet(First(s, UUID_STR_SIZE))
     /\ \E n \in dash : n < UUID_STR_SIZE /\ Cardinality({m \in dash : m < n}) = 2

Hex(t) == MapThenSumSet(LAMBDA n : (t[n] - Digit(0)) * RADIX^(Len(t) - n), DOMAIN t)

\* Three numbers, and the digits behind the third dash in pairs.
UuidOf(s) ==
  LET dash == Positions(s, LAMBDA n : s[n] = DASH)
      digits == SelectSeq(SubSeq(s, dash[3] + 1, UUID_STR_SIZE), LAMBDA c : c # DASH)
  IN [time |-> [n \in 1..3 |-> Hex(SubSeq(s, IF n = 1 THEN 1 ELSE dash[n - 1] + 1, dash[n] - 1))],
      clockSeqAndNode |-> [n \in 1..(Len(digits) \div 2) |-> Hex(SubSeq(digits, 2 * n - 1, 2 * n))]]

IsNumber(s, max) == Len(s) \in {4, 8} /\ Number(s) <= max

Limit(kind) ==
  CASE kind \in {"uint16"} -> UINT16_MAX
    [] kind \in {"uint32", "optional_uint32", "attributes"} -> UINT32_MAX
    [] OTHER -> UINT64_MAX

Required == {"string", "uint64", "uint32", "uint16", "attributes", "cpus"}

WellFormed(f, nd) ==
  LET s == Value(nd, f.prop)
      cells == Len(s) \div 4
  IN IF ~HasProperty(nd, f.prop) THEN f.kind \notin Required
     ELSE CASE f.kind = "uuid" -> IsUuid(s)
            [] f.kind \in {"string", "optional_string"} -> IsString(s) /\ Len(s) <= STRING_MAX_SIZE
            [] f.kind = "char_arr" -> TRUE
            [] f.kind = "bool" -> s = << >>
            [] f.kind \in {"cpus", "smcs", "streams"} -> Len(s) % 4 = 0
            [] f.kind = "interrupts" ->
                 /\ Len(s) % 4 = 0
                 /\ cells % 2 = 0 \/ cells > 2 * SP_MAX_INTERRUPTS_PER_DEVICE
            [] f.kind = "secservs" -> \A t \in ToSet(First(Strings(s), MAX_SECSERVS)) : IsUuid(t)
            [] OTHER -> IsNumber(s, Limit(f.kind))

Meaning(f, nd) ==
  LET s == Value(nd, f.prop)
      c == Cells(s)
  IN CASE f.kind = "uuid" -> IF s = << >> THEN NoUuid ELSE UuidOf(s)
       [] f.kind \in {"string", "optional_string"} -> IF s = << >> THEN <<NUL>> ELSE s
       [] f.kind = "char_arr" -> s
       [] f.kind = "bool" -> HasProperty(nd, f.prop)
       [] f.kind = "cpus" -> First(c, MAX_CPUS)
       [] f.kind = "smcs" -> First(c, MAX_SMCS)
       [] f.kind = "streams" -> First(c, SP_MAX_STREAMS_PER_DEVICE)
       [] f.kind = "interrupts" ->
            [n \in 1..Min({SP_MAX_INTERRUPTS_PER_DEVICE, Len(c) \div 2}) |-> <<c[2 * n - 1], c[2 * n]>>]
       [] f.kind = "secservs" ->
            LET t == First(Strings(s), MAX_SECSERVS) IN [n \in DOMAIN t |-> UuidOf(t[n])]
       [] f.kind = "attributes" -> (Number(s) % 8) + MM_MODE_D
       [] OTHER -> IF HasProperty(nd, f.prop) THEN Number(s) ELSE f.default

\* The child with exactly that name, and the VMs numbered without a gap.
Child(nd, name) == fdt_find_node(nd, SubSeq(name, 1, Len(name) - 1))
VmNode(n) == Child(hyp_node, generate_vm_node_name(PG_VM_ID_OFFSET + n))
Consecutive == Min({n \in 0..(build.max_vms + 1) : n = build.max_vms + 1 \/ VmNode(n) = NoNode})

\* A child whose name begins a longer name is also found under that one.
Mistakable(nd, name) ==
  \E n \in DOMAIN nd.kids : Len(nd.kids[n].name) < Len(name) - 1 /\ string_eq(name, nd.kids[n].name)
Ambiguous ==
  \/ \E n \in 0..(build.max_vms + 1) : Mistakable(hyp_node, generate_vm_node_name(n))
  \/ \E n \in 0..build.max_vms : Mistakable(VmNode(n), LAYOUT) \/ Mistakable(VmNode(n), REGIONS)

AllWellFormed(fields, nd) == \A f \in ToSet(Program(fields)) : WellFormed(f, nd)

VmWellFormed(nd) ==
  LET layout == Child(nd, LAYOUT)
      devs == Child(nd, REGIONS)
  IN /\ AllWellFormed(VmFields, nd)
     /\ layout # NoNode /\ AllWellFormed(LayoutFields, layout)
     /\ devs # NoNode => devs.kids # << >> /\ \A r \in ToSet(devs.kids) : AllWellFormed(RegionFields, r)

ManifestWellFormed ==
  /\ Valid /\ hyp_node # NoNode /\ fdt_is_compatible(hyp_node)
  /\ AllWellFormed(HeaderFields, hyp_node)
  /\ Child(hyp_node, generate_vm_node_name(0)) = NoNode
  /\ Consecutive \in 1..build.max_vms
  /\ \A n \in 0..(Consecutive - 1) : VmWellFormed(VmNode(n))

-----------------------------------------------------------------------------
(* Properties.                                                             *)

\* A second parse appends to the whitelists of the first; and a UUID is
\* only read as written when the byte after the pair is no digit.
Appended(f) == attempts > 1 /\ f.kind \in {"smcs", "secservs"}
Garbled(f) == junk \in Digit(0)..Digit(RADIX - 1) /\ f.kind \in {"uuid", "secservs"}

AsWritten(fields, nd, have) ==
  \A f \in ToSet(Program(fields)) :
    have[f.prop] = Meaning(f, nd) \/ Appended(f) \/ Garbled(f)

RegionsAsWritten(devs, have) ==
  /\ Len(have) = Len(devs.kids)
  /\ \A n \in DOMAIN have : AsWritten(RegionFields, devs.kids[n], have[n])

VmAsWritten(n) ==
  LET vm == manifest.vm[n]
  IN /\ AsWritten(VmFields, VmNode(n), vm)
     /\ AsWritten(LayoutFields, Child(VmNode(n), LAYOUT), vm)
     /\ RegionsAsWritten(Child(VmNode(n), REGIONS), vm["dev_regions"])

\* Every VM the boot goes on with is described exactly by its own node of
\* the manifest: each number, list, string and device region comes from the
\* property it is named after, in order and cut only at the array's size.
\* Only the last VM may be half read, when parse_vm failed on it, because
\* vm_count is advanced before parse_vm is called.
VmsAsWritten ==
  pc = "booted" /\ ~Ambiguous =>
    /\ \A n \in 0..(manifest.vm_count - 1) :
         ret \in {"SUCCESS", "TOO_MANY_VMS"} \/ n < manifest.vm_count - 1 => VmAsWritten(n)
    /\ ret = "SUCCESS" =>
         manifest.vm_count = Consecutive /\ AsWritten(HeaderFields, hyp_node, manifest.header)

\* manifest_init succeeds exactly on the manifests that are well formed: no
\* malformed, overlong or overflowing property of any VM, layout or region
\* is taken for a valid one, and no valid manifest is refused.  What it
\* refuses is reported by its error code and does not end the boot in
\* manifest_strerror, with one exception: that the memory layout is missing
\* has no text there.
AcceptsWellFormed ==
  /\ pc \in {"parsed", "booted", "panic"} /\ ret # "none" /\ ~Ambiguous =>
       (ret = "SUCCESS" <=> ManifestWellFormed)
  /\ pc = "panic" /\ ret # "none" => ret = "NO_MEMORY_LAYOUT"


\* No CPU of the board's tree is lost: when the boot goes on, the ids are
\* those of all entries of all CPU nodes, in order.
CpusComplete ==
  LET cpus == fdt_find_node(image.tree, CPUS)
      wide == HasProperty(cpus, "#address-cells") => cpus.props["#address-cells"] = <<0, 0, 0, 2>>
      entry == IF wide THEN 8 ELSE 4
      all == FlattenSeq([n \in DOMAIN cpus.kids |->
               IF Value(cpus.kids[n], "device_type") = CPU THEN Value(cpus.kids[n], "reg") ELSE << >>])
  IN pc \notin {"params", "panic"} =>
       params.cpu_ids = [n \in 1..(Len(all) \div entry) |->
                           Number(SubSeq(all, entry * (n - 1) + 1, entry * n))]

\* The manifest is the first file of its name before the trailer, whatever
\* the parity of the names and sizes of the files before it.
ManifestFound ==
  LET files == image.files
      named == {n \in DOMAIN files : files[n].name = MANIFEST_FNAME}
      ends == {n \in DOMAIN files : files[n].name = TRAILER} \cup {Len(files) + 1}
  IN image.intact /\ pc \notin {"params", "panic"} =>
       IF named # {} /\ Min(named) < Min(ends)
       THEN /\ manifest_it.ok
            /\ files[Min(named)].contents =
                 SubSeq(image.cpio, manifest_it.contents + 1, manifest_it.contents + manifest_it.size)
       ELSE ~manifest_it.ok

\* What the loader reads before the manifest is complete: the CPUs of the
\* board (fdt_find_cpus) and the manifest's place in the archive (cpio).
BootParamsRead == CpusComplete /\ ManifestFound
=============================================================================
