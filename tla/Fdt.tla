-------------------------------- MODULE Fdt --------------------------------
(***************************************************************************)
(* What the boot reads from: byte buffers behind memory iterators, strings *)
(* and UUIDs, the cpio archive, and device trees (manifest_util.c, fdt.c,  *)
(* fdt_handler.c, cpio.c, string.c, uuid.c).                               *)
(*                                                                         *)
(* A memory iterator is the sequence of the bytes it has left.  A byte is  *)
(* one of BYTE values, so that the widths of integers (4 and 8 bytes) and  *)
(* their overflow stay what they are with fewer values.  Of the characters *)
(* only NUL, the dash, the digits (RADIX of them) and a few letters are    *)
(* told apart.  A node of a tree has a name, properties (a function from   *)
(* names to byte sequences) and a sequence of children; libfdt, which      *)
(* walks the flattened form, is external.  After the value of a property   *)
(* comes a zero byte in every valid tree: padding, or the high byte of the *)
(* next token.  ByteAt reads it.                                           *)
(***************************************************************************)
EXTENDS Naturals, Sequences, FiniteSetsExt, SequencesExt

CONSTANTS
  BYTE,              \* number of values of a byte (256)
  RADIX,             \* base of VM names and of UUIDs (10 and 16)
  STRING_MAX_SIZE,   \* size of struct string
  UUID_STR_SIZE,     \* length of a UUID
  CHARARR_MAX,       \* longest string of a list of strings (128)
  CLOCK_SEQ          \* bytes of clockSeqAndNode (8)

NUL == 0
DASH == 1
Digit(n) == 2 + n
Letter(n) == 2 + RADIX + n
UINT16_MAX == BYTE^2 - 1
UINT32_MAX == BYTE^4 - 1
UINT64_MAX == BYTE^8 - 1

ByteAt(s, n) == IF n \in DOMAIN s THEN s[n] ELSE NUL
Drop(s, n) == SubSeq(s, n + 1, Len(s))
Positions(s, Test(_)) == SelectSeq([n \in DOMAIN s |-> n], Test)
BigEndian(s) == FoldLeft(LAMBDA v, b : v * BYTE + b, 0, s)

-----------------------------------------------------------------------------
(* Strings and UUIDs.                                                      *)

strnlen_s(s, strsz) == Min({strsz} \cup {n \in 0..strsz : ByteAt(s, n + 1) = NUL})

\* strncmp(a, b, n) == 0: equal up to n characters or a common end.
SameUpTo(a, b, n) ==
  \A m \in 1..n : (\A l \in 1..(m - 1) : ByteAt(a, l) # NUL) => ByteAt(a, m) = ByteAt(b, m)

string_eq(str, data) ==
  Len(data) <= STRING_MAX_SIZE /\ SameUpTo(str, data, Len(data))

string_init(data) ==
  CASE strnlen_s(data, Len(data)) # Len(data) - 1 \/ data = << >> -> "invalid"
    [] Len(data) > STRING_MAX_SIZE -> "long"
    [] OTHER -> "ok"

\* string_toul: an optional minus sign and the digits that follow.
string_toul(s) ==
  LET neg == ByteAt(s, 1) = DASH
      from == IF neg THEN Drop(s, 1) ELSE s
      digits == Min({Len(from)} \cup
                    {n \in 0..Len(from) : ByteAt(from, n + 1) \notin Digit(0)..Digit(RADIX - 1)})
      acc == FoldLeft(LAMBDA v, c : v * RADIX + (c - Digit(0)), 0, SubSeq(from, 1, digits))
  IN CASE acc > UINT64_MAX -> UINT64_MAX
       [] neg /\ acc > 0 -> BYTE^8 - acc
       [] OTHER -> acc

\* The pairs of characters from position p on, a dash before a pair skipped.
\* temp_str has room for a third character, junk, that is never written.
RECURSIVE ClockSeq(_, _, _, _)
ClockSeq(s, p, n, junk) ==
  LET from == IF ByteAt(s, p) = DASH THEN p + 1 ELSE p
      pair == <<ByteAt(s, from), ByteAt(s, from + 1)>>
  IN IF p > Len(s) \/ n = 0 THEN << >>
     ELSE <<string_toul(Append(pair, junk)) % BYTE>> \o ClockSeq(s, from + 2, n - 1, junk)

NoUuid == [time |-> <<0, 0, 0>>, clockSeqAndNode |-> << >>]

\* str is what lies at the pointer, size what the caller says of it.
uuid_from_str(str, size, junk) ==
  LET s == SubSeq(str, 1, size)
      dash == Positions(s, LAMBDA n : s[n] = DASH)
      begin(n) == IF n = 1 THEN 1 ELSE dash[n - 1] + 1
      part(n) == string_toul(SubSeq(s, begin(n), dash[n] - 1))
  IN IF \/ size # UUID_STR_SIZE
        \/ strnlen_s(str, UUID_STR_SIZE) # UUID_STR_SIZE
        \/ Len(dash) < 3
        \/ dash[3] = size
     THEN [ok |-> FALSE, uuid |-> NoUuid]
     ELSE [ok |-> TRUE,
           uuid |-> [time |-> <<part(1) % BYTE^4, part(2) % BYTE^2, part(3) % BYTE^2>>,
                     clockSeqAndNode |-> ClockSeq(s, dash[3] + 1, CLOCK_SEQ, junk)]]

-----------------------------------------------------------------------------
(* Device trees.                                                           *)

NoNode == [name |-> << >>, props |-> << >>, kids |-> << >>]

\* fdt_path_offset (external): the child of that name.
fdt_find_node(root, name) ==
  LET found == {n \in DOMAIN root.kids : root.kids[n].name = name}
  IN IF found = {} THEN NoNode ELSE root.kids[Min(found)]

HasProperty(node, p) == p \in DOMAIN node.props

\* fdt_node_check_compatible (external) for the one name that is asked for.
fdt_is_compatible(node) ==
  HasProperty(node, "compatible") /\ node.props["compatible"] = <<Letter(0), NUL>>

\* The child the name is compared equal to first.
fdt_find_child(node, name) ==
  LET found == {n \in DOMAIN node.kids : string_eq(name, node.kids[n].name)}
  IN IF found = {} THEN NoNode ELSE node.kids[Min(found)]

Parsed(ok, val, rest) == [ok |-> ok, val |-> val, rest |-> rest]

fdt_parse_number(data, size) ==
  IF size \in {4, 8} /\ size <= Len(data)
  THEN Parsed(TRUE, BigEndian(SubSeq(data, 1, size)), Drop(data, size))
  ELSE Parsed(FALSE, 0, data)

fdt_read_number(node, p) ==
  IF HasProperty(node, p) THEN fdt_parse_number(node.props[p], Len(node.props[p]))
  ELSE Parsed(FALSE, 0, << >>)

\* libfdt's fdt_address_cells and fdt_size_cells (external), times a cell.
CellBytes(node, p, legal, default) ==
  IF ~HasProperty(node, p) THEN [ok |-> TRUE, size |-> 4 * default]
  ELSE LET n == BigEndian(node.props[p]) IN [ok |-> n \in legal, size |-> 4 * n]

fdt_address_size(node) == CellBytes(node, "#address-cells", 1..4, 2)
fdt_size_size(node) == CellBytes(node, "#size-cells", 0..4, 1)

-----------------------------------------------------------------------------
(* The readers of manifest_util.c.  out is the value read, without meaning *)
(* when ret is an error.                                                   *)

Read(ret, out) == [ret |-> ret, out |-> out]

read_bool(node, p) ==
  IF HasProperty(node, p) /\ Len(node.props[p]) # 0
  THEN Read("MALFORMED_BOOLEAN", FALSE)
  ELSE Read("SUCCESS", HasProperty(node, p))

read_optional_char_arr(node, p) ==
  Read("SUCCESS", IF HasProperty(node, p) THEN node.props[p] ELSE << >>)

read_string(node, p) ==
  IF ~HasProperty(node, p) THEN Read("PROPERTY_NOT_FOUND", << >>)
  ELSE CASE string_init(node.props[p]) = "ok" -> Read("SUCCESS", node.props[p])
         [] string_init(node.props[p]) = "invalid" -> Read("MALFORMED_STRING", << >>)
         [] string_init(node.props[p]) = "long" -> Read("STRING_TOO_LONG", << >>)

OptionalAny(read, default) == IF read.ret # "SUCCESS" THEN Read("SUCCESS", default) ELSE read

Optional(read, default) ==
  IF read.ret = "PROPERTY_NOT_FOUND" THEN Read("SUCCESS", default) ELSE read

read_optional_string(node, p) == Optional(read_string(node, p), <<NUL>>)

read_uint64(node, p) ==
  IF ~HasProperty(node, p) THEN Read("PROPERTY_NOT_FOUND", 0)
  ELSE LET number == fdt_parse_number(node.props[p], Len(node.props[p]))
       IN Read(IF number.ok THEN "SUCCESS" ELSE "MALFORMED_INTEGER", number.val)

Narrow(read, max) ==
  IF read.ret = "SUCCESS" /\ read.out > max THEN Read("INTEGER_OVERFLOW", 0) ELSE read

read_uint32(node, p) == Narrow(read_uint64(node, p), UINT32_MAX)
read_uint16(node, p) == Narrow(read_uint64(node, p), UINT16_MAX)
read_optional_uint64(node, p, default) == Optional(read_uint64(node, p), default)
read_optional_uint32(node, p, default) == Optional(read_uint32(node, p), default)

ListKept(node, p, old) ==
  CASE ~HasProperty(node, p) -> Read("PROPERTY_NOT_FOUND", old)
    [] HasProperty(node, p) /\ Len(node.props[p]) % 4 # 0 -> Read("MALFORMED_INTEGER_LIST", old)
    [] OTHER -> Read("SUCCESS", node.props[p])

\* The iterator is emptied when the property is missing, and stays what it
\* was (old) when it is malformed.
read_uint32list(node, p, old) ==
  CASE ~HasProperty(node, p) -> Read("PROPERTY_NOT_FOUND", << >>)
    [] HasProperty(node, p) /\ Len(node.props[p]) % 4 # 0 -> Read("MALFORMED_INTEGER_LIST", old)
    [] OTHER -> Read("SUCCESS", node.props[p])

read_optional_uint32list(node, p, old) ==
  LET read == read_uint32list(node, p, old)
  IN IF read.ret = "PROPERTY_NOT_FOUND" THEN Read("SUCCESS", read.out) ELSE read

\* Up to max numbers from the iterator (uint32list_get_next), and the rest.
uint32list_take(list, max) ==
  LET n == Min({max, Len(list) \div 4})
  IN [out |-> [m \in 1..n |-> BigEndian(SubSeq(list, 4 * m - 3, 4 * m))],
      rest |-> Drop(list, 4 * n)]

chararrlist_get_next(list) ==
  LET size == strnlen_s(list, CHARARR_MAX)
  IN [ok |-> size + 1 <= Len(list), str |-> list, size |-> size, rest |-> Drop(list, size + 1)]

read_optional_uuid(node, p, junk) ==
  IF ~HasProperty(node, p) THEN Read("SUCCESS", NoUuid)
  ELSE LET data == node.props[p]
           size == IF data = << >> THEN UINT64_MAX ELSE Len(data) - 1
           uuid == uuid_from_str(data, size, junk)
       IN Read(IF uuid.ok THEN "SUCCESS" ELSE "MALFORMED_UUID", uuid.uuid)
=============================================================================
