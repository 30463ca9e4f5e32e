----------------------------- MODULE MCManifest -----------------------------
(***************************************************************************)
(* Boots for Manifest: a base image, its variants in one property of one   *)
(* node, and images that vary the VMs, the board's tree and the archive.   *)
(***************************************************************************)
EXTENDS Manifest

Node(name, props, kids) == [name |-> name, props |-> props, kids |-> kids]
Word(n) == <<0, 0, 0, n>>
Text(n) == <<Letter(n), NUL>>
Uuid == <<Digit(1), DASH, Digit(2), DASH, Digit(3), DASH, Digit(1), Digit(2), DASH, Digit(2), Digit(1)>>
NotUuid == [n \in 1..11 |-> Digit(1)]

\* Every shape a property can have for one of the readers.
Shapes ==
  {<< >>, <<NUL>>, <<Letter(0)>>, Text(0), <<NUL, Letter(0), NUL>>,
   <<Letter(0), Letter(0), Letter(0), Letter(0), NUL>>,
   Word(3), Word(1) \o Word(1), Word(0) \o Word(9), <<0, 1, 0, 0>>,
   Word(1) \o Word(2) \o Word(3), Word(1) \o Word(2) \o Word(3) \o Word(4),
   Uuid, Uuid \o <<NUL>>, NotUuid \o <<NUL>>, Uuid \o <<NUL>> \o NotUuid \o <<NUL>>,
   Uuid \o <<NUL>> \o Uuid \o <<NUL>> \o Uuid \o <<NUL>>}

With(nd, p, v) == [nd EXCEPT !.props = (p :> v) @@ @]
Without(nd, p) == [nd EXCEPT !.props = [q \in DOMAIN @ \ {p} |-> @[q]]]
Varied(nd, p) == {Without(nd, p)} \cup {With(nd, p, v) : v \in Shapes}
Props(fields) == {fields[n].prop : n \in DOMAIN fields}

Layout == Node(<<Letter(2)>>, "kernel" :> Word(4), << >>)
Region(n) ==
  Node(<<Letter(0)>>,
       ("base-address" :> Word(n)) @@ ("pages-count" :> Word(1)) @@ ("attributes" :> Word(9)) @@
       ("interrupts" :> Word(5) \o Word(n)) @@ ("stream-ids" :> Word(n)), << >>)
RegionsNode(kids) == Node(<<Letter(3)>>, << >>, kids)

VmName(n) == SubSeq(generate_vm_node_name(n), 1, count_digits(n) + 1)
Vm(n, kids) ==
  Node(VmName(n),
       ("debug_name" :> Text(0)) @@ ("vcpu_count" :> Word(n)) @@ ("cpus" :> Word(n)) @@
       ("smc_whitelist" :> Word(n)) @@ ("security_services" :> Uuid \o <<NUL>>) @@
       ("hash_algo_id" :> Word(1)) @@ ("hash_size" :> Word(1)), kids)

Hyp(props, kids) == Node(<< >>, << >>, <<Node(<<Letter(0)>>, props, kids)>>)
Compatible == "compatible" :> Text(0)
Tree(kids) == Hyp(Compatible, kids)
Both == <<Layout, RegionsNode(<<Region(1), Region(2)>>)>>

\* More interrupts than are read, then no stream ids: the interrupts leave
\* the shared iterator half read.
HalfRead(r) ==
  With(Without(r, "stream-ids"), "interrupts", Word(1) \o Word(2) \o Word(3) \o Word(4))

\* Two whitelisted calls: as many as there is room for.
FullVm == With(Vm(1, Both), "smc_whitelist", Word(1) \o Word(2))

PropertyTrees ==
  {Hyp(h.props, <<Vm(1, <<Layout>>)>>) :
      h \in UNION {Varied(Node(<< >>, Compatible, << >>), p) : p \in Props(HeaderFields)}}
    \cup {Tree(<<v>>) : v \in UNION {Varied(Vm(1, <<Layout>>), p) : p \in Props(VmFields)}}
    \cup {Tree(<<Vm(1, <<l>>)>>) : l \in UNION {Varied(Layout, p) : p \in Props(LayoutFields)}}
    \cup {Tree(<<Vm(1, <<Layout, RegionsNode(<<r, HalfRead(Region(2))>>)>>)>>) :
            r \in UNION {Varied(Region(1), p) : p \in Props(RegionFields)}}

Vms(S) == LET s == SetToSortSeq(S, <) IN [n \in DOMAIN s |-> Vm(s[n], <<Layout>>)]

ShapeTrees ==
  {Tree(Vms(S)) : S \in SUBSET (0..4)}
    \cup {Tree(<<Vm(1, kids), Vm(2, <<Layout>>)>>) :
            kids \in {<< >>, Both, <<RegionsNode(<<Region(1)>>), Layout>>,
                      <<RegionsNode(<<Region(1)>>)>>, <<Layout, RegionsNode(<< >>)>>,
                      <<Layout, RegionsNode(<<Region(1), Region(2), Region(3)>>)>>}}
    \cup {Tree(<<Vm(2, <<Layout>>), Vm(1, Both)>>), Hyp(<< >>, Vms({1})),
          Tree(<<Vm(1, <<Layout>>), Without(Vm(2, <<Layout>>), "cpus")>>),
          Node(<< >>, << >>, << >>)}

-----------------------------------------------------------------------------
(* Archives.                                                               *)

Blob == <<1, 2>>
File(name, contents) == [name |-> name, contents |-> contents]
Halves(n) == <<n % BYTE, n \div BYTE>>
Padded(s) == IF Len(s) % 2 = 0 THEN s ELSE Append(s, 9)
Entry(f) ==
  Halves(CPIO_MAGIC) \o <<0, 0>> \o Halves(Len(f.name)) \o <<0, 0>> \o Halves(Len(f.contents))
    \o Padded(f.name) \o Padded(f.contents)
Encode(files) == FlattenSeq([n \in DOMAIN files |-> Entry(files[n])])

ManifestFile == File(MANIFEST_FNAME, Blob)
Other(name, n) == File(name, [m \in 1..n |-> 3])
EndMark == File(TRAILER, << >>)
Signature == File(MANIFEST_SIG_FNAME, <<8>>)

FileLists ==
  {<<ManifestFile, EndMark>>, <<ManifestFile>>, << >>, <<EndMark, ManifestFile>>,
   <<File(MANIFEST_FNAME, <<1>>), ManifestFile>>, <<Other(Text(0), 4)>>}
    \cup {<<Other(name, n), ManifestFile, EndMark>> :
            name \in {<<NUL>>, Text(0), <<Letter(2), Letter(0), NUL>>}, n \in 0..4}

Archive(files) == [files |-> files, intact |-> TRUE, cpio |-> Encode(files)]
Good == Archive(<<ManifestFile, Signature, EndMark>>)
Broken ==
  {[Good EXCEPT !.intact = FALSE, !.cpio = c] :
     c \in {SubSeq(Good.cpio, 1, n) : n \in {9, 11, 12, 13}}
           \cup {[Good.cpio EXCEPT ![1] = 0], [Good.cpio EXCEPT ![5] = 0], [Good.cpio EXCEPT ![12] = 5]}}

-----------------------------------------------------------------------------
(* Board trees.                                                            *)

Wide(n) == Word(0) \o Word(n)
Typed(type, reg) == Node(<<Letter(1)>>, ("device_type" :> type) @@ ("reg" :> reg), << >>)
Chosen == Node(CHOSEN, ("linux,initrd-start" :> Word(1)) @@ ("linux,initrd-end" :> Wide(9)), << >>)
CpusNode(props, kids) == Node(CPUS, props, kids)
OneCpu == CpusNode(<< >>, <<Typed(CPU, Wide(1))>>)
Memory == Typed(MEMORY, Wide(1) \o Word(2))
Board(kids) == Node(<< >>, << >>, kids)
BaseBoard == Board(<<Chosen, OneCpu, Memory>>)

CpuNodes ==
  {CpusNode(<< >>, kids) :
     kids \in {<< >>, <<Typed(CPU, Wide(1)), Typed(MEMORY, Wide(2)), Typed(CPU, Wide(3))>>,
               <<Typed(CPU, Wide(1) \o Wide(2))>>, <<Typed(CPU, Wide(1) \o Wide(2)), Typed(CPU, Wide(3))>>,
               <<Typed(CPU, Word(1))>>, <<Typed(CPU, << >>), Typed(CPU, Wide(1) \o <<1>>)>>,
               <<Without(Typed(CPU, Wide(1)), "reg"), Without(Typed(CPU, Wide(1)), "device_type")>>}}
    \cup {CpusNode("#address-cells" :> Word(n), <<Typed(CPU, Word(2) \o Word(3))>>) : n \in 0..5}

Boards ==
  {Board(<<Chosen, c, Memory>>) : c \in CpuNodes}
    \cup {Board(<<c, OneCpu, Memory>>) :
            c \in UNION {Varied(Chosen, p) : p \in {"linux,initrd-start", "linux,initrd-end"}}}
    \cup {Board(<<Chosen, OneCpu, Typed(type, reg), Memory>>) :
            type \in {MEMORY, DEVICE_MEMORY},
            reg \in {Wide(3) \o Word(1), Wide(3) \o Word(1) \o Wide(5) \o Word(1), Wide(3), << >>,
                     [n \in 1..8 |-> 9] \o Word(1)}}
    \cup {With(BaseBoard, p, Word(n)) : p \in {"#address-cells", "#size-cells"}, n \in 0..5}
    \cup {Board(<<Chosen>>), Board(<<OneCpu>>), Board(<< >>)}

-----------------------------------------------------------------------------
(* Boots.                                                                  *)

Image(board, archive, manifestTree) ==
  [tree |-> board, cpio |-> archive.cpio, files |-> archive.files, intact |-> archive.intact,
   blob |-> Blob, manifest |-> manifestTree]
Build(max_vms, measured, logs, external) ==
  [max_vms |-> max_vms, measured |-> measured, logs |-> logs, external |-> external]
Boot(im, b, j) == [image |-> im, build |-> b, junk |-> j]

MCBoots ==
  {Boot(Image(BaseBoard, Good, t), Build(1, TRUE, TRUE, FALSE), NUL) : t \in PropertyTrees}
    \cup {Boot(Image(BaseBoard, Archive(<<ManifestFile, EndMark>>), Tree(Vms({1}))),
               Build(1, TRUE, TRUE, FALSE), NUL)}
    \cup {Boot(Image(BaseBoard, Good, t), b, NUL) :
            t \in ShapeTrees, b \in {Build(2, FALSE, TRUE, FALSE), Build(3, FALSE, FALSE, FALSE)}}
    \cup {Boot(Image(BaseBoard, Good, Tree(<<FullVm>>)), Build(1, FALSE, TRUE, e), j) :
            e \in BOOLEAN, j \in {NUL, Letter(0), Digit(1)}}
    \cup {Boot(Image(BaseBoard, a, Tree(Vms({1}))), Build(1, FALSE, TRUE, FALSE), NUL) :
            a \in Broken \cup {Archive(f) : f \in FileLists}}
    \cup {Boot(Image(b, Good, Tree(Vms({1}))), Build(1, FALSE, TRUE, FALSE), NUL) : b \in Boards}
=============================================================================
