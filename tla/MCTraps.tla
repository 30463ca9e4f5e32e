------------------------------- MODULE MCTraps -------------------------------
(***************************************************************************)
(* CPU 0 in the primary, CPUs 1 and 2 in VM 2.  A build with two sanctuary *)
(* UARTs, an emulated i.MX UART, anatop mapped on demand, an iomux without *)
(* emulation and the clock controller passed through; one that passes all  *)
(* through, one that maps all on demand.  Scenes take one trap of any kind *)
(* or several UART and passthrough accesses of several CPUs.               *)
(***************************************************************************)
EXTENDS Traps

MCCpus == 0 .. 2
MCVmOf == [c \in MCCpus |-> IF c = 0 THEN 1 ELSE 2]
Virtual == <<[kind |-> "sanct", devs |-> 2, dirmap |-> FALSE], [kind |-> "imx", devs |-> 1, dirmap |-> FALSE],
             [kind |-> "anatop", devs |-> 0, dirmap |-> TRUE], [kind |-> "iomux", devs |-> 1, dirmap |-> FALSE],
             [kind |-> "clock", devs |-> 0, dirmap |-> FALSE]>>
Passed == [k \in 1 .. 4 |-> [kind |-> <<"imx", "anatop", "iomux", "clock">>[k], devs |-> 0, dirmap |-> FALSE]]
Direct == [k \in 1 .. 4 |-> [kind |-> <<"imx", "anatop", "iomux", "clock">>[k], devs |-> 0, dirmap |-> TRUE]]
MCBuilds == {Virtual, Passed, Direct}
MCBase == [sanct |-> 0, imx |-> 8, anatop |-> 12, iomux |-> 16, clock |-> 20]
MCVirtio == {24, 25}
MCVGic == [a \in {28, 29} |-> a = 28]
MCRam == {32}

Plain == [op |-> "wfx", ipa |-> 36, r |-> "x", isv |-> TRUE, sz |-> "w", fnv |-> FALSE, val |-> 1,
          e |-> <<>>, read |-> FALSE, k |-> 0, irm |-> FALSE]
Calls == {[Plain EXCEPT !.op = o] : o \in {"wfx", "hvc", "smc", "other"}}
Fetches == {[Plain EXCEPT !.op = "fetch", !.ipa = a] : a \in {32, 36}}
Abort(o, a, s, r, v, f) ==
  [Plain EXCEPT !.op = o, !.ipa = a, !.sz = s, !.r = r, !.isv = v, !.fnv = f]
Aborts ==
  {Abort(o, a, s, r, TRUE, FALSE) : o \in {"ld", "st"}, a \in 0 .. 36, s \in {"b", "w", "d"}, r \in {"x", "y", "zr"}}
    \union {Abort(o, a, "w", "x", FALSE, f) : o \in {"ld", "st"}, a \in 0 .. 36, f \in BOOLEAN}
Encodings ==
  ({1, 2, 3} \X {0, 3} \X {0, 1, 4, 7, 9, 12, 14} \X (0 .. 15) \X (0 .. 7))
    \union ({2} \X {1} \X {0, 1} \X (0 .. 1) \X (0 .. 7))
Registers == {[Plain EXCEPT !.op = "sysreg", !.e = n, !.read = b] : n \in Encodings, b \in BOOLEAN}
Moves == {[Plain EXCEPT !.op = "sysreg", !.e = n, !.read = b, !.r = r, !.sz = "d"] :
            n \in {<<3, 0, 12, 12, 0>>, <<3, 0, 12, 12, 1>>, <<2, 0, 0, 0, 2>>, <<3, 0, 0, 1, 0>>, <<3, 0, 0, 2, 7>>}, b \in BOOLEAN, r \in {"x", "y", "zr"}}
Sgis == {[Plain EXCEPT !.op = "sysreg", !.e = ICC_SGI1R_EL1, !.k = n, !.irm = b] : n \in 0 .. 2, b \in BOOLEAN}
All == Calls \union Fetches \union Aborts \union Registers \union Moves \union Sgis

Put(a, v) == [Plain EXCEPT !.op = "st", !.ipa = a, !.val = v]
Sanct(a) == {Put(a + UTX, 1), Put(a + UTX, END), Put(a + UCR, 1)}
Imx == {Put(8 + URTX0, 1), Put(8 + URTX0, END)}
Cells == {Abort(o, 12, s, "x", TRUE, FALSE) : o \in {"ld", "st"}, s \in {"w", "d"}}
Scene(b, m, f, n) == [build |-> b, mt |-> m, menu |-> f, max |-> n]
MCScenes ==
  <<Scene(Virtual, TRUE, [c \in MCCpus |-> IF c < 2 THEN All ELSE {}], 1),
    Scene(Virtual, FALSE, [c \in MCCpus |-> Sgis], 1),
    Scene(Virtual, TRUE, [c \in MCCpus |-> IF c < 2 THEN Sanct(0) ELSE Sanct(4)], 4),
    Scene(Virtual, TRUE, [c \in MCCpus |-> IF c = 0 THEN Sanct(0) ELSE IF c = 1 THEN Imx ELSE {}], 4),
    Scene(Passed, TRUE, [c \in MCCpus |-> IF c = 0 THEN Aborts ELSE {}], 1),
    Scene(Passed, TRUE, [c \in MCCpus |-> IF c < 2 THEN Cells ELSE {}], 3),
    Scene(Direct, TRUE, [c \in MCCpus |-> IF c = 1 THEN Aborts ELSE {}], 1)>>
=============================================================================
