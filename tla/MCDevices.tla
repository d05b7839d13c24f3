----------------------------- MODULE MCDevices -----------------------------
EXTENDS Devices

Begin(name)   == [type |-> "FDT_BEGIN_NODE", name |-> name, value |-> <<>>]
EndN          == [type |-> "FDT_END_NODE", name |-> "", value |-> <<>>]
PropT(n, v)   == [type |-> "FDT_PROP", name |-> n, value |-> v]
Other(type)   == [type |-> type, name |-> "", value |-> <<>>]
Node(n, body) == <<Begin(n)>> \o body \o <<EndN>>

Cells(a, s)   == <<PropT("#address-cells", <<a>>), PropT("#size-cells", <<s>>)>>
Tree(body)    == Node("", body) \o <<Other("FDT_END")>>
Reserved(body) == Tree(Node("reserved-memory", body))

(* Every structure block of a few tokens. *)
Short == UNION {[1..n -> {Begin("a"), EndN, PropT("p", <<1>>), Other("FDT_NOP"),
                          Other("FDT_END"), Other("unknown")}] : n \in 0..5}

(* Trees with and without a /reserved-memory node, with names that are     *)
(* taken, with one cell, and with cells that the kernel cannot handle.     *)
Reservations ==
    {Tree(<<>>), Reserved(<<>>), Reserved(Cells(2, 2)), Reserved(Cells(1, 1)),
     Reserved(Cells(3, 1)),
     Reserved(Cells(2, 2) \o Node(BlockName(0), <<>>) \o Node(BlockName(2), <<>>))}

(* Trees with devices, nested and side by side. *)
Uart(reg, strings) == Node("uart", <<PropT("compatible", strings), PropT("reg", reg)>>)

DeviceTrees ==
    {Tree(Cells(1, 1) \o Node("soc", Cells(1, 1) \o Uart(<<1, 2>>, <<1, 2>>)
                                  \o Uart(<<2, 1>>, <<1>>)) \o Uart(<<3, 3>>, <<2, 1>>)),
     Tree(Cells(3, 1) \o Uart(<<1, 2, 1, 1>>, <<1>>)),
     Tree(Uart(<<1, 2>>, <<1>>)
          \o Node("chosen", <<PropT("q", <<1>>), PropT("rng-seed", <<1, 2>>)>>)),
     Tree(Node("a", Node("b", <<>>) \o Node("c", <<PropT("compatible", <<2>>)>>))
          \o Node("d", Node("chosen", <<>>)))}

Blob(tokens, rsvmap) == [magic |-> TRUE, version |-> 17, tokens |-> tokens, rsvmap |-> rsvmap]
Rsv == <<[address |-> 1, size |-> 2], [address |-> 9, size |-> 1]>>

(* A /reserved-memory node with one cell for addresses and one for sizes. *)
OneCell == {Blob(Reserved(Cells(1, 1)), Rsv)}

(* A root with a "compatible" property. *)
CompatibleRoot == {Blob(Tree(<<PropT("compatible", <<1>>)>> \o Uart(<<1, 2>>, <<1>>)), <<>>)}

AllBlobs == {Blob(t, <<>>) : t \in Short \cup DeviceTrees}
            \cup {Blob(t, Rsv) : t \in Reservations}
            \cup {[Blob(Tree(<<>>), <<>>) EXCEPT !.magic = FALSE],
                  [Blob(Tree(<<>>), <<>>) EXCEPT !.version = 18]}

(* The initializers, as the linker may lay them out. *)
Ini(func, priority) == [func |-> func, priority |-> priority]
Layouts == {<<Ini("root_device", 10), Ini("ns16550a", 10), Ini("other", 10)>>,
            <<Ini("other", 20), Ini("ns16550a", 20), Ini("root_device", 10)>>,
            <<Ini("ns16550a", 20), Ini("other", 10), Ini("root_device", 15),
              Ini("another", 10)>>}
=============================================================================
