----------------------------- MODULE Devicetree -----------------------------
(***************************************************************************)
(* devicetree.c: the devicetree that the bootloader passes is parsed into  *)
(* a tree on the kernel heap, the memory reservations and the kernel       *)
(* itself are added to its /reserved-memory node, and on any error all of  *)
(* it is freed.                                                            *)
(*                                                                         *)
(* The structure block is a sequence of tokens; the tree is one record T:  *)
(*    parent, name         of every node;                                  *)
(*    children, props      the lists of every node (the list operations    *)
(*                         are those of module ListHead).                  *)
(* Nodes and properties are numbered in the order they are allocated, and  *)
(* live are the objects on the heap.  A property's value is a sequence of  *)
(* 32-bit words, here below Word.  Any allocation may fail.                *)
(***************************************************************************)
EXTENDS Integers, Sequences, SequencesExt, FiniteSets, TLC

CONSTANTS Blobs,        \* the devicetrees: [magic, version, tokens, rsvmap]
          KernelStart,  \* where the kernel is in physical memory
          KernelEnd,
          Word,         \* 2^32
          NULL

ASSUME DevicetreeConstants ==
    /\ KernelStart \in Nat /\ KernelEnd \in Nat /\ KernelStart < KernelEnd
    /\ Word \in Nat \ {0, 1} /\ KernelEnd < Word * Word
    /\ NULL \notin Nat
    /\ \A b \in Blobs : b.tokens \in Seq(Range(b.tokens))

VARIABLES blob,         \* the devicetree that is parsed
          pc,           \* where the parser is
          here,         \* the tokens, and then the reservations, that it has read
          T,            \* the tree
          node,         \* current_node, reserved_memory, or the node to be freed
          finished,     \* finished_root_node
          gotEnd,       \* got_end_token
          num,          \* reservation_num
          live,         \* the objects on the heap
          fresh,        \* the number of the next object
          oom,          \* an allocation has failed
          ret,          \* the result: "none" yet, a "tree" or "nullptr"
          fate          \* "ok", "panic", or "undefined" behaviour

dtvars == <<blob, pc, here, T, node, finished, gotEnd, num, live, fresh, oom, ret, fate>>

EmptyTree == [parent |-> <<>>, name |-> <<>>, children |-> <<>>, props |-> <<>>]

Nodes == DOMAIN T.parent

(* The objects that a node and a property are made of. *)
NodeObjects(n) == {<<"node", n>>, <<"name", n>>}
PropObjects(p) == {<<"prop", p>>, <<"name", p>>, <<"value", p>>}
-----------------------------------------------------------------------------
(* Lookups.                                                                *)

(* The first element of a list that is in S, or NULL. *)
FirstIn(s, S) ==
    IF \E i \in DOMAIN s : s[i] \in S
    THEN s[CHOOSE i \in DOMAIN s : s[i] \in S /\ \A j \in 1..(i - 1) : s[j] \notin S]
    ELSE NULL

devicetree_child(t, parent, name) ==
    FirstIn(t.children[parent], {n \in DOMAIN t.name : t.name[n] = name})

devicetree_prop(t, n, name) ==
    FirstIn(t.props[n], {p \in Range(t.props[n]) : p.name = name})

(* <<#address-cells, #size-cells>>, or NULL. *)
devicetree_address_size_cells(t, n) ==
    LET address == devicetree_prop(t, n, "#address-cells")
        size    == devicetree_prop(t, n, "#size-cells")
    IN  IF address = NULL \/ size = NULL THEN NULL
        ELSE IF Len(address.value) # 1 \/ Len(size.value) # 1 THEN NULL
        ELSE <<address.value[1], size.value[1]>>

(* A big-endian number of some words, and back. *)
NumberOf(words) == FoldLeft(LAMBDA x, w : x * Word + w, 0, words)

(* The i-th pair of address and size: the pair, NULL, or <<"assert">>.     *)
devicetree_prop_reg(t, n, prop, i) ==
    LET cells == devicetree_address_size_cells(t, t.parent[n])
        entry == cells[1] + cells[2]
        at    == entry * i
    IN  IF prop = NULL \/ t.parent[n] = NULL THEN NULL
        ELSE IF cells = NULL THEN NULL
        ELSE IF cells[1] \notin 1..2 \/ cells[2] \notin 1..2 THEN <<"assert">>
        ELSE IF Len(prop.value) % entry # 0 \/ at >= Len(prop.value) THEN NULL
        ELSE <<NumberOf(SubSeq(prop.value, at + 1, at + cells[1])),
               NumberOf(SubSeq(prop.value, at + cells[1] + 1, at + entry))>>

devicetree_reg(t, n, i) == devicetree_prop_reg(t, n, devicetree_prop(t, n, "reg"), i)
-----------------------------------------------------------------------------
(* Changes to the tree.                                                    *)

(* f with x for n. *)
With(f, n, x) == [m \in DOMAIN f \cup {n} |-> IF m = n THEN x ELSE f[m]]

(* AddNode that puts the node in front of its siblings. *)
AddNode_unshift(t, n, parent, name) ==
    [parent   |-> With(t.parent, n, parent),
     name     |-> With(t.name, n, name),
     children |-> With([m \in DOMAIN t.children |->
                           IF m = parent THEN <<n>> \o t.children[m] ELSE t.children[m]], n, <<>>),
     props    |-> With(t.props, n, <<>>)]

AddNode(t, n, parent, name) ==
    [parent   |-> With(t.parent, n, parent),
     name     |-> With(t.name, n, name),
     children |-> With([m \in DOMAIN t.children |->
                           IF m = parent THEN Append(t.children[m], n) ELSE t.children[m]], n, <<>>),
     props    |-> With(t.props, n, <<>>)]

AddProp(t, n, prop) == [t EXCEPT !.props[n] = Append(@, prop)]

RemoveNode(t, n) ==
    LET rest == DOMAIN t.parent \ {n}
    IN  [parent   |-> [m \in rest |-> t.parent[m]],
         name     |-> [m \in rest |-> t.name[m]],
         children |-> [m \in rest |-> RemoveFirst(t.children[m], n)],
         props    |-> [m \in rest |-> t.props[m]]]

Goto(l) == pc' = l
Panic   == /\ fate' = "panic"
           /\ UNCHANGED <<pc, here, T, node, finished, gotEnd, num, fresh, ret>>

Running(l) == fate = "ok" /\ pc = l

(* devicetree_free(n), whose assert allows the root only. *)
StartFree(n) ==
    IF n # NULL /\ T.parent[n] # NULL THEN Panic
    ELSE /\ Goto("free") /\ node' = n
         /\ UNCHANGED <<here, T, finished, gotEnd, num, fresh, ret, fate>>

(* An error path that forgets what it has allocated. *)
Undo_forgets(got) == {}

(* What the error paths free of what was allocated before the failure. *)
Undo(got) == got

(* One of the objects cannot be had: the others are freed, and the         *)
(* function that needs them fails.  Each path has one label, behind which  *)
(* all is freed that was had; its calls of free are one step here, on a    *)
(* set, so that an object that is forgotten shows, but not one that is     *)
(* freed twice on the path.                                                *)
OutOfMemory(objects) ==
    /\ oom' = TRUE
    /\ \E got \in SUBSET objects : got # objects /\ live' = (live \cup got) \ Undo(got)

Refuse(n) == StartFree(n) /\ UNCHANGED <<live, oom>>
-----------------------------------------------------------------------------
(* devicetree_parse_from_physical starts with the header. *)
ParseHeader ==
    /\ Running("header")
    /\ IF blob.magic /\ blob.version <= 17
       THEN /\ Goto("struct")
            /\ UNCHANGED <<here, T, node, finished, gotEnd, num, live, fresh, oom, ret, fate>>
       ELSE Refuse(NULL)
    /\ UNCHANGED blob

Token == blob.tokens[here + 1]

Reading(type) ==
    Running("struct") /\ here < Len(blob.tokens) /\ Token.type = type

(* The struct and its name must both be had: the node is linked only then. *)
BeginNode ==
    /\ Reading("FDT_BEGIN_NODE")
    /\ \/ finished /\ Refuse(node)
       \/ ~finished /\ OutOfMemory(NodeObjects(fresh)) /\ StartFree(node)
       \/ /\ ~finished
          /\ T' = AddNode(T, fresh, node, Token.name)
          /\ live' = live \cup NodeObjects(fresh)
          /\ node' = fresh /\ fresh' = fresh + 1 /\ here' = here + 1
          /\ UNCHANGED <<pc, finished, gotEnd, num, oom, ret, fate>>
    /\ UNCHANGED blob

EndNode ==
    /\ Reading("FDT_END_NODE")
    /\ IF node = NULL \/ finished THEN Refuse(node)
       ELSE /\ IF T.parent[node] # NULL
               THEN node' = T.parent[node] /\ UNCHANGED finished
               ELSE finished' = TRUE /\ UNCHANGED node
            /\ here' = here + 1
            /\ UNCHANGED <<pc, T, gotEnd, num, live, fresh, oom, ret, fate>>
    /\ UNCHANGED blob

(* When the name or the value cannot be had, the rest is freed. *)
Prop ==
    /\ Reading("FDT_PROP")
    /\ \/ (node = NULL \/ finished) /\ Refuse(node)
       \/ ~(node = NULL \/ finished) /\ OutOfMemory(PropObjects(fresh)) /\ StartFree(node)
       \/ /\ ~(node = NULL \/ finished)
          /\ T' = AddProp(T, node, [id |-> fresh, name |-> Token.name, value |-> Token.value])
          /\ live' = live \cup PropObjects(fresh)
          /\ fresh' = fresh + 1 /\ here' = here + 1
          /\ UNCHANGED <<pc, node, finished, gotEnd, num, oom, ret, fate>>
    /\ UNCHANGED blob

Nop ==
    /\ Reading("FDT_NOP")
    /\ here' = here + 1
    /\ UNCHANGED <<blob, pc, T, node, finished, gotEnd, num, live, fresh, oom, ret, fate>>

End ==
    /\ Reading("FDT_END")
    /\ IF here + 1 # Len(blob.tokens) THEN Refuse(node)
       ELSE /\ gotEnd' = TRUE
            /\ here' = here + 1
            /\ UNCHANGED <<pc, T, node, finished, num, live, fresh, oom, ret, fate>>
    /\ UNCHANGED blob

(* TODO("unknown token type {u32}", token_type) *)
UnknownToken ==
    /\ Reading("unknown")
    /\ Panic
    /\ UNCHANGED <<blob, live, oom>>

(* The end of the structure block, without the check that a node is open. *)
StructEnd_any ==
    /\ Running("struct") /\ here = Len(blob.tokens)
    /\ IF gotEnd /\ node # NULL
       THEN /\ Goto("reserved-memory")
            /\ here' = 0
            /\ UNCHANGED <<T, node, finished, gotEnd, num, live, fresh, oom, ret, fate>>
       ELSE Refuse(node)
    /\ UNCHANGED blob

StructEnd ==
    /\ Running("struct") /\ here = Len(blob.tokens)
    /\ IF gotEnd /\ node # NULL /\ finished
       THEN /\ Goto("reserved-memory")
            /\ here' = 0
            /\ UNCHANGED <<T, node, finished, gotEnd, num, live, fresh, oom, ret, fate>>
       ELSE Refuse(node)
    /\ UNCHANGED blob
-----------------------------------------------------------------------------
(* devicetree_add_reservations, with the root in root.                     *)

root == CHOOSE n \in Nodes : T.parent[n] = NULL

(* The properties of a /reserved-memory node that the kernel adds, in the  *)
(* order they are added.                                                   *)
RequiredProps == <<[name |-> "#address-cells", value |-> <<2>>],
                   [name |-> "#size-cells", value |-> <<2>>],
                   [name |-> "ranges", value |-> <<>>]>>

(* T with a /reserved-memory node and the first k of its properties. *)
WithReservedMemory(k) ==
    LET add[i \in 0..k] ==
          IF i = 0 THEN AddNode(T, fresh, root, "reserved-memory")
          ELSE AddProp(add[i - 1], fresh, [id |-> fresh + i, name |-> RequiredProps[i].name,
                                           value |-> RequiredProps[i].value])
    IN  add[k]

(* Finds or makes the node; a failure after some of its properties leaves  *)
(* it in the tree, which is freed.                                         *)
ReservedMemory ==
    /\ Running("reserved-memory")
    /\ LET found == devicetree_child(T, root, "reserved-memory")
           added(k) == NodeObjects(fresh) \cup UNION {PropObjects(fresh + i) : i \in 1..k}
       IN  \/ /\ found # NULL
              /\ Goto("reservations") /\ node' = found
              /\ UNCHANGED <<here, T, finished, gotEnd, num, live, fresh, oom, ret, fate>>
           \/ found = NULL /\ OutOfMemory(NodeObjects(fresh)) /\ StartFree(root)
           \/ \E k \in 0..2 :
                 /\ found = NULL
                 /\ T' = WithReservedMemory(k)
                 /\ oom' = TRUE
                 /\ \E got \in SUBSET PropObjects(fresh + k + 1) :
                       live' = (live \cup added(k) \cup got) \ Undo(got)
                 /\ fresh' = fresh + 4 /\ Goto("free") /\ node' = root
                 /\ UNCHANGED <<here, finished, gotEnd, num, ret, fate>>
           \/ /\ found = NULL
              /\ T' = WithReservedMemory(3)
              /\ live' = live \cup added(3)
              /\ fresh' = fresh + 4 /\ Goto("reservations") /\ node' = fresh
              /\ UNCHANGED <<here, finished, gotEnd, num, oom, ret, fate>>
    /\ UNCHANGED blob

(* The next entry of the reservation block, and after the last the kernel. *)
Reservation ==
    IF here < Len(blob.rsvmap) THEN blob.rsvmap[here + 1]
    ELSE [address |-> KernelStart, size |-> KernelEnd - KernelStart]

hi(x) == x \div Word
lo(x) == x % Word

(* What the reg property gets of a 64-bit number: native_to_big and then a *)
(* copy of 4 or 8 bytes.  (u32)native_to_big(x) are the bytes of the upper *)
(* word.                                                                   *)
CellsOf(x, cells) == IF cells = 1 THEN <<hi(x)>> ELSE <<hi(x), lo(x)>>

BlockName(n) == "memory-reservation-block@" \o ToString(n)

(* The numbers from num on whose name no child has. *)
FreeNumber(n) == /\ n >= num
                 /\ devicetree_child(T, node, BlockName(n)) = NULL
                 /\ \A m \in num..(n - 1) : devicetree_child(T, node, BlockName(m)) # NULL

Numbers == num..(num + Len(T.children[node]))

(* The number that devicetree_add_reservation takes, without looking. *)
NextNumber_unchecked == num

NextNumber == CHOOSE n \in Numbers : FreeNumber(n)

(* One call of devicetree_add_reservation.  Without a name for the node    *)
(* its fail path unlinks a node that is not initialized yet.               *)
AddReservation ==
    /\ Running("reservations") /\ here <= Len(blob.rsvmap)
    /\ LET cells == devicetree_address_size_cells(T, node)
           n     == fresh
           reg   == [id |-> fresh + 1, name |-> "reg",
                     value |-> CellsOf(Reservation.address, cells[1])
                               \o CellsOf(Reservation.size, cells[2])]
           valid == cells[1] \in 1..2 /\ cells[2] \in 1..2
       IN  \/ cells = NULL /\ Refuse(root)
           \/ /\ cells # NULL /\ OutOfMemory(NodeObjects(n) \cup PropObjects(fresh + 1))
              /\ StartFree(root)
           \/ /\ cells # NULL /\ oom' = TRUE /\ fate' = "undefined"
              /\ UNCHANGED <<pc, here, T, node, finished, gotEnd, num, live, fresh, ret>>
           \/ cells # NULL /\ ~valid /\ Refuse(root)
           \/ /\ cells # NULL /\ valid
              /\ T' = AddProp(AddNode(T, n, node, BlockName(NextNumber)), n, reg)
              /\ live' = live \cup NodeObjects(n) \cup PropObjects(fresh + 1)
              /\ fresh' = fresh + 2 /\ num' = NextNumber + 1 /\ here' = here + 1
              /\ UNCHANGED <<pc, node, finished, gotEnd, oom, ret, fate>>
    /\ UNCHANGED blob

ParseEnd ==
    /\ Running("reservations") /\ here = Len(blob.rsvmap) + 1
    /\ Goto("parsed") /\ ret' = "tree" /\ node' = root
    /\ UNCHANGED <<blob, here, T, finished, gotEnd, num, live, fresh, oom, fate>>
-----------------------------------------------------------------------------
PropsOf(n) == {T.props[n][i].id : i \in DOMAIN T.props[n]}

(* A turn of devicetree_free that does not go down to a child. *)
FreeNode_stays ==
    /\ Running("free") /\ node # NULL
    /\ LET props == UNION {PropObjects(p) : p \in PropsOf(node)}
       IN  IF T.children[node] = <<>>
           THEN /\ T' = RemoveNode(T, node)
                /\ live' = live \ (props \cup NodeObjects(node))
                /\ node' = T.parent[node]
           ELSE /\ T' = [T EXCEPT !.props[node] = <<>>]
                /\ live' = live \ props
                /\ node' = node
    /\ UNCHANGED <<blob, pc, here, finished, gotEnd, num, fresh, oom, ret, fate>>

(* A turn of devicetree_free: the properties of the node, and then the     *)
(* node itself when it has no children.                                    *)
FreeNode ==
    /\ Running("free") /\ node # NULL
    /\ LET props == UNION {PropObjects(p) : p \in PropsOf(node)}
       IN  IF T.children[node] = <<>>
           THEN /\ T' = RemoveNode(T, node)
                /\ live' = live \ (props \cup NodeObjects(node))
                /\ node' = T.parent[node]
           ELSE /\ T' = [T EXCEPT !.props[node] = <<>>]
                /\ live' = live \ props
                /\ node' = Head(T.children[node])
    /\ UNCHANGED <<blob, pc, here, finished, gotEnd, num, fresh, oom, ret, fate>>

FreeEnd ==
    /\ Running("free") /\ node = NULL
    /\ Goto("failed") /\ ret' = "nullptr"
    /\ UNCHANGED <<blob, here, T, node, finished, gotEnd, num, live, fresh, oom, fate>>

DtInit == /\ blob \in Blobs
          /\ pc = "header" /\ here = 0 /\ T = EmptyTree /\ node = NULL
          /\ finished = FALSE /\ gotEnd = FALSE /\ num = 0
          /\ live = {} /\ fresh = 1 /\ oom = FALSE /\ ret = "none" /\ fate = "ok"

Parse == \/ ParseHeader \/ BeginNode \/ EndNode \/ Prop \/ Nop \/ End \/ UnknownToken
         \/ StructEnd \/ ReservedMemory \/ AddReservation \/ ParseEnd
         \/ FreeNode \/ FreeEnd
-----------------------------------------------------------------------------
(* What a structure block means.  Depth(i) is the number of nodes that are *)
(* open before token i, and Encloser(i) is the token that opened the       *)
(* innermost one.                                                          *)

Tokens == blob.tokens
Count(type, i, j) == Cardinality({k \in i..j : Tokens[k].type = type})
Depth(i) == Count("FDT_BEGIN_NODE", 1, i - 1) - Count("FDT_END_NODE", 1, i - 1)

Encloser(i) ==
    LET open == {j \in 1..(i - 1) : /\ Tokens[j].type = "FDT_BEGIN_NODE"
                                    /\ \A k \in (j + 1)..i : Depth(k) > Depth(j)}
    IN  IF open = {} THEN 0 ELSE CHOOSE j \in open : \A k \in open : k <= j

(* One root node, everything in it, and FDT_END at the end and only there. *)
WellFormed ==
    LET n == Len(Tokens)
    IN  /\ n > 0 /\ \A i \in 1..n : (Tokens[i].type = "FDT_END") <=> (i = n)
        /\ \E i \in 1..n : Tokens[i].type = "FDT_BEGIN_NODE"
        /\ Depth(n) = 0
        /\ \A i \in 1..n :
              /\ Tokens[i].type # "unknown"
              /\ Tokens[i].type \in {"FDT_PROP", "FDT_END_NODE"} => Depth(i) > 0
              /\ (Tokens[i].type = "FDT_BEGIN_NODE" /\ Depth(i) = 0) =>
                    Count("FDT_BEGIN_NODE", 1, i - 1) = 0

(* The object that token i made: the k-th of those that make one. *)
ObjectOf(i) == Count("FDT_BEGIN_NODE", 1, i) + Count("FDT_PROP", 1, i)

(* The heap holds exactly the objects of the tree, at every step of the    *)
(* parser and of devicetree_free: every error path frees what was half     *)
(* built, and when the parser returns nullptr nothing is left.             *)
NothingLeaks ==
    fate = "ok" =>
    /\ live = (UNION {NodeObjects(n) : n \in Nodes})
              \cup UNION {PropObjects(p) : p \in UNION {PropsOf(n) : n \in Nodes}}
    /\ ret = "nullptr" => live = {}

(* The lists of children and the parent pointers agree, so that the walks  *)
(* over the tree that have no stack can find their way back.               *)
LinksAgree ==
    /\ DOMAIN T.name = Nodes /\ DOMAIN T.children = Nodes /\ DOMAIN T.props = Nodes
    /\ \A n \in Nodes : \A i \in DOMAIN T.children[n] : T.parent[T.children[n][i]] = n
    /\ \A n \in Nodes : T.parent[n] # NULL =>
          Cardinality({i \in DOMAIN T.children[T.parent[n]] :
                          T.children[T.parent[n]][i] = n}) = 1
    /\ Cardinality({n \in Nodes : T.parent[n] = NULL}) <= 1

Ascending(s) == \A i \in 1..(Len(s) - 1) : s[i] < s[i + 1]

(* While the structure block is parsed, and after it, the tree is what the *)
(* tokens say: every node and every property is in the node that encloses  *)
(* it, in the order of the tokens; and its links agree.                    *)
TreeIsWhatWasRead ==
    LET read == IF pc = "struct" THEN here ELSE Len(Tokens)
    IN  /\ LinksAgree
        /\ pc \in {"struct", "reserved-memory"} =>
              /\ \A n \in Nodes : /\ Ascending(T.children[n])
                                  /\ Ascending([i \in DOMAIN T.props[n] |-> T.props[n][i].id])
              /\ \A i \in 1..read :
                    LET n == ObjectOf(i)
                        e == Encloser(i)
                    IN  /\ Tokens[i].type = "FDT_BEGIN_NODE" =>
                              /\ T.name[n] = Tokens[i].name
                              /\ T.parent[n] = IF e = 0 THEN NULL ELSE ObjectOf(e)
                        /\ Tokens[i].type = "FDT_PROP" =>
                              [id |-> n, name |-> Tokens[i].name, value |-> Tokens[i].value]
                                 \in Range(T.props[ObjectOf(e)])

(* The parser accepts only well-formed structure blocks, and refuses one   *)
(* only for want of memory.                                                *)
AcceptsWellFormed ==
    /\ pc \in {"reserved-memory", "reservations", "parsed"} => WellFormed
    /\ (~oom /\ here > 0 /\ (pc = "free" \/ (pc = "struct" /\ fate = "panic"))) => ~WellFormed

(* The numbers of the reservation nodes skip the names that are taken, so  *)
(* that devicetree_child finds every one of them.                          *)
ReservationNamesAreUnique ==
    \A n \in Nodes :
       (T.parent[n] # NULL /\ \E k \in 0..num : T.name[n] = BlockName(k)) =>
          \A m \in Range(T.children[T.parent[n]]) : T.name[m] = T.name[n] => m = n

(* What is to be reserved: the reservation block and the kernel. *)
ToReserve == Range(blob.rsvmap)
             \cup {[address |-> KernelStart, size |-> KernelEnd - KernelStart]}

(* The entry is read back from /reserved-memory as mm_init_physical reads. *)
IsReserved(entry) ==
    LET parent == devicetree_child(T, root, "reserved-memory")
    IN  \E n \in Range(T.children[parent]) :
           devicetree_reg(T, n, 0) = <<entry.address, entry.size>>

ReservedCells ==
    devicetree_address_size_cells(T, devicetree_child(T, root, "reserved-memory"))

(* "Adds reservations from the reserved memory block, and adds the kernel  *)
(* itself, to the /reserved-memory node of the Devicetree"                 *)
(* (devicetree.c:324-325): under names of their own, and where addresses   *)
(* and sizes have two cells each, as in the node that the kernel makes     *)
(* itself, the ranges read back are those that were to be reserved.        *)
ReservationsAreAdded ==
    /\ ReservationNamesAreUnique
    /\ ret = "tree" /\ ReservedCells = <<2, 2>> =>
          \A entry \in ToReserve : IsReserved(entry)

(* The same comment for every node that the parser accepts: what fits in   *)
(* the cells of the node is read back from it.  With one cell it is not,   *)
(* since the upper word is written (devicetree.c:280, 296).                *)
ReservationsFitTheirCells ==
    ret = "tree" =>
       \A entry \in ToReserve :
          (entry.address < Word^ReservedCells[1] /\ entry.size < Word^ReservedCells[2])
             => IsReserved(entry)
=============================================================================
