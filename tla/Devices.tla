------------------------------- MODULE Devices ------------------------------
(***************************************************************************)
(* From the devicetree to the devices: what main does with the tree that   *)
(* module Devicetree has parsed.  The bootloader's random seed is taken    *)
(* from it, the initializers run (init.c), which register the drivers, and *)
(* devicetree_enumerate offers every node to the drivers; the ns16550a     *)
(* driver maps its registers and adds a device and a UART (device.c,       *)
(* drivers/ns16550a.c).                                                    *)
(*                                                                         *)
(* The strings of a "compatible" property are numbered, one word each.     *)
(***************************************************************************)
EXTENDS Devicetree

CONSTANTS Initializers, \* the sequences of [func, priority] the linker may make
          NS16550A,     \* the string "ns16550a"
          OtherDriver,  \* the string of the other drivers
          RegsSize,     \* sizeof(struct ns16550a_regs)
          HandlersCap   \* the first capacity of the handlers vector (16)

ASSUME DevicesConstants ==
    /\ HandlersCap \in Nat \ {0} /\ NS16550A # OtherDriver
    /\ Initializers \subseteq Seq([func : STRING, priority : Int])

VARIABLES inits,        \* _kernel_start_initializers
          ran,          \* how many of them have run
          rootDevice,   \* root_device has its name
          handlers,     \* the handlers vector: [compatible, func]
          handlersCap,
          dir,          \* where the loop of devicetree_enumerate is
          calls,        \* the handlers that devicetree_enumerate_one has left to call
          devices,      \* the children of root_device
          uarts,        \* the list of UARTs
          devlive,      \* the objects that devices are made of
          visited,      \* the nodes that were enumerated
          tried,        \* the calls of handlers: [node, handler, ok]
          printed,      \* what print_devices has printed: [device, depth]
          depth         \* the depth at which it prints

bootvars == <<inits, ran, rootDevice, handlers, handlersCap, dir, calls, devices, uarts,
              devlive, visited, tried, printed, depth>>
vars == <<dtvars, bootvars>>

Main(l) == fate = "ok" /\ pc = l
-----------------------------------------------------------------------------
(* The bytes of /chosen/rng-seed go to the entropy pool (module Entropy),  *)
(* and the property is unlinked and freed.                                 *)
devicetree_add_entropy ==
    /\ Main("parsed")
    /\ Goto("initializers")
    /\ LET chosen == devicetree_child(T, root, "chosen")
           seed   == devicetree_prop(T, chosen, "rng-seed")
       IN  IF chosen = NULL THEN UNCHANGED <<T, live>>
           ELSE IF seed = NULL THEN UNCHANGED <<T, live>>
           ELSE /\ T' = [T EXCEPT !.props[chosen] = RemoveFirst(@, seed)]
                /\ live' = live \ PropObjects(seed.id)
    /\ UNCHANGED <<blob, here, node, finished, gotEnd, num, fresh, oom, ret, fate>>
    /\ UNCHANGED bootvars

(* The index of the first initializer with the least priority, from i on;  *)
(* the scan starts behind the first candidate.                             *)
MinIndex_last(s, i) ==
    CHOOSE k \in i..Len(s) : /\ \A j \in i..(Len(s) - 1) : s[k].priority <= s[j].priority
                             /\ \A j \in i..(k - 1) : s[k].priority < s[j].priority

(* The index of the first initializer with the least priority, from i on.  *)
MinIndex(s, i) ==
    CHOOSE k \in i..Len(s) : /\ \A j \in i..Len(s) : s[k].priority <= s[j].priority
                             /\ \A j \in i..(k - 1) : s[k].priority < s[j].priority

sort_initializers(s) ==
    LET sorted[i \in 0..Len(s)] ==
          IF i = 0 THEN s
          ELSE LET t == sorted[i - 1]
                   k == MinIndex(t, i)
               IN  [t EXCEPT ![i] = t[k], ![k] = t[i]]
    IN  sorted[Len(s)]

StartInitializers ==
    /\ Main("initializers") /\ ran = 0
    /\ inits' = sort_initializers(inits)
    /\ ran' = 1
    /\ UNCHANGED <<dtvars, rootDevice, handlers, handlersCap, dir, calls, devices, uarts,
                   devlive, visited, tried, printed, depth>>

(* devicetree_register that never makes the vector larger. *)
NewCap_fixed == IF handlersCap = 0 THEN HandlersCap ELSE handlersCap

(* The capacity of the handlers vector with room for one more. *)
NewCap == IF handlersCap = 0 THEN HandlersCap
          ELSE IF handlersCap = Len(handlers) THEN 2 * handlersCap ELSE handlersCap

(* Without memory for the vector devicetree_register panics; one that has  *)
(* room needs none.                                                        *)
devicetree_register(compatible, func) ==
    \/ /\ handlers' = Append(handlers, [compatible |-> compatible, func |-> func])
       /\ handlersCap' = NewCap
       /\ ran' = ran + 1
       /\ UNCHANGED dtvars
    \/ /\ NewCap # handlersCap
       /\ Panic
       /\ UNCHANGED <<blob, live, oom, handlers, handlersCap, ran>>

(* The next initializer: device.c's, which makes root_device, or that of a *)
(* driver.                                                                 *)
RunInitializer ==
    /\ Main("initializers") /\ ran \in 1..Len(inits)
    /\ LET init == inits[ran]
       IN  \/ /\ init.func = "root_device"
              /\ \E named \in BOOLEAN : rootDevice' = named
              /\ ran' = ran + 1
              /\ UNCHANGED <<dtvars, handlers, handlersCap>>
           \/ /\ init.func # "root_device"
              /\ devicetree_register(IF init.func = "ns16550a" THEN NS16550A ELSE OtherDriver,
                                     init.func)
              /\ UNCHANGED rootDevice
    /\ UNCHANGED <<inits, dir, calls, devices, uarts, devlive, visited, tried, printed, depth>>

StartEnumerate ==
    /\ Main("initializers") /\ ran = Len(inits) + 1
    /\ Goto("enumerate") /\ node' = root /\ dir' = "down"
    /\ UNCHANGED <<blob, here, T, finished, gotEnd, num, live, fresh, oom, ret, fate>>
    /\ UNCHANGED <<inits, ran, rootDevice, handlers, handlersCap, calls, devices, uarts,
                   devlive, visited, tried, printed, depth>>
-----------------------------------------------------------------------------
(* devicetree_enumerate.                                                   *)

IsLast(n) == Last(T.children[T.parent[n]]) = n

NextSibling(n) ==
    LET s == T.children[T.parent[n]]
    IN  s[1 + CHOOSE i \in DOMAIN s : s[i] = n]

(* Traverse down and to the left. *)
Descend ==
    /\ Main("enumerate") /\ dir = "down"
    /\ IF T.children[node] # <<>> THEN node' = Head(T.children[node]) /\ UNCHANGED dir
                                  ELSE dir' = "up" /\ UNCHANGED node
    /\ UNCHANGED <<blob, pc, here, T, finished, gotEnd, num, live, fresh, oom, ret, fate>>
    /\ UNCHANGED <<inits, ran, rootDevice, handlers, handlersCap, calls, devices, uarts,
                   devlive, visited, tried, printed, depth>>

(* The handlers that could apply to a node: for every string of its        *)
(* "compatible" property, those registered for it.                         *)
Applicable(n) ==
    LET prop == devicetree_prop(T, n, "compatible")
        For(string) == SelectSeq(handlers, LAMBDA h : h.compatible = string)
    IN  IF prop = NULL THEN <<>>
        ELSE FoldLeft(LAMBDA s, string : s \o For(string), <<>>, prop.value)

(* Leaving a node, devicetree_enumerate_one; the root is not left so. *)
Leave ==
    /\ Main("enumerate") /\ dir = "up" /\ T.parent[node] # NULL
    /\ calls' = Applicable(node)
    /\ visited' = Append(visited, node)
    /\ dir' = "handlers"
    /\ UNCHANGED <<dtvars, inits, ran, rootDevice, handlers, handlersCap, devices, uarts,
                   devlive, tried, printed, depth>>

(* To the parent, or to the right sibling, from where to descend again. *)
Move ==
    /\ Main("enumerate") /\ dir = "handlers" /\ calls = <<>>
    /\ IF IsLast(node) THEN node' = T.parent[node] /\ dir' = "up"
                       ELSE node' = NextSibling(node) /\ dir' = "down"
    /\ UNCHANGED <<blob, pc, here, T, finished, gotEnd, num, live, fresh, oom, ret, fate>>
    /\ UNCHANGED <<inits, ran, rootDevice, handlers, handlersCap, calls, devices, uarts,
                   devlive, visited, tried, printed, depth>>

EnumerateEnd ==
    /\ Main("enumerate") /\ dir = "up" /\ T.parent[node] = NULL
    /\ Goto("print") /\ node' = NULL
    /\ UNCHANGED <<blob, here, T, finished, gotEnd, num, live, fresh, oom, ret, fate>>
    /\ UNCHANGED bootvars

(* The struct ns16550a, its name, and its mapped registers. *)
DeviceObjects(n) == {<<"device", n>>, <<"name", n>>, <<"regs", n>>}

(* The fail path of ns16550a_enumerate_dt without iomem_unmap. *)
DeviceUndo_keeps_regs(got) == {x \in got : x[1] # "regs"}

(* The fail path of ns16550a_enumerate_dt: free the name, iomem_unmap, and *)
(* free the struct.                                                        *)
DeviceUndo(got) == got

(* A handler that fails ends devicetree_enumerate_one. *)
HandlerFailed_returns ==
    /\ calls' = <<>>
    /\ tried' = Append(tried, [node |-> node, handler |-> Head(calls), ok |-> FALSE])
    /\ UNCHANGED <<dtvars, devices, uarts>>

(* What is left of the calls once a handler has failed. *)
HandlerFailed ==
    /\ calls' = Tail(calls)
    /\ tried' = Append(tried, [node |-> node, handler |-> Head(calls), ok |-> FALSE])
    /\ UNCHANGED <<dtvars, devices, uarts>>

(* device_add(&root_device, device), whose asserts root_device must pass.  *)
HandlerSucceeded(isUart) ==
    IF rootDevice
    THEN /\ devices' = Append(devices, node)
         /\ uarts' = IF isUart THEN Append(uarts, node) ELSE uarts
         /\ calls' = <<>>
         /\ tried' = Append(tried, [node |-> node, handler |-> Head(calls), ok |-> TRUE])
         /\ UNCHANGED dtvars
    ELSE Panic /\ UNCHANGED <<blob, live, oom, devices, uarts, calls, tried>>

(* The call of ns16550a_enumerate_dt: the struct comes first, the name and *)
(* the mapping are both tried, and the device is there if all are.         *)
ns16550a_enumerate_dt ==
    LET reg == devicetree_reg(T, node, 0)
        all == DeviceObjects(node)
    IN  \/ /\ reg = <<"assert">>
           /\ Panic
           /\ UNCHANGED <<blob, live, oom, devices, uarts, calls, tried, devlive>>
        \/ /\ \/ reg = NULL
              \/ reg # NULL /\ reg # <<"assert">> /\ reg[2] < RegsSize
           /\ HandlerFailed /\ UNCHANGED devlive
        \/ /\ reg # NULL /\ reg # <<"assert">>
           /\ reg[2] >= RegsSize
           /\ \E got \in SUBSET all :
                 /\ <<"device", node>> \notin got => got = {}
                 /\ IF got = all THEN HandlerSucceeded(TRUE) /\ devlive' = devlive \cup got
                    ELSE HandlerFailed /\ devlive' = (devlive \cup got) \ DeviceUndo(got)

(* The next handler is called: ns16550a's, or that of another driver,      *)
(* which gives a device or none.                                           *)
CallHandler ==
    /\ Main("enumerate") /\ dir = "handlers" /\ calls # <<>>
    /\ \/ Head(calls).func = "ns16550a" /\ ns16550a_enumerate_dt
       \/ /\ Head(calls).func # "ns16550a"
          /\ \/ HandlerSucceeded(FALSE) /\ devlive' = devlive \cup DeviceObjects(node)
             \/ HandlerFailed /\ UNCHANGED devlive
    /\ UNCHANGED <<inits, ran, rootDevice, handlers, handlersCap, dir, visited, printed, depth>>
-----------------------------------------------------------------------------
(* print_devices, where node is a child of root_device, or NULL for it. *)

NextDevice == devices[1 + CHOOSE i \in DOMAIN devices : devices[i] = node]

(* Print a device, and go to the first child, to the next sibling, or up   *)
(* to the root, where the depth must again be 1.                           *)
PrintDevice ==
    /\ Main("print")
    /\ LET first == node = NULL /\ devices # <<>>
           next  == node # NULL /\ node # Last(devices)
           up    == IF node # NULL THEN depth - 1 ELSE depth
       IN  \/ /\ ~rootDevice \/ (~first /\ ~next /\ up # 1)
              /\ Panic
              /\ UNCHANGED <<blob, live, oom, printed, depth>>
           \/ /\ rootDevice
              /\ printed' = Append(printed, [device |-> node, depth |-> depth])
              /\ \/ first /\ node' = Head(devices) /\ depth' = depth + 1 /\ UNCHANGED pc
                 \/ next /\ node' = NextDevice /\ UNCHANGED <<pc, depth>>
                 \/ ~first /\ ~next /\ up = 1 /\ node' = NULL /\ depth' = up /\ Goto("done")
              /\ UNCHANGED <<blob, here, T, finished, gotEnd, num, live, fresh, oom, ret, fate>>
    /\ UNCHANGED <<inits, ran, rootDevice, handlers, handlersCap, dir, calls, devices, uarts,
                   devlive, visited, tried>>
-----------------------------------------------------------------------------
Init == /\ DtInit
        /\ inits \in Initializers /\ ran = 0 /\ rootDevice = FALSE
        /\ handlers = <<>> /\ handlersCap = 0
        /\ dir = "down" /\ calls = <<>> /\ devices = <<>> /\ uarts = <<>>
        /\ devlive = {} /\ visited = <<>> /\ tried = <<>> /\ printed = <<>> /\ depth = 1

Boot == \/ Parse /\ UNCHANGED bootvars
        \/ devicetree_add_entropy \/ StartInitializers \/ RunInitializer \/ StartEnumerate
        \/ Descend \/ Leave \/ CallHandler \/ Move \/ EnumerateEnd \/ PrintDevice

Stopped == fate # "ok" \/ pc \in {"failed", "done"}

(* main has ended: the tree is there or not, or the kernel has panicked. *)
Halt == Stopped /\ UNCHANGED vars

Next == Boot \/ Halt

Spec == Init /\ [][Next]_vars /\ WF_vars(Boot)
-----------------------------------------------------------------------------
(* The tree in the order in which a node comes after its children. *)
PostOrder ==
    LET order[n \in Nodes] ==
          FoldLeft(LAMBDA s, c : s \o order[c], <<>>, T.children[n]) \o <<n>>
    IN  order[root]

(* The walk of devicetree_enumerate, which keeps no stack, leaves every    *)
(* node below the root exactly once, and after all its children.  Whether  *)
(* it leaves the root as well is open here.                                *)
EnumeratesInPostOrder ==
    LET below == SelectSeq(visited, LAMBDA n : n # root)
    IN  pc \in {"enumerate", "print", "done"} =>
           /\ IsPrefix(below, Front(PostOrder))
           /\ pc # "enumerate" => below = Front(PostOrder)

(* What that walk promises, without the order of siblings: it leaves no    *)
(* node twice, none before its children, and at the end all but perhaps    *)
(* the root.                                                               *)
LeavesEveryNode ==
    (fate = "ok" /\ pc \in {"enumerate", "print", "done"}) =>
       /\ IsInjective(visited) /\ Range(visited) \subseteq Nodes
       /\ \A i \in DOMAIN visited :
             \A child \in Range(T.children[visited[i]]) : \E j \in 1..(i - 1) : visited[j] = child
       /\ pc # "enumerate" => Nodes \ {root} \subseteq Range(visited)

(* A node's handlers are tried in the order of the strings of the node and *)
(* of their registration, until one succeeds, and all of them if none does. *)
HandlersAreTriedInOrder ==
    \A n \in Range(visited) :
       LET mine == SelectSeq(tried, LAMBDA c : c.node = n)
           all  == Applicable(n)
       IN  /\ \A i \in DOMAIN mine : i <= Len(all) /\ mine[i].handler = all[i]
           /\ \A i \in DOMAIN mine : mine[i].ok => i = Len(mine)
           /\ (n # node /\ fate = "ok") =>
                 \/ Len(mine) = Len(all)
                 \/ mine # <<>> /\ Last(mine).ok

(* devicetree_enumerate: "On each node with a `compatible` prop, all the   *)
(* handlers registered with `devicetree_register` that could apply are     *)
(* called until one returns non-`nullptr`" (devicetree.h:131-133).  It is  *)
(* said of the nodes below the root: the walk ends at the root without     *)
(* offering it to the handlers (RootIsEnumerated).                         *)
EnumeratesAll == EnumeratesInPostOrder /\ LeavesEveryNode /\ HandlersAreTriedInOrder

(* What that comment says of the root, and what the code does not do.      *)
RootIsEnumerated ==
    (fate = "ok" /\ pc \in {"print", "done"}
       /\ devicetree_prop(T, root, "compatible") # NULL) => root \in Range(visited)

(* A handler that fails leaves nothing behind: registers are mapped, and   *)
(* objects are allocated, for the children of root_device only, of which   *)
(* the UARTs are a part; and print_devices prints each of them once.  Of a *)
(* mapping that failed iomem_map itself keeps the VMA, which is not        *)
(* counted here.                                                           *)
DevicesAreAccountedFor ==
    fate = "ok" =>
    /\ devlive = UNION {DeviceObjects(n) : n \in Range(devices)}
    /\ IsInjective(devices) /\ IsInjective(uarts) /\ Range(uarts) \subseteq Range(devices)
    /\ pc = "done" =>
          printed = <<[device |-> NULL, depth |-> 1]>>
                    \o [i \in DOMAIN devices |-> [device |-> devices[i], depth |-> 2]]

(* The handlers that the first k initializers register. *)
Registered(k) ==
    LET funcs[i \in 0..k] ==
          IF i = 0 THEN <<>>
          ELSE IF inits[i].func = "root_device" THEN funcs[i - 1]
          ELSE Append(funcs[i - 1], inits[i].func)
    IN  funcs[k]

(* Whatever the order in which the linker lays them out, the initializers  *)
(* run in the order of their priorities, each of them once, and the        *)
(* vector, which grows, has room for all the handlers that they register.  *)
DriversAreRegistered ==
    /\ ran > 0 =>
          /\ \A i \in 1..(Len(inits) - 1) : inits[i].priority <= inits[i + 1].priority
          /\ \E s \in Initializers : ToBag(s) = ToBag(inits)
          /\ fate = "ok" => [i \in DOMAIN handlers |-> handlers[i].func] = Registered(ran - 1)
    /\ Len(handlers) <= handlersCap

(* Parsing, freeing, enumerating and printing come to an end: main gets to *)
(* its end, or panics, whatever the tree and whatever fails; undefined     *)
(* behaviour is an end too.                                                *)
BootEnds == <>Stopped
=============================================================================
