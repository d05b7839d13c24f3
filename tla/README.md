# A TLA+ model of ukoOS's kernel

ukoOS is a small RISC-V kernel. This directory holds TLA+ modules that model
its memory management, its devicetree and devices, and its random numbers, the
TLC configurations that check them on small instances, and TLAPS proofs of
what holds on every instance. Paths below are
relative to `src/src/kernel/` unless they start with `doc/`.

The kernel runs one hart, with interrupts disabled: no two of its functions run
at the same time. What makes it hard are long sequences of calls on linked
structures, calls that come back to their caller (the heap needs virtual memory
for its segments, the virtual memory allocator needs heap memory for its
structs), machines described by devicetrees nobody tested, hardware that reads
the page tables whenever it likes, and running out of memory half way through.

## Inventory

| part | state | operations | works with | what makes it right |
|---|---|---|---|---|
| lists, `include/list.h` | `prev`, `next` of every `list_head` | push, unshift, shift, pop, remove | every part | links are inverse; what is removed is self-linked |
| virtual memory allocator, `mm/virtual_alloc.c` | a list and two treaps of `struct vma` | init, `vma_alloc`, `_aligned`, `_by_addr`, `vma_free`, `vma_find` | heap (structs), heap and paging (callers) | VMAs tile the range; list and treaps agree; free neighbours are merged; fails only when it must |
| treaps, same file | value, priority, parent, children | insert, remove, rotate, two searches | allocator above | pointers agree; searches find |
| physical memory allocator, `mm/physical_alloc.c` | two chains of runs of free frames, kept in the frames | `mm_init_physical`, alloc, free | devicetree (input), heap and paging (callers) | exactly the unreserved RAM is free; no frame twice |
| heap, `mm/alloc.c`, `mm/alloc/*` | pages on lists by size class, `pages_direct`, segments | alloc, free, realloc | VMA allocator, frames, paging | no block twice, none lost; page counts and lists agree; calls end |
| paging, `arch/riscv64/paging.c` | Sv39 tables, in frames | walk, map, unmap, fence, `iomem_map`, `iomem_unmap` | frames, VMAs, heap and drivers (callers), the TLB | every frame has one use; what is mapped is what was asked; fences come in time |
| devicetree, `devicetree.c` | tree of nodes and properties | parse, free, look up, reservations, enumerate | heap, devices, physical allocator (reads it) | builds what the blob says; error paths free all they built, once; the walk reaches every node |
| devices, `device.c`, `init.c`, `drivers/ns16550a.c` | device tree, drivers, initializers | register, create, run in order | devicetree, `iomem_map` | initializers run in order; every driver is registered and tried; a failed enumeration leaves nothing |
| random numbers, `random.c` | pool, key, entropy estimate | seed, add entropy, draw | heap, treaps | reseeds when due; never repeats output |
| printing, symbols, panic | none that persists | format, look up, halt | all | |
| crypto, `crypto/subtle/` | running hashes | ChaCha20, BLAKE2s, BLAKE2b | random numbers | the blocks, counts and final flags of the RFC, however the input is cut |
| boot code, builtins, build | | | | |

PROJECT.json lists the hazards, each at its line.

## Modules

| module | models | notes |
|---|---|---|
| `ListHead` | `include/list.h` | operators on a record of links |
| `AddressSpace` | what `include/mm/virtual_alloc.h` promises | abstract |
| `VirtualAlloc` | `mm/virtual_alloc.c` | implements `AddressSpace` |
| `Treap` | the treaps of the same file | justifies the sets that `VirtualAlloc` uses for them |
| `FrameAllocator` | what `include/mm/physical_alloc.h` promises | abstract |
| `PhysicalAlloc` | `mm/physical_alloc.c` | implements `FrameAllocator` |
| `Heap` | `mm/alloc.c`, `heap.c`, `page.c`, `segment.c` | with the calls that come back through the VMA allocator |
| `Paging` | `arch/riscv64/paging.c`, and the loops of `segment.c` that use it | composed with a TLB |
| `Devicetree` | the parser, the reservations and `devicetree_free` of `devicetree.c` | |
| `Devices` | the rest of `devicetree.c`; `init.c`, `device.c`, `drivers/ns16550a.c`, the order of `main.c` | extends `Devicetree`: one run goes from the blob to the devices |
| `Entropy` | `random.c`, and BLAKE2 and ChaCha20 around their rounds | |
| `ListHeadProofs` | | TLAPS: what `list.h` does to lists |
| `VirtualAllocProofs` | | TLAPS: the virtual memory allocator |
| `TreapProofs` | | TLAPS: its treaps |
| `HeapProofs` | | TLAPS: the heap |
| `PagingProofs` | | TLAPS: paging |
| `PhysicalAllocProofs` | | TLAPS: the physical memory allocator |
| `EntropyProofs` | | TLAPS: hashes and random numbers |
| `DevicesProofs` | | TLAPS: the devicetree and the devices |
| `MC...` | | constants and symmetry for TLC |

**VirtualAlloc.** The state is one record: the links, start and size of every
struct, the sets of structs in each treap, and the set of structs that the heap
has handed out. A C function is an operator from a record to the record after
the call, or, where memory for a struct may be refused or several VMAs fit
equally well, to the set of the outcomes. Calls of the heap take no time here
(module `Heap` has the other side); `scarce`, chosen once, says whether it may
refuse a struct although it has one. Addresses count pages from 0; 32-bit
compression cannot overflow, because `vma_allocator_init` asserts that the range
has at most 2^32 pages and `TypeOK` says that no VMA reaches beyond it. A
panic is a state from which nothing happens.

Of priorities the record keeps which are zero (`zero`). `treap_insert` can make
one (finding 1): `draws` says which of the draws to come in a call do so.
It is chosen from `ZeroDraws` when the call starts, and the call must make all
these draws, so that no choice is made in vain. `is_vma_free` is the code's
test, that the priority in `BY_SIZE` is not zero: a VMA of priority zero is in the
treap, can be found by `vma_alloc`, and is in use for `vma_free` and
`vma_alloc_by_addr`. The asserts of `treap_remove`, `vma_merge` and `vma_free` are
there (`asserted`); a call in which one fails panics. What such a call had done
by then is not kept but for `zero`, since nothing follows. Where the order of
priorities matters, in the shape of a treap, is module `Treap`.

**Treap.** One treap, with every field. `which` says which of the two it is: in
`BY_ADDR` VMAs do not overlap, in `BY_SIZE` values repeat. `RandomBits` stands
for the 32 bits of `random_u32`, so the priority has `RandomBits - 1`. The body of
each loop of the code is an operator (`Lower`, `RotateUp`, `RotateDown`,
`FindNext`, `FitNext`), which leaves the state as it is where the loop ends; `Loop`
takes as many turns as there are structs. The proofs show that every loop has ended
by then.

`SetSize` is what `vma_alloc` and `vma_merge` do to a VMA that stays where it is in
`BY_ADDR` when its size changes, and `Reinsert` what they do to it in `BY_SIZE`.

**PhysicalAlloc.** Addresses count units smaller than a page, since regions and
reservations need not start on page boundaries. `mm_init_physical` is modelled
step by step (one loop iteration a step), from the contents of a board's
devicetree; then calls come in any order. The header of a run is in its first
frame, and a caller that gets a frame overwrites it. A reg entry ends in the
address space (`RegEntry`). `Supported(b)` says of which boards the boot is right:
each memory node has at most one entry and they do not overlap or hold address 0;
no reservation is empty; in a region reservations come in descending order; no
chunk ends at 4 GiB. TLC evaluates it on the machines of `MCPhysicalAlloc`
(`GoodBoardsAssumption`); each of findings 2 to 4 is about a board that breaks
one of its conjuncts.

**Heap.** A record of all the fields, with the free lists of a page as sets:
their order is random from the start (`page_init_small_or_large`). Constants
give the shape: the number of classes with `pages_direct` entries, of small
classes, of classes. `segment_alloc` and `segment_free` call the VMA allocator,
which calls `alloc` and `free` for its structs; these calls are modelled by the
stack of calls under way and the list of calls left to make. Which calls it
makes depends on its VMAs, which this module does not have: any of the courses
that the code allows may be taken. `ScanLost` stands for what the code does
after `alloc_generic` has followed a pointer to a page that has been freed; the
model goes no further there. Frames running out in `segment_alloc` is a panic,
as in the code. `realloc` is a call of `alloc` followed by one of `free`, with
whatever these two start in between; only calls that grow a block are made, as
by its only caller, `devicetree_register`. If the new size is huge,
`size_class_of_size`, which has no class for it, panics.

**Paging.** Page tables are frames of a memory `mem`; a frame that is not a
table holds `Data`, in which every entry is valid, so that a table that is not
cleared shows. A call that maps or unmaps takes one step for each page, and
between any two steps the TLB may read a translation, valid or not (`FillTlb`);
`mm_paging_fence` empties it. `Translate` is what the hardware does with the
tables, written independently of `mm_paging_walk`. The frame allocator is a
list here and the VMA allocator any function that returns unused ranges; the
modules above show that they are that. The initial state is the one that the
boot stub leaves: the boot segment mapped, in tables of its own, which
`BootMemory` makes a page at a time from `BootFrames`; the kernel starts with the
frames of `FreeFrames`.

**Devicetree.** The blob is a sequence of tokens and a list of reservations.
The parser takes one token a step; every allocation may fail, after which the
error path of the code is followed to its end. Nodes and properties are made of
two and three objects on the heap (`live`), so that a leak of any of them
shows. `fate` is "panic" where the code panics, and "undefined" where
`devicetree_add_reservation` unlinks a node that it has not initialized. The
calls of `free` on one error path are one step, on a set: an object that a path
forgets shows, but not one that it frees twice.
What a structure block means (`WellFormed`, `Encloser`) is defined on the
tokens, without a parser.

**Devices.** The remaining calls of `main`, in its order: the seed of
`/chosen`, the initializers, enumeration, printing. `devicetree_enumerate` is
its loop, without a stack. A handler is that of `ns16550a`, with a failure at
each of its allocations and `iomem_map`, or one that succeeds or fails at will.
Strings of `compatible` are numbers.

**Entropy.** The compression of a block is a term of its inputs, as is a
ChaCha20 block: two results are equal only when all that went into them is. The
bytes mixed in are numbered, so that a byte that is lost, repeated or moved
shows in the hash. `Reference` is RFC 7693's definition, on the whole input at
once. The words of the byte count wrap at `Word`, and the hart's estimate at
`Estimate63`.

## Runs

| run | instance | result |
|---|---|---|
| `MCVirtualAlloc` | the pages 1 to 5, alignment 2, so that the range does not start on an aligned page; as many structs as pages; with and without a heap that may refuse each of them; at most one draw that leaves a priority of zero, wherever in a call | the properties of `VirtualAlloc` and `AddressSpace` hold |
| `MCVirtualAllocZeroPriority` | as above | **violated**: the assert of `treap_remove` |
| `MCTreap` | either treap, four structs, small values, all priorities of a few bits | links and membership; both searches are right |
| `MCPhysicalAlloc` | five machines of up to nine frames of RAM on both sides of the limit; on two of them the boot panics | exactly the unreserved RAM is found; boot ends; implements `FrameAllocator` |
| `MCPhysicalReserved` | two reservations in ascending order | **violated**: reserved memory is free |
| `MCHeap` | two segments of two pages of two blocks; a direct, a small, a large and the huge class; `segment_alloc` makes the longest course of calls | blocks, pages and full pages accounted for; calls end; reaches `ScanLost` |
| `MCHeapAssert` | a direct, a large and the huge class; the shortest course that takes a struct, or the longest | **violated**: the assert of `alloc_generic` |
| `MCPaging` | three levels of tables of two entries; seven frames, of which the boot takes five; segments of two pages; two devices, one of them across a page boundary; a TLB of one entry | every frame has one use, what is mapped is what was asked, asserts hold, the fences of segments come in time |
| `MCPagingFence` | as above | **violated**: the region that `iomem_map` returns may not have taken effect |
| `MCDevices` | every structure block of up to five tokens of six kinds; six trees for the reservations, one of them with cells of one word, four with devices, two bad headers; three layouts of initializers | nothing leaks; well-formed blobs, and no others, become the tree they describe; reservations are added, where cells are two; every node but the root and every handler is reached; devices are accounted for; boot ends |
| `MCDevicesOneCell` | the tree with cells of one word | **violated**: reservations that fit are read back as others |
| `MCEntropy` | blocks of three bytes, keys of one, up to eight bytes mixed in, three draws | hashes are those of the RFC; draws come from seeds with no more than the threshold behind them; no keystream is used twice |

Six more configurations, not in the list of runs, show disagreements of the
same kind (see Findings); TLC stops at each with a counterexample:
`MCTreapPriority.cfg` (module `MCTreap`), `MCPhysicalTwoEntries.cfg` and
`MCPhysicalLimit.cfg` (`MCPhysicalAlloc`), `MCHeapScan.cfg` (`MCHeap`),
`MCDevicesRoot.cfg` (`MCDevices`), `MCEntropyThreshold.cfg` (`MCEntropy`).
Two others check `MCHeap`'s properties on other instances, and TLC finds no error:
`MCHeapCourses.cfg`, with two courses of calls and four blocks, and
`MCHeapSmall.cfg`, with the same courses and a small class (`HeapIsSound`).

Bounds. A split needs one page more than is asked, carving three pieces, and a
merge three neighbours: the five pages of `MCVirtualAlloc` have room for all of
them, aligned and not. One call draws at most 15 times there (two splits or
carvings and four merges do), and `OneZeroDraw` has each of these draws; `MaxZero`
is 1, since a second priority of zero panics or refuses where the first does.
Treaps of up to four nodes have every rotation with and without the moving child,
at the root and below it. Two blocks a page and
two pages a segment are the fewest with which a page can be partly used, a
segment shared, and a class have a second page. `MaxHeld` bounds the blocks the
kernel holds; `MaxDepth` the nested calls of `alloc`, standing for the kernel
stack: the code's own TODO (`virtual_alloc.c:431`) says the nesting has no end
of its own. `LongestCourse` is the longest list of calls that
`vma_alloc_aligned` makes; the others are its parts, and `TwoCourses` adds the one
that only takes a struct.

Each property about the TLB is about one translation, so that one entry is
enough for it to be stale. Two frames are left after boot: a segment needs
both, and tables besides, so that frames run out at each allocation of a walk;
`Starts` are pages under the same and under different tables of both levels.
Five tokens are enough for two nested or two successive nodes with their ends,
for a property in each place, and for every way to end too early; the larger
trees have what does not fit (siblings, three levels, names that are taken).
`HandlersCap` is 1, where the code has 16, so that the vector grows twice. The
code has one priority of initializers; the layouts have several, as `init.h`
provides for. With blocks of three bytes and eight bytes in pieces of one, two
and four, the buffer is empty, partly full and full at every kind of call; the
sum of the counts passes `Word`, and the estimate `Estimate63`.

Symmetry is declared where it is used, in the MC modules: structs that no
property tells apart.

Fairness. The kernel has one thread of control: a function that has been called
goes on. That is weak fairness of the steps of `mm_init_physical`
(`PhysicalAlloc`), of the calls under way (`Heap`) and of `main` (`Boot` in
`Devices`). The steps of the TLB have none: the hardware need not read. Nothing says that a
caller calls again, or ever frees.

## Findings

PROJECT.json quotes the comment that each one with a run contradicts.

1. `treap_insert` tests a 32-bit random number for zero and keeps 31 bits of it
   (`PriorityIsNonZero`, `MCTreapPriority.cfg`). A VMA that is free then counts
   as one in use, is not merged and cannot be taken by address, and taking it
   otherwise fails the assert of `treap_remove` (run `MCVirtualAllocZeroPriority`).
2. `consider_physical_memory` takes the last overlapping reservation, not the
   lowest (run `MCPhysicalReserved`).
3. Every other entry of a `reg` property is skipped, `physical_alloc.c:189, 232`
   (`AllRamIsFound`, `MCPhysicalTwoEntries.cfg`).
4. A chunk that ends at 4 GiB puts an empty run on the list above
   (`RunsAreNotEmpty`, `MCPhysicalLimit.cfg`).
5. `alloc_generic`'s assert fails after all blocks of a class's only page were
   taken through `alloc_small` and freed (run `MCHeapAssert`).
6. `alloc_generic` may go on to a page that was freed while it freed the one
   before (`ScanStaysOnList`, `MCHeapScan.cfg`).
7. `iomem_map` maps a region and does not fence, and neither does
   `iomem_unmap` (run `MCPagingFence`).
8. A `/reserved-memory` node with one cell gets the upper half of each address
   and size, `devicetree.c:280, 296` (run `MCDevicesOneCell`).
9. `devicetree_enumerate` does not enumerate the root, which `devicetree.h:131`
   does not except (`RootIsEnumerated`, `MCDevicesRoot.cfg`).
10. `random.c:29` and `54-55` reseed for every 256 bits; the code does so after
   more than 256 (`ReseededAtThreshold`, `MCEntropyThreshold.cfg`).

Besides, `treap_remove` does not keep the heap order of the treaps: it rotates
the left child up whatever its priority. `MCTreap` shows that the searches do
not depend on it; only the depth of the tree does.

Seen while modelling, in code that no run contradicts:

* `iomem_map` returns the start of the first page, without the offset that the
  device's address has in it; `RegionsAreCovered` is about the pages. When it
  fails it keeps its VMA.
* An error inside a node other than the root makes the parser call
  `devicetree_free` on it, whose assert panics (`devicetree.c:208, 462`).
* `realloc` to a huge size panics in `size_class_of_size` (`alloc.c:163`,
  `size_classes.h:102`), which `alloc_generic` calls only for sizes that are not
  huge; `realloc` to a smaller class copies more than fits.

## Proofs

`VirtualAllocProofs` proves, for every range `[Lo, Hi)`, every alignment, every
set of structs (finite or not), whether or not the heap is scarce, and whichever
draws leave a priority of zero (`ZeroDraws`, `MaxZero`):

* `TypeCorrectness`, `PartitionTheorem`, `CoalescedTheorem`,
  `StructuresAgreeTheorem`: the invariants of `MCVirtualAlloc`;
* `HeldIsStableTheorem`: the action property of that run.

The assumption is `ConstantsAssumption`, and nothing else (but for `NoPanic` and
`Refinement`, below). `Coalesced` is about `is_vma_free`, the test of the priority:
it says nothing of a free VMA of priority zero, which the code does not merge.
None of the invariants is inductive alone: that two VMAs do not overlap is kept by
`vma_merge` only because neighbours in the list are neighbours in the address
space, which is kept only because the links are inverse, and so on. `IInv` is
their conjunction with the type invariant. The order of the list is stated
locally (`Chained`: each VMA starts where the one before it ends, `Head`
standing for both ends of the range), so that no step of the proof needs
induction over the list. `Partition` is part of the invariant itself rather
than a consequence of `Chained`, since deriving it would take that induction.
For each operator there is a lemma on what it does to a record that satisfies
the invariant (`SplitLemma`, `MergeLemma`, `CarveLemma`, ...); carving breaks the
tiling in the middle of the call, and `UnlinkLemma` and `InsertUsedLemma` state
the invariant with a hole.
`ListHeadProofs` has the facts about links that they rest on.

It also proves `NoPanicTheorem`, from one more assumption,
`EnoughStructs`: the heap has at least as many structs as the range has pages
(`NoPanic` itself assumes that the heap never refuses one it has). It is about the
time before a draw leaves a priority of zero; after that the code panics, as
finding 1 says. Until then no panic happens, in any call. The asserts of
`treap_remove`, `vma_merge` and `vma_free` hold because `is_vma_free` is then
membership of `BY_SIZE`, and the treaps agree with the list. `vma_alloc` needs a
struct for the remainder of the VMA it cuts: VMAs start at different pages, and one
of several pages starts at only the first of them, so there are fewer VMAs than
pages and a struct is left (`RoomForOne`; with `RoomForTwo` for a range cut out of
the middle). `vma_alloc_aligned` asserts that
the range it has just given back can be taken again: no VMA in use has a page of
the range, and since free neighbours are merged one free VMA holds all of it
(`UnusedIsInOneVma`).

Last comes `Refinement`: `VirtualAlloc` implements
`AddressSpace` (`ImplementsAddressSpace`), from `EnoughStructs` too (otherwise a
heap that does not refuse could run out without the abstract specification
allowing it). `AddressSpace` has a flag, `unlucky`, that is set once a priority is
zero: from then on it may refuse what would fit, or stop, but still grants vacant
ranges only. The ranges of
`AddressSpace` are the VMAs in use. A grant is the abstract one because the range
cut out was inside a free VMA, hence, by the tiling, vacant; a refusal before the
flag is set is allowed because a gap that fits would lie in one free VMA (`UnusedIsInOneVma`, from
coalescing), and both searches find such a VMA; every other step changes no VMA in
use, which is a stutter.

`TreapProofs` proves the four invariants of `MCTreap` (`LinksAgreeTheorem`,
`HoldsMembersTheorem`, `FindIsRightTheorem`, `BestFitIsRightTheorem`), for any
finite set of structs, all values and sizes and every width of the random numbers.
The inductive invariant is `Inv`: the treap is a search tree of its members, the
other structs are idle, and in `BY_ADDR` the members do not overlap. That it is a
tree (`Tree(t, M, sub)`) is said without induction: a set `sub[v]` for each member
stands for the nodes of its subtree, which are `v` and those of its two children,
apart from each other. A rotation changes two of these sets (`RotateTree`), hanging
a leaf adds it to those of the nodes above (`HangTree`), unhooking one takes it
out (`UnhookTree`). The order is weak on both sides, `<=` to the left and to the
right, since a rotation moves equal values to the right of a node although
`treap_insert` goes left for them; that both searches are right all the same is
what the theorems say. The loops are treated by `LoopInvariant`. A node that
is rotated up gets a larger subtree with every turn, one that is rotated down a
smaller one, and a search goes to a smaller one; no subtree has more nodes than
there are structs, so all loops end (`SiftUpTree`, `SiftDownTree`, `DescendPlace`,
`FindTree`, `FitTree`). The searches carry what they have left behind: no VMA there
holds the address (`Finding`), or none is better than the best so far (`Fitting`).
Nothing is assumed of the priorities, which decide only where rotations stop: the
theorems hold also for the priority zero of finding 1 and for the order that
`treap_remove` leaves. `TreapConstants` is all that is assumed.

`HeapProofs` proves of the heap, for every number of segments, pages, blocks and
classes, every bound on the nesting of calls and every set of calls that the VMA
allocator may make: `TypeCorrect`, `NoBlockTwice`
(`BlocksAccounted`), `NoPageLost` (`PagesAccounted`), `FullIsFull`
(`FullPagesAreFull`) and `Soundness` (`HeapIsSound`, the conjunction of these). The assumptions are
`HeapConstants` and `VmaCalls`. Two conjuncts of the first are worth naming: a
page that is not huge has at least two blocks (true of every class in
`size_classes.h`; with one block, a page on `full_pages` that gets it back would be
empty and full at once), and segments are not the model's names of list heads.

The inductive invariant `IInv` says that there are two sets of pages, `I` in use
and `U` unused, such that the lists have exactly these pages (`Lists`: the list of
each head has the pages whose fields say so, links are inverse, pages in neither
set are self-linked), each page's blocks are split into taken, free and local
(`PageOK`), `used_pages` counts `I` (`Counted`), full pages are full, `pages_direct`
points into `I`; and that the stack is well formed (`StackOK`: a waiting call of
alloc is below a call of the VMA allocator, realloc is at the bottom and its old
block is still held). `PagesAccounted` alone is not inductive: it does not say that
an unused page is on no other list, nor that the only block that realloc is about
to free is still taken. In the middle of `page_free`, `segment_free` and
`page_new_small` there are pages in neither state; `Sound` has a third set for
them, and the operations of `page.c` and `segment.c` have a lemma each about it.
`OnList`, the pages that following a list visits, is defined without recursion
(`ListOf` in `ListHead`: the nodes that every set closed under `next` must have), so
that `list_push` and `list_remove` can be proved to add and remove one node
(`PushLemma`, `RemoveFromLists`). The loops of `segment_init_small`, `segment_free`
and `heap_init` are recursive functions; the proofs show by induction over the
number of turns (`SetInduction`) that they have the values which the recursion
says, then a loop invariant. That the boot segment has a page for each entry of
`pages_direct` is counting: `NDirect <= PagesPer`.

Nothing is proved about the scan's stale pointer: `ScanLost` ends the model
there, and `NoAssertFails` and `ScanStaysOnList` are false (findings 5 and 6).

`PagingProofs` proves the invariants of `MCPaging`, for every radix of the tables,
every set of frames and of devices, every size of segments and of the TLB and
every choice of VMAs: `TypeCorrect`, `OneUse` (`FramesHaveOneUse`), `Mappings`
(`MappingsAreThoseAsked`), `Covered` (`RegionsAreCovered`), `AssertsHold`
(`NoAssertFails`) and `InTime` (`FencesAreInTime`). The assumptions, all on
constants and evaluated by TLC on the instance of the run: `PagingConstants`;
`FramesAssumption`, that each frame but the root is once in `BootFrames` or
`FreeFrames`; `RegionsAssumption`, that regions are not empty and lie on device
pages; `BootAssumption`, that the boot stub has reserved exactly the frames
that its tables and the boot segment need, as `generate_bootstub.py` does.

The inductive invariant `IInv` has four parts, and holds after an out-of-memory
panic too.

* `Good`: there is a level for each frame (`lvl`: 3 the root, 2 and 1 the tables
  below it, 0 a mapped page, 4 outside) and a parent for each frame of the tree
  (`par`), such that every entry of a table is empty, or leads one level down to a
  frame whose parent it is, or maps a device from the lowest level (`Graph`); the
  frames of level 4 are those on the free list, once each, and those that the
  call holds (`FreeOK`). `FramesHaveOneUse` alone is not inductive: it does not say
  that a link leads down, so that a walk might come to a page of data.
* `Owned`: VMAs are apart, and each belongs to one segment, one region or the call
  under way. `NoAssertFails` needs it: `mm_paging_map` meets no valid entry only
  because nobody else has mapped a page of the call's VMA.
* `Content`: an access finds what the owner of the address has mapped so far, and
  nothing elsewhere.
* `TlbOK`: a kept translation to a frame is the present one, or the frame is on the
  free list and the call is `segment_free`, which has yet to fence; inside a
  segment it is the present one.

`MapLemma`, `UnmapLemma`, `AllocLemma` and `FreeLemma` say what the operations do to
a memory that is `Good` and to what an access finds at each address; they rest on
two facts about one entry (`Graph` after a store that links a frame from outside
the tree, and after one that clears a leaf) and on the arithmetic of the three
indices (`VpnFacts`: two addresses with the same indices are the same). The memory
that the boot stub makes is `Good` by induction over its pages (`SetInduction`).
That a step of `mm_paging_map` which runs out of frames after it has linked a table
leaves everything in order is part of `MapLemma`.

`PhysicalAllocProofs` proves, for every page size, every place of the 4 GiB limit
and of the end of the address space (`PhysicalConstants`):

* `TypeCorrect`, of all boards: links are frames, and no run or held frame reaches
  beyond the end of the address space (`TypeInv`, the inductive form of `TypeOK`:
  a pop makes a header in the second frame of a run, which must be a frame);
* `FreeLists` (`FreeListsSound`), `Reservations` (what findings 2 to 4 refute on
  other boards) and `Refinement` (`ImplementsFrameAllocator`), if all boards are
  supported (`SupportedBoards`).

The invariant is `Inv`. Its core is `IsFree(P, F)`: there is a set of headers for
each list such that following the list from its head stays in the set, visits all
of it and comes to no header twice (`Chain`), runs are not empty, apart and on
their side of the limit (`RunsOK`), and the frames in them are `F` (`Holds`).
`FreeListsSound` alone is not inductive: it says nothing of the links that a pop
uncovers. `ReachedLemma` shows that the bounded loop of `Reached` finds all the
headers, by counting them. During the boot `F` is `Found(board, node, start)`, the
usable frames of the nodes that are done and those of the current node below
`start`; no usable frame lies across `start` (`Clean`), so that a chunk rounded
inwards loses none. A bump skips only reserved frames (`BumpLemma`); `LastOverlap`
is the lowest reservation above `start` because the order is descending
(`UptoLemma`), so that the frames of a chunk are exactly the next usable ones
(`NextFound`). That the array holds every reservation follows from the assert of
`reserved_memory_to_array`: half of each reg is read, so that the count is right
only if no reg has a second entry (`HalfLemma`, `ArrayLemma`).

`EntropyProofs` proves, for all lengths of blocks and keys, widths of words,
thresholds and bounds that `EntropyConstants` allows:

* `HashesTheorem` (`HashesAreRight`): the pool, `blake2s_hash` and `blake2b_hash`
  give the hash that RFC 7693 defines. `HasRead(h, keyed, x)` says what a hasher is
  after it has read the bytes `x`: it has compressed the full blocks of `x` and
  keeps the rest in its buffer, which is empty only if `x` is, so that the last
  block is still there to be final. Every turn of `blake2s_update` keeps it, and
  `blake2s_finish` makes `Reference` of it. What a loop does after any number of
  turns is shown by induction over a set of numbers (`SetInduction`: the theorems
  of `NaturalsInduction` take an operator, which the provers cannot instantiate).
* `SeededTheorem` (`DrawsAreSeeded`): each seed is the hash of the bytes since the
  seed before it, keyed by that seed (`SeedsInv`), so every byte is found by
  following keys; and the generator's estimate is the credit at the last seed
  (`CreditInv`), from which `should_reinit` decides. The generator's has one bit
  less than the pool's (`Estimate63`): after a wrap it is too low, which means a
  reseed too many and never one too few.
* `DrawnOnceTheorem` (`NothingIsDrawnTwice`) from one more assumption, `ShortDraws`:
  no draw has so many bytes that the counter of the keystream comes round.
  `getrandom` does not test it; the ASSUME of `MCEntropy` evaluates it on the
  run's instance. The property is not inductive, since it says nothing of
  the states between two seeds. `DrawInv` lists all states the generator has used,
  each a seed or the lower half of the block made from the one before it, and all
  different: a state that came back, or a seed, which is keyed by the seed before
  it, would mean that the one before it had come back earlier. Every block handed
  out has the upper half of one of these states as its key.

`DevicesProofs` proves, for every set of structure blocks, tables of
reservations and layouts of initializers, wherever memory runs out:

* `NothingLeaksTheorem` (`NothingLeaks`) and `LinksAgreeTheorem` (`LinksAgree`),
  from `DtInv`. The invariant adds to the two that the parent pointers and the
  lists of children are a tree whose nodes have higher numbers than their parents
  (`Links`), that no two properties have the same number (`Apart`; otherwise
  freeing one would free another's objects), that no object is newer than
  `fresh`, and where `node` may be (`Placed`: `devicetree_free` may only end when
  no node is left). The loop over the properties of `/reserved-memory` is by
  induction over its turns (`ReservedLoop`).
* `AcceptsWellFormedTheorem` (`AcceptsWellFormed`) and `TreeIsWhatWasReadTheorem`
  (`TreeIsWhatWasRead`), from `ReadInv`. Both properties speak of whole
  blocks, the parser keeps only `current_node` and two flags. `At` says what these
  tell of the tokens read so far: `current_node` is the object of the token that
  encloses the next (`Encloser`), and it is there exactly if more nodes have begun
  than ended; `Scan` that each token so far was in its place; `Built` that each has
  its node or property. That `current_node = parent` finds the enclosing token
  again is `EnclosedEnd`, which needs the nesting depth of every token between.
* `DriversAreRegisteredTheorem` (`DriversAreRegistered`), from `DriversInv`.
  A turn of `sort_initializers` is an exchange, which keeps the bag of
  initializers (`ExchangeBag`) and puts a least one in its place (`SwappedFacts`);
  the recursive functions of the model are determined by their equations
  (`SortRuns`, `TakeRuns`).
* `DevicesAreAccountedForTheorem` (`DevicesAreAccountedFor`) and
  `LeavesEveryNodeTheorem` (`LeavesEveryNode`), from `DevicesInv`.
  `devicetree_enumerate` has no stack; what a stack would hold is in the invariant
  as a set `A`, the path from the root to the current node. `Along` says that of
  the nodes on the path none has been left but the current one, nor any sibling
  behind them: so no node is left twice, and `device_add` gets each
  at most once, which is why what a failing handler frees is its own. `Sofar` says
  that every sibling ahead of the path has been left; back at the root, nothing is
  missing (`AllAreLeft`: the lowest node that was not left would have a parent that
  was).

The assumptions are `DevicetreeConstants` and `DevicesConstants`, that is: `NULL` is
no number, the tokens of a blob are a sequence, and the initializers have a
function and a priority each.

Only model-checked:

* `EnumeratesAll` but for `LeavesEveryNode`: that the order of the walk is
  `PostOrder`, which folds over lists of children, and that handlers are tried in
  the order of registration, which selects from sequences, take induction over
  data;
* `ReservationsAreAdded`: the names of its nodes are made of numbers by `ToString`,
  of which the provers know nothing;
* liveness (both `BootEnds`, `CallsReturn`), which is out of the prover's reach.

## Not modelled

* Printing (`print.c`), `swar.h`, symbol lookup: pure functions without state,
  about text and bits.
* The rounds of BLAKE2 and ChaCha20, and `chacha20_encrypt`, which only a
  self-test calls.
* `devicetree_print`, and the bytes under the tokens of a blob.
* `ns16550a`'s `write_byte`, which polls the device.
* The arithmetic of size classes (`size_classes.h`) and the XOR encoding of
  free list pointers (`mm/alloc/block.c`); remote frees, which the code does
  not have.
* The heap together with the VMA allocator's own state: `Heap` takes any course
  of calls that the allocator may make, which is more than it does. Composed,
  the two are out of TLC's reach on instances where both do something.
* Assembly, the build, the firmware images.

## Plan

1. `SizeClasses`: the functions of `size_classes.h` and `heap.h` against their
   definition.
