-------------------------------- MODULE Heap --------------------------------
(***************************************************************************)
(* The kernel heap of one hart: mm/alloc.c, mm/alloc/heap.c, page.c and    *)
(* segment.c.                                                              *)
(*                                                                         *)
(* A segment holds PagesPer pages of small objects, or one page of large   *)
(* objects, or one huge object.  The heap's state is one record H:         *)
(*    list       the links of pages[], unused_pages, full_pages and of     *)
(*               every page (module ListHead);                             *)
(*    free       the blocks in the free list of every page, and            *)
(*    local      those in its local_free list;                             *)
(*    used       used_blocks;   class  size_class;   full  in_full_list;   *)
(*    direct     pages_direct: one entry for each class that has entries;  *)
(*    kind       what every segment is used for, by its page_shift;        *)
(*    usedPages  used_pages of every segment.                              *)
(* Blocks are freed by the hart that owns them: the code panics on remote  *)
(* frees, so that remote_free_length is 0 and delayed_free is nullptr.     *)
(*                                                                         *)
(* The heap gets its segments from the virtual memory allocator, which     *)
(* keeps its struct vma's in the heap: segment_alloc and segment_free      *)
(* call back alloc and free while a call is under way.  The calls that     *)
(* have not returned are in the variable stack, innermost first.           *)
(***************************************************************************)
EXTENDS Integers, Sequences, FiniteSets, ListHead

CONSTANTS Seg,          \* the segments that fit in the kernel's memory
          BootSeg,      \* boothart_heap_segment
          PagesPer,     \* 64
          Block,        \* the blocks of a page
          HugeBlock,    \* the only block of a page for a huge object
          NDirect,      \* the classes below it are in pages_direct (8)
          NSmall,       \* the classes below it are small (11)
          NClasses,     \* the classes below it are valid (17)
          VmaClass,     \* the class of sizeof(struct vma)
          AllocCalls,   \* the calls vma_alloc_aligned may make, see below
          FreeCalls,    \* the calls vma_free may make
          MaxHeld,      \* the blocks that the kernel holds at a time
          MaxDepth      \* the calls of alloc that the kernel stack has room for

ASSUME HeapConstants ==
    /\ IsFiniteSet(Seg) /\ BootSeg \in Seg
    /\ Seg \cap {"pages", "unused_pages", "full_pages"} = {}
    /\ IsFiniteSet(Block) /\ Cardinality(Block) > 1 /\ HugeBlock \notin Block
    /\ PagesPer \in Nat /\ NDirect \in Nat /\ NSmall \in Nat /\ NClasses \in Nat
    /\ 0 < NDirect /\ NDirect <= NSmall /\ NSmall <= NClasses /\ NDirect <= PagesPer
    /\ VmaClass \in 0..(NDirect - 1)
    /\ MaxHeld \in Nat /\ MaxDepth \in Nat \ {0}

VARIABLES H,            \* the heap
          held,         \* the blocks that the kernel holds, as <<page, block>>
          vmas,         \* the blocks that hold a struct vma
          stack,        \* the calls under way
          panic         \* "no", or why the kernel has panicked

vars == <<H, held, vmas, stack, panic>>

HUGE  == NClasses       \* SIZE_CLASS_HUGE_SENTINEL
Class == 0..HUGE
Page  == Seg \X (0..(PagesPer - 1))

PagesHead(c) == <<"pages", c>>
UnusedHead   == <<"unused_pages", 0>>
FullHead     == <<"full_pages", 0>>
Heads        == {PagesHead(c) : c \in Class} \cup {UnusedHead, FullHead}

SegOf(page) == page[1]

AnyBlock == Block \cup {HugeBlock}

(* The pages on a list of the heap. *)
OnList(head) == ListOf(H.list, head, Page)
-----------------------------------------------------------------------------
(* Pages and segments.                                                     *)

page_is_empty(h, page) == h.used[page] = 0

(* page_free_pop and used_blocks++. *)
Pop(h, page, b) == [h EXCEPT !.free[page] = @ \ {b}, !.used[page] = @ + 1]

(* Points the pages_direct entries of the class at its first page. *)
heap_update_pages_direct(h, c) ==
    IF c < NDirect THEN [h EXCEPT !.direct[c] = h.list.next[PagesHead(c)]] ELSE h

(* The metadata of a page, as bzero leaves it. *)
Zero(h, page) == [h EXCEPT !.list = LIST_INIT(@, page), !.free[page] = {},
                           !.local[page] = {}, !.used[page] = 0,
                           !.class[page] = 0, !.full[page] = FALSE]

heap_push_unused_page(h, page) ==
    [Zero(h, page) EXCEPT !.list = list_push(@, UnusedHead, page)]

segment_init_small(h, s) ==
    LET push[i \in 0..PagesPer] ==
          IF i = 0 THEN [h EXCEPT !.kind[s] = "small", !.usedPages[s] = 0]
                   ELSE heap_push_unused_page(push[i - 1], <<s, i - 1>>)
    IN  push[PagesPer]

(* segment_init_large and segment_init_huge. *)
segment_init_single(h, s, kind) ==
    [Zero(h, <<s, 0>>) EXCEPT !.kind[s] = kind, !.usedPages[s] = 0]

(* page_init_common, the blocks on the free list, and the page at the end  *)
(* of its class's list.                                                    *)
page_init(h, page, c) ==
    heap_update_pages_direct(
       [h EXCEPT !.list = list_push(@, PagesHead(c), page),
                 !.free[page] = IF c = HUGE THEN {HugeBlock} ELSE Block,
                 !.local[page] = {}, !.used[page] = 0,
                 !.class[page] = c, !.full[page] = FALSE], c)

(* The part of page_new_small that needs no segment. *)
page_new_small(h, c) ==
    LET page == h.list.next[UnusedHead]
    IN  page_init([h EXCEPT !.list = list_shift(@, UnusedHead),
                            !.usedPages[SegOf(page)] = @ + 1], page, c)

(* page_new_large and page_new_huge, once they have a segment. *)
page_new_single(h, s, c) ==
    LET kind == IF c = HUGE THEN "huge" ELSE "large"
    IN  [page_init(segment_init_single(h, s, kind), <<s, 0>>, c)
            EXCEPT !.usedPages[s] = @ + 1]

(* The pages leave unused_pages, and the segment its address range.        *)
segment_free(h, s) ==
    LET drop[i \in 0..PagesPer] ==
          IF i = 0 THEN [h EXCEPT !.kind[s] = "none"]
          ELSE LET g == drop[i - 1]
                   page == <<s, i - 1>>
               IN  IF list_is_empty(g.list, page) THEN Zero(g, page)
                   ELSE Zero([g EXCEPT !.list = list_remove(@, page)], page)
    IN  drop[PagesPer]

(* Frees the only page of a class as well. *)
KeepsPage_never(h, page) == FALSE

(* The only page on its list is kept for the sake of pages_direct. *)
KeepsPage(h, page) ==
    h.class[page] < NDirect /\ h.list.prev[page] = h.list.next[page]

FreesSegment(h, page) == ~KeepsPage(h, page) /\ h.usedPages[SegOf(page)] = 1

(* page_free that leaves pages_direct alone. *)
page_free_stale_direct(h, page) ==
    IF KeepsPage(h, page) THEN h
    ELSE LET g == [h EXCEPT !.list = list_remove(@, page),
                            !.usedPages[SegOf(page)] = @ - 1]
         IN  IF FreesSegment(h, page) THEN segment_free(g, SegOf(page))
                                      ELSE heap_push_unused_page(g, page)

page_free(h, page) ==
    IF KeepsPage(h, page) THEN h
    ELSE LET g == heap_update_pages_direct(
                     [h EXCEPT !.list = list_remove(@, page),
                               !.usedPages[SegOf(page)] = @ - 1], h.class[page])
         IN  IF FreesSegment(h, page) THEN segment_free(g, SegOf(page))
                                      ELSE heap_push_unused_page(g, page)

page_local_free_push(h, page, b) ==
    [h EXCEPT !.local[page] = @ \cup {b}, !.used[page] = @ - 1]

(* The page goes back to the list of its class. *)
Unfill(h, page) ==
    [h EXCEPT !.list = list_push(list_remove(@, page), PagesHead(h.class[page]), page),
              !.full[page] = FALSE]

(* page_collect that keeps local_free as well. *)
page_collect_keeps_local(h, page) ==
    IF h.free[page] # {} THEN h ELSE [h EXCEPT !.free[page] = h.local[page]]

page_collect(h, page) ==
    IF h.free[page] # {} THEN h
    ELSE [h EXCEPT !.free[page] = h.local[page], !.local[page] = {}]

(* Moves a page without free blocks to full_pages. *)
Fill(h, page) ==
    [h EXCEPT !.list = list_push(list_remove(@, page), FullHead, page),
              !.full[page] = TRUE]
-----------------------------------------------------------------------------
(* Calls.  A call of alloc that scans, or waits for a segment; a call of   *)
(* the virtual memory allocator, with the calls of alloc and free that it  *)
(* has left to make.                                                       *)

Top == Head(stack)

Scan(c, page_head)  == [f |-> "scan", class |-> c, page_head |-> page_head]
Wait(c)             == [f |-> "wait", class |-> c]
SegmentAlloc(todo)  == [f |-> "segment_alloc", todo |-> todo]
SegmentFree(todo)   == [f |-> "segment_free", todo |-> todo]
Realloc(c, old)     == [f |-> "realloc", class |-> c, old |-> old]

InVma == stack # <<>> /\ Top.f \in {"segment_alloc", "segment_free"}

(* All the calls that vma_alloc_aligned can make: a split takes a struct,  *)
(* giving the VMA back frees it, and carving takes up to two.              *)
AllAllocCalls ==
    LET TryAndUndo == {<<>>, <<"alloc", "free">>}
        Carving    == {<<>>, <<"alloc">>, <<"alloc", "alloc">>}
    IN  {x \o y \o z : x \in TryAndUndo, y \in TryAndUndo, z \in Carving}

(* vma_free merges with up to two neighbours, and frees their structs. *)
AllFreeCalls == {<<>>, <<"free">>, <<"free", "free">>}

ASSUME VmaCalls == /\ AllocCalls \subseteq AllAllocCalls
                   /\ FreeCalls \subseteq AllFreeCalls

Panic(why) == panic' = why /\ UNCHANGED <<H, held, vmas, stack>>

(* The calls that remain when alloc has returned to realloc: the kernel    *)
(* has both blocks until the old one is freed, or only the old one.        *)
AfterRealloc(rest, block) ==
    IF rest = <<>> \/ block = {} THEN <<>> ELSE <<[Head(rest) EXCEPT !.f = "realloc_free"]>>

(* A call of alloc returns to rest, the calls that remain.  The kernel     *)
(* holds the block, or the virtual memory allocator, which panics without  *)
(* one.                                                                    *)
Return(h, rest, block) ==
    /\ H' = h
    /\ IF rest = <<>> \/ Head(rest).f = "realloc"
       THEN /\ held' = held \cup block
            /\ stack' = AfterRealloc(rest, block)
            /\ UNCHANGED <<vmas, panic>>
       ELSE /\ vmas' = vmas \cup block
            /\ stack' = <<[Head(rest) EXCEPT !.todo = Tail(@)]>> \o Tail(rest)
            /\ panic' = IF block = {} THEN "out of memory" ELSE panic
            /\ UNCHANGED held

(* The caller of alloc: the kernel, or the virtual memory allocator.       *)
Caller(c) == \/ stack = <<>>
             \/ stack # <<>> /\ Top.f = "realloc" /\ c = Top.class
             \/ InVma /\ c = VmaClass /\ Top.todo # <<>> /\ Head(Top.todo) = "alloc"

(* alloc_small: the page of pages_direct has a free block. *)
alloc_small(c) ==
    /\ panic = "no" /\ Caller(c) /\ c < NDirect
    /\ \E b \in H.free[H.direct[c]] :
          Return(Pop(H, H.direct[c], b), stack, {<<H.direct[c], b>>})

(* segment_alloc starts with vma_alloc_aligned. *)
Grow(c, rest) ==
    /\ \E todo \in AllocCalls : stack' = <<SegmentAlloc(todo), Wait(c)>> \o rest
    /\ UNCHANGED <<H, held, vmas, panic>>

Depth == Len(SelectSeq(stack, LAMBDA fr : fr.f \in {"scan", "wait"}))

(* alloc_generic: huge objects need a segment, others a scan of the pages  *)
(* of the class.                                                           *)
alloc_generic(c) ==
    /\ panic = "no" /\ Caller(c)
    /\ c < NDirect => H.free[H.direct[c]] = {}
    /\ IF Depth = MaxDepth THEN Panic("stack overflow")
       ELSE IF c = HUGE THEN Grow(c, stack)
       ELSE /\ stack' = <<Scan(c, H.list.next[PagesHead(c)])>> \o stack
            /\ UNCHANGED <<H, held, vmas, panic>>

(* The loop advances at its end, where "continue" skips it. *)
AfterPage_skipped(page) == IF page_is_empty(H, page) THEN page ELSE H.list.next[page]

(* The next page of the scan, which the loop reads before it does anything *)
(* with this one.                                                          *)
AfterPage(page) == H.list.next[page]

(* One turn of the loop of alloc_generic.  It keeps the next page while    *)
(* page_free runs, which may call back free.                               *)
ScanPage ==
    /\ panic = "no" /\ stack # <<>> /\ Top.f = "scan"
    /\ Top.page_head \in OnList(PagesHead(Top.class))
    /\ LET page == Top.page_head
           h    == page_collect(H, page)
           rest == <<Scan(Top.class, AfterPage(page))>> \o Tail(stack)
       IN  IF page_is_empty(H, page)
           THEN /\ H' = page_free(H, page)
                /\ IF FreesSegment(H, page)
                   THEN \E todo \in FreeCalls : stack' = <<SegmentFree(todo)>> \o rest
                   ELSE stack' = rest
                /\ UNCHANGED <<held, vmas, panic>>
           ELSE IF h.free[page] # {}
           THEN \E b \in h.free[page] : Return(Pop(h, page, b), Tail(stack), {<<page, b>>})
           ELSE /\ H' = Fill(h, page)
                /\ stack' = rest
                /\ UNCHANGED <<held, vmas, panic>>

(* page_head is a page that has left the list meanwhile: its metadata are  *)
(* those of an unused page, or no longer mapped.  The loop is lost, and    *)
(* the model does not follow it.                                           *)
ScanLost ==
    /\ panic = "no" /\ stack # <<>> /\ Top.f = "scan"
    /\ Top.page_head \notin OnList(PagesHead(Top.class)) \cup {PagesHead(Top.class)}
    /\ Panic("lost")

(* The end of the loop: the assert of alloc_generic, and a new page.       *)
ScanEnd ==
    /\ panic = "no" /\ stack # <<>> /\ Top.f = "scan"
    /\ Top.page_head = PagesHead(Top.class)
    /\ LET c == Top.class
           h == page_new_small(H, c)
           page == H.list.next[UnusedHead]
       IN  IF ~list_is_empty(H.list, PagesHead(c)) THEN Panic("assert")
           ELSE IF c < NSmall /\ ~list_is_empty(H.list, UnusedHead)
           THEN \E b \in h.free[page] : Return(Pop(h, page, b), Tail(stack), {<<page, b>>})
           ELSE Grow(c, Tail(stack))

(* segment_alloc returns, and with it the call of alloc that waits for it. *)
(* While there is address space left it finds a segment; when it runs out  *)
(* of frames it panics (its TODO).                                         *)
GrowEnd ==
    /\ panic = "no" /\ stack # <<>> /\ Top.f = "segment_alloc" /\ Top.todo = <<>>
    /\ LET c    == stack[2].class
           rest == Tail(Tail(stack))
           None == {s \in Seg : H.kind[s] = "none"}
       IN  \/ None = {} /\ Return(H, rest, {})
           \/ None # {} /\ Panic("out of memory")
           \/ \E s \in None :
                 LET h    == IF c < NSmall THEN page_new_small(segment_init_small(H, s), c)
                                           ELSE page_new_single(H, s, c)
                     page == IF c < NSmall THEN segment_init_small(H, s).list.next[UnusedHead]
                                           ELSE <<s, 0>>
                 IN  \E b \in h.free[page] : Return(Pop(h, page, b), rest, {<<page, b>>})

(* FreeBlock_keeps_full leaves a page with a free block on full_pages. *)
FreeBlock_keeps_full(h, page, b) ==
    LET g == page_local_free_push(h, page, b)
    IN  IF page_is_empty(g, page) THEN page_free(g, page) ELSE g

FreeBlock(h, page, b) ==
    LET g == page_local_free_push(h, page, b)
    IN  IF page_is_empty(g, page) THEN page_free(g, page)
        ELSE IF g.full[page] THEN Unfill(g, page)
        ELSE g

(* free(block), for the caller whose call is in rest. *)
Free(block, rest) ==
    LET page == block[1]
        g    == page_local_free_push(H, page, block[2])
    IN  /\ H' = FreeBlock(H, page, block[2])
        /\ IF page_is_empty(g, page) /\ FreesSegment(g, page)
           THEN \E todo \in FreeCalls : stack' = <<SegmentFree(todo)>> \o rest
           ELSE stack' = rest
        /\ UNCHANGED panic

KernelFree ==
    /\ panic = "no" /\ stack = <<>>
    /\ \E block \in held : Free(block, stack) /\ held' = held \ {block}
    /\ UNCHANGED vmas

(* realloc of a block to a larger class; within its class it returns the   *)
(* block itself.  The kernel only makes blocks larger.  There is no class  *)
(* of a huge size: the assert of size_class_of_size fails.                 *)
KernelRealloc ==
    /\ panic = "no" /\ stack = <<>> /\ Cardinality(held) < MaxHeld
    /\ \E old \in held, c \in Class :
          /\ c > H.class[old[1]] \/ c = HUGE
          /\ IF c = HUGE THEN Panic("huge")
             ELSE stack' = <<Realloc(c, old)>> /\ UNCHANGED <<H, held, vmas, panic>>

(* The contents have been copied: realloc frees the old block. *)
ReallocFree ==
    /\ panic = "no" /\ stack # <<>> /\ Top.f = "realloc_free"
    /\ Free(Top.old, Tail(stack))
    /\ held' = held \ {Top.old}
    /\ UNCHANGED vmas

(* vma_free and vma_alloc free a struct vma.  The address space keeps at   *)
(* least as many as there are segments: each one's VMA, and the first.     *)
VmaFree ==
    /\ panic = "no" /\ InVma /\ Top.todo # <<>> /\ Head(Top.todo) = "free"
    /\ LET rest == <<[Top EXCEPT !.todo = Tail(@)]>> \o Tail(stack)
       IN  IF Cardinality(vmas) > Cardinality({s \in Seg : H.kind[s] # "none"})
           THEN \E block \in vmas : Free(block, rest) /\ vmas' = vmas \ {block}
           ELSE stack' = rest /\ UNCHANGED <<H, vmas, panic>>
    /\ UNCHANGED held

(* segment_free returns. *)
FreeEnd ==
    /\ panic = "no" /\ InVma /\ Top.f = "segment_free" /\ Top.todo = <<>>
    /\ stack' = Tail(stack)
    /\ UNCHANGED <<H, held, vmas, panic>>

Halt == panic # "no" /\ UNCHANGED vars

(* The boot segment, with a page for each class of pages_direct. *)
heap_init ==
    LET empty == [list |-> [prev |-> [n \in Page \cup Heads |-> n],
                            next |-> [n \in Page \cup Heads |-> n]],
                  free |-> [p \in Page |-> {}], local |-> [p \in Page |-> {}],
                  used |-> [p \in Page |-> 0], class |-> [p \in Page |-> 0],
                  full |-> [p \in Page |-> FALSE],
                  direct |-> [c \in 0..(NDirect - 1) |-> <<BootSeg, 0>>],
                  kind |-> [s \in Seg |-> "none"], usedPages |-> [s \in Seg |-> 0]]
        new[c \in 0..NDirect] == IF c = 0 THEN segment_init_small(empty, BootSeg)
                                          ELSE page_new_small(new[c - 1], c - 1)
    IN  new[NDirect]

(* vma_allocator_init has taken the first struct vma. *)
Init == /\ LET page == heap_init.direct[VmaClass]
               b    == CHOOSE b \in Block : TRUE
           IN  H = Pop(heap_init, page, b) /\ vmas = {<<page, b>>}
        /\ held = {} /\ stack = <<>> /\ panic = "no"

(* The steps of a call that is under way. *)
Continue == \/ stack # <<>> /\ \E c \in Class : alloc_small(c) \/ alloc_generic(c)
            \/ ReallocFree \/ ScanPage \/ ScanLost \/ ScanEnd \/ GrowEnd \/ VmaFree \/ FreeEnd

Next == \/ \E c \in Class : /\ stack = <<>> /\ Cardinality(held) < MaxHeld
                           /\ (alloc_small(c) \/ alloc_generic(c))
        \/ KernelFree \/ KernelRealloc
        \/ Continue
        \/ Halt

(* The kernel runs with interrupts disabled: a call that is under way goes *)
(* on.                                                                     *)
Spec == Init /\ [][Next]_vars /\ WF_vars(Continue)
-----------------------------------------------------------------------------
Live == {s \in Seg : H.kind[s] # "none"}

(* The pages that can have blocks: not the unused ones. *)
PagesInUse ==
    LET unused == OnList(UnusedHead)
    IN  {p \in Page : \/ H.kind[SegOf(p)] = "small" /\ p \notin unused
                      \/ H.kind[SegOf(p)] \in {"large", "huge"} /\ p[2] = 0}

BlocksOf(page) == IF H.class[page] = HUGE THEN {HugeBlock} ELSE Block

Taken(page) == {x \in held \cup vmas : x[1] = page}

(* The fields have their types, whatever calls are under way: in           *)
(* particular pages_direct points at pages, never at the head of a list    *)
(* that page_free has emptied.                                             *)
TypeOK ==
    /\ H \in [list : LinkType(Heads \cup Page),
              free : [Page -> SUBSET AnyBlock], local : [Page -> SUBSET AnyBlock],
              used : [Page -> Nat], class : [Page -> Class], full : [Page -> BOOLEAN],
              direct : [0..(NDirect - 1) -> Page],
              kind : [Seg -> {"none", "small", "large", "huge"}],
              usedPages : [Seg -> Nat]]
    /\ held \subseteq Page \X AnyBlock /\ vmas \subseteq Page \X Block
    /\ panic \in {"no", "assert", "huge", "out of memory", "stack overflow", "lost"}

(* Every block of a page is handed out, or on exactly one of the two free  *)
(* lists; used_blocks counts those handed out; nobody holds a block of an  *)
(* unused page or of a segment that was given back.  So no block is ever   *)
(* handed out twice, and none is lost.                                     *)
BlocksAccounted ==
    LET inUse == PagesInUse
    IN  /\ held \cap vmas = {}
        /\ \A x \in held \cup vmas : x[1] \in inUse
        /\ \A p \in inUse :
              LET taken == {x[2] : x \in Taken(p)}
              IN  /\ H.free[p] \cap H.local[p] = {}
                  /\ taken \cap (H.free[p] \cup H.local[p]) = {}
                  /\ taken \cup H.free[p] \cup H.local[p] = BlocksOf(p)
                  /\ H.used[p] = Cardinality(taken)

(* A page is on the list that its fields say: unused_pages, full_pages or  *)
(* that of its class; used_pages counts those in use; pages_direct never   *)
(* points to a page of another class or to one that was freed.             *)
PagesAccounted ==
    LET inUse == PagesInUse
        full  == OnList(FullHead)
    IN  /\ Linked(H.list, Heads \cup inUse \cup OnList(UnusedHead))
        /\ \A p \in inUse :
              IF H.full[p] THEN p \in full ELSE p \in OnList(PagesHead(H.class[p]))
        /\ \A s \in Live : H.usedPages[s] = Cardinality({p \in inUse : SegOf(p) = s})
        /\ \A c \in 0..(NDirect - 1) : H.direct[c] \in inUse /\ H.class[H.direct[c]] = c

(* A page on full_pages has no free block, so that alloc_generic need not  *)
(* visit it; one that gets a block back leaves the list at once.           *)
FullPagesAreFull ==
    \A p \in OnList(FullHead) : H.free[p] = {} /\ H.local[p] = {}

(* The heap is sound: what it, the kernel and the lists have, agrees. *)
HeapIsSound == TypeOK /\ BlocksAccounted /\ PagesAccounted /\ FullPagesAreFull

(* "Check every page of the size class for free objects" (alloc.c:110):    *)
(* the position that alloc_generic keeps while page_free runs is still on  *)
(* the list that it scans.                                                 *)
ScanStaysOnList ==
    \A i \in DOMAIN stack :
       stack[i].f = "scan" => stack[i].page_head \in
            OnList(PagesHead(stack[i].class)) \cup {PagesHead(stack[i].class)}

(* "At this point, we know that none of the pages have free objects"       *)
(* (alloc.c:144): the assert that follows it holds.                        *)
NoAssertFails == panic # "assert"

(* Every call of alloc and free returns, or panics: the loop of            *)
(* alloc_generic gets past the pages that page_free keeps (page.c:221),    *)
(* and the calls that the virtual memory allocator makes come to an end.   *)
CallsReturn == []<>(stack = <<>> \/ panic # "no")
=============================================================================
