------------------------------- MODULE Paging -------------------------------
(***************************************************************************)
(* Sv39 page tables (arch/riscv64/paging.c), the two users of them - the   *)
(* heap's segments (mm/alloc/segment.c) and memory-mapped IO - and the TLB *)
(* of the hart, which fills itself from the page tables at any time and    *)
(* keeps what it has read until mm_paging_fence.                           *)
(*                                                                         *)
(* Virtual and physical addresses are page numbers, except for the regions *)
(* of devices, which are in bytes.  M is the physical memory:              *)
(*    mem    the frames, as page tables;                                   *)
(*    free   the free list of mm/physical_alloc.c, of which only the order *)
(*           is modelled here (module PhysicalAlloc has the rest).         *)
(* vmas are the ranges that module AddressSpace has handed out.  A call    *)
(* that maps or unmaps works on one page at a step, and the hardware may   *)
(* read the tables between any two.                                        *)
(***************************************************************************)
EXTENDS Integers, Sequences, FiniteSets

CONSTANTS Radix,        \* the entries of a page table (512)
          PageBytes,    \* PAGE_SIZE
          Frame,        \* the frames of RAM that this module is about
          Root,         \* the frame that SATP points to
          BootFrames,   \* the frames of the boot segment and its tables
          FreeFrames,   \* the other frames, in the order they are handed out in
          Device,       \* the physical pages of devices
          Regions,      \* the device regions <<addr, size>>, in bytes
          SegPages,     \* the pages of a segment
          SegSizes,     \* the sizes segment_alloc is called with, in pages
          TlbSize,      \* the translations that the TLB can hold
          Starts,       \* the pages that VMAs start at
          NULL

ASSUME PagingConstants ==
    /\ Radix \in Nat \ {0, 1} /\ PageBytes \in Nat \ {0} /\ TlbSize \in Nat \ {0}
    /\ Starts \subseteq 0..(Radix * Radix * Radix - 1)
    /\ Root \in Frame /\ Frame \cap Device = {} /\ NULL \notin Frame \cup Device
    /\ SegPages \in Nat \ {0} /\ SegPages <= Radix * Radix * Radix
    /\ SegSizes \subseteq Nat /\ \A n \in SegSizes : n >= SegPages

(* Every frame but Root is in one of the two sequences, once. *)
ASSUME FramesAssumption ==
    LET frames == BootFrames \o FreeFrames
    IN  /\ BootFrames \in Seq(Frame \ {Root}) /\ FreeFrames \in Seq(Frame \ {Root})
        /\ \A i, j \in DOMAIN frames : i # j => frames[i] # frames[j]
        /\ \A f \in Frame \ {Root} : \E i \in DOMAIN frames : frames[i] = f

VARIABLES M,            \* physical memory: the page tables and the free list
          vmas,         \* the VMAs in use, as <<lo, hi>>
          tlb,          \* the translations that the hart has cached
          call,         \* the call under way
          segments,     \* the segments of the heap: <<lo, hi>>
          iomem,        \* what iomem_map has returned: [ptr, addr, size]
          panic         \* "no", or why the kernel has panicked

vars == <<M, vmas, tlb, call, segments, iomem, panic>>

Idx == 0..(Radix - 1)
Va  == 0..(Radix * Radix * Radix - 1)

Flags   == {"R", "W", "X", "U", "G", "A", "D"}
Pte     == [valid : BOOLEAN, ppn : Frame \cup Device \cup {NULL}, flags : SUBSET Flags]
ZeroPte == [valid |-> FALSE, ppn |-> NULL, flags |-> {}]

(* RAM that is not a page table holds anything, such as valid entries. *)
Data == [i \in Idx |-> [valid |-> TRUE, ppn |-> Root, flags |-> {"R", "W"}]]

vpn2(va) == (va \div (Radix * Radix)) % Radix
vpn1(va) == (va \div Radix) % Radix
vpn0(va) == va % Radix
-----------------------------------------------------------------------------
(* The frame allocator, external to this module.                           *)

mm_alloc_physical(m) == [m EXCEPT !.free = Tail(@)]
mm_free_physical(m, pa) == [m EXCEPT !.free = <<pa>> \o @]

(* One level of a walk, without bzero_physical. *)
Descend_dirty(m, pgtbl, i, alloc) ==
    LET pte == m.mem[pgtbl][i]
        new == Head(m.free)
    IN  IF pte.valid THEN [ok |-> TRUE, m |-> m, pgtbl |-> pte.ppn]
        ELSE IF ~alloc \/ m.free = <<>> THEN [ok |-> FALSE, m |-> m, pgtbl |-> NULL]
        ELSE [ok |-> TRUE, pgtbl |-> new,
              m |-> [mm_alloc_physical(m) EXCEPT
                        !.mem[pgtbl][i] = [valid |-> TRUE, ppn |-> new, flags |-> {}]]]

(* One level of mm_paging_walk: the table that entry i of pgtbl points to, *)
(* which is allocated, cleared and linked if there is none.                *)
Descend(m, pgtbl, i, alloc) ==
    LET pte == m.mem[pgtbl][i]
        new == Head(m.free)
    IN  IF pte.valid THEN [ok |-> TRUE, m |-> m, pgtbl |-> pte.ppn]
        ELSE IF ~alloc \/ m.free = <<>> THEN [ok |-> FALSE, m |-> m, pgtbl |-> NULL]
        ELSE [ok |-> TRUE, pgtbl |-> new,
              m |-> [mm_alloc_physical(m) EXCEPT
                        !.mem[new] = [j \in Idx |-> ZeroPte],
                        !.mem[pgtbl][i] = [valid |-> TRUE, ppn |-> new, flags |-> {}]]]

(* The level-0 table of va.  A walk that fails at the second level leaves  *)
(* the table that it has added at the first.                               *)
mm_paging_walk(m, va, alloc) ==
    LET w == Descend(m, Root, vpn2(va), alloc)
    IN  IF w.ok THEN Descend(w.m, w.pgtbl, vpn1(va), alloc) ELSE w

PermFlags == [PGPERM_KRO |-> {"G"}, PGPERM_KRW |-> {"W", "G"}, PGPERM_KRX |-> {"X", "G"},
              PGPERM_URO |-> {"U"}, PGPERM_URW |-> {"W", "U"}, PGPERM_URX |-> {"X", "U"}]

Leaf(pa, perms) ==
    [valid |-> TRUE, ppn |-> pa, flags |-> {"R", "A", "D"} \cup PermFlags[perms]]

mm_paging_map(m, va, pa, perms) ==
    LET w == mm_paging_walk(m, va, TRUE)
    IN  IF ~w.ok THEN [ret |-> "fail", m |-> w.m]
        ELSE IF w.m.mem[w.pgtbl][vpn0(va)].valid THEN [ret |-> "assert", m |-> w.m]
        ELSE [ret |-> "ok",
              m |-> [w.m EXCEPT !.mem[w.pgtbl][vpn0(va)] = Leaf(pa, perms)]]

(* Unmaps without writing the frame to *pa. *)
mm_paging_unmap_no_pa(m, va) ==
    LET w   == mm_paging_walk(m, va, FALSE)
        pte == m.mem[w.pgtbl][vpn0(va)]
    IN  IF ~w.ok THEN [ok |-> FALSE, m |-> m, pa |-> NULL]
        ELSE IF ~pte.valid THEN [ok |-> FALSE, m |-> m, pa |-> NULL]
        ELSE [ok |-> TRUE, pa |-> NULL,
              m |-> [m EXCEPT !.mem[w.pgtbl][vpn0(va)] = ZeroPte]]

(* Unmaps without clearing the entry. *)
mm_paging_unmap_keeps_pte(m, va) ==
    LET w   == mm_paging_walk(m, va, FALSE)
        pte == m.mem[w.pgtbl][vpn0(va)]
    IN  IF ~w.ok THEN [ok |-> FALSE, m |-> m, pa |-> NULL]
        ELSE IF ~pte.valid THEN [ok |-> FALSE, m |-> m, pa |-> NULL]
        ELSE [ok |-> TRUE, m |-> m, pa |-> pte.ppn]

mm_paging_unmap(m, va) ==
    LET w   == mm_paging_walk(m, va, FALSE)
        pte == m.mem[w.pgtbl][vpn0(va)]
    IN  IF ~w.ok THEN [ok |-> FALSE, m |-> m, pa |-> NULL]
        ELSE IF ~pte.valid THEN [ok |-> FALSE, m |-> m, pa |-> NULL]
        ELSE [ok |-> TRUE, pa |-> pte.ppn,
              m |-> [m EXCEPT !.mem[w.pgtbl][vpn0(va)] = ZeroPte]]

mm_paging_fence == tlb' = <<>>
-----------------------------------------------------------------------------
(* The hardware (external): what an access to va finds in the page tables. *)
(* An entry that is readable or executable ends the walk, at any level.    *)

Fault == ZeroPte

Translate(m, va) ==
    LET IsLeaf(pte) == pte.flags \cap {"R", "X"} # {}
        pte2 == m.mem[Root][vpn2(va)]
        pte1 == m.mem[pte2.ppn][vpn1(va)]
        pte0 == m.mem[pte1.ppn][vpn0(va)]
    IN  IF ~pte2.valid \/ IsLeaf(pte2) THEN pte2
        ELSE IF ~pte1.valid \/ IsLeaf(pte1) THEN pte1
        ELSE IF ~pte0.valid THEN Fault
        ELSE pte0

(* The TLB reads a translation, valid or not, at any time. *)
FillTlb ==
    /\ panic = "no"
    /\ \E va \in Va :
          LET kept == IF Len(tlb) < TlbSize THEN tlb ELSE Tail(tlb)
          IN  tlb' = Append(kept, [va |-> va, pte |-> Translate(M, va)])
    /\ UNCHANGED <<M, vmas, call, segments, iomem, panic>>
-----------------------------------------------------------------------------
(* The virtual memory allocator, external to this module.                  *)

Idle == [f |-> "none"]

Unused(lo, hi) == hi - 1 \in Va /\ \A r \in vmas : hi <= r[1] \/ r[2] <= lo

(* What vma_alloc may return; it returns nullptr when there is nothing. *)
Ranges(n, align) ==
    {<<lo, lo + n>> : lo \in {va \in Starts : va % align = 0 /\ Unused(va, va + n)}}

Covers(range, va) == range[1] <= va /\ va < range[2]

(* The VMA that vma_find returns. *)
VmaOf(va) == CHOOSE r \in vmas : Covers(r, va)

Panic(why) == panic' = why /\ UNCHANGED <<vmas, tlb, call, segments, iomem>>

Start(f, range) == call' = [f |-> f, lo |-> range[1], hi |-> range[2], va |-> range[1]]

(* The loop of the call goes on to the next page. *)
Advance == /\ call' = [call EXCEPT !.va = @ + 1]
           /\ UNCHANGED <<vmas, tlb, segments, iomem, panic>>

Looping(f) == panic = "no" /\ call.f = f /\ call.va < call.hi
Looped(f)  == panic = "no" /\ call.f = f /\ call.va = call.hi
CallRange  == <<call.lo, call.hi>>

(* segment_alloc. *)
SegmentAlloc ==
    /\ panic = "no" /\ call = Idle
    /\ \E n \in SegSizes : \E r \in Ranges(n, SegPages) :
          Start("segment_alloc", r) /\ vmas' = vmas \cup {r}
    /\ UNCHANGED <<M, tlb, segments, iomem, panic>>

(* A frame, and its mapping.  Without memory for either the kernel panics: *)
(* TODO("clean up properly from OOM").                                     *)
SegmentAllocPage ==
    /\ Looping("segment_alloc")
    /\ IF M.free = <<>> THEN Panic("out of memory") /\ UNCHANGED M
       ELSE LET pa  == Head(M.free)
                map == mm_paging_map(mm_alloc_physical(M), call.va, pa, "PGPERM_KRW")
            IN  CASE map.ret = "ok"     -> M' = map.m /\ Advance
                  [] map.ret = "assert" -> M' = map.m /\ Panic("assert")
                  [] map.ret = "fail"   -> M' = mm_free_physical(map.m, pa)
                                           /\ Panic("out of memory")

(* The end of segment_alloc without mm_paging_fence. *)
SegmentAllocEnd_no_fence ==
    /\ Looped("segment_alloc")
    /\ segments' = segments \cup {CallRange}
    /\ call' = Idle
    /\ UNCHANGED <<M, vmas, tlb, iomem, panic>>

SegmentAllocEnd ==
    /\ Looped("segment_alloc")
    /\ mm_paging_fence
    /\ segments' = segments \cup {CallRange}
    /\ call' = Idle
    /\ UNCHANGED <<M, vmas, iomem, panic>>

(* segment_free. *)
SegmentFree ==
    /\ panic = "no" /\ call = Idle
    /\ \E s \in segments : /\ Start("segment_free", VmaOf(s[1]))
                           /\ segments' = segments \ {s}
    /\ UNCHANGED <<M, vmas, tlb, iomem, panic>>

(* The frame is free before the fence. *)
SegmentFreePage ==
    /\ Looping("segment_free")
    /\ LET unmap == mm_paging_unmap(M, call.va)
       IN  IF unmap.ok THEN M' = mm_free_physical(unmap.m, unmap.pa) /\ Advance
           ELSE UNCHANGED M /\ Panic("assert")

(* The end of segment_free without mm_paging_fence. *)
SegmentFreeEnd_no_fence ==
    /\ Looped("segment_free")
    /\ vmas' = vmas \ {CallRange}
    /\ call' = Idle
    /\ UNCHANGED <<M, tlb, segments, iomem, panic>>

SegmentFreeEnd ==
    /\ Looped("segment_free")
    /\ mm_paging_fence
    /\ vmas' = vmas \ {CallRange}
    /\ call' = Idle
    /\ UNCHANGED <<M, segments, iomem, panic>>
-----------------------------------------------------------------------------
align_down(x) == x \div PageBytes
align_up(x)   == (x + PageBytes - 1) \div PageBytes

(* The pages that a region takes, without its offset in its first page. *)
IoPages_size_only(addr, size) == align_up(size)

(* The pages that a region takes from the page that addr is in. *)
IoPages(addr, size) == align_up(size + (addr - align_down(addr) * PageBytes))

(* The pages of the regions are pages of devices. *)
ASSUME RegionsAssumption ==
    \A r \in Regions : /\ r \in Nat \X (Nat \ {0})
                       /\ \A i \in 0..(IoPages(r[1], r[2]) - 1) : align_down(r[1]) + i \in Device

(* iomem_map.  Without a VMA of that size it returns nullptr at once.      *)
IomemMap ==
    /\ panic = "no" /\ call = Idle
    /\ \E r \in Regions :
          LET n == IoPages(r[1], r[2])
          IN  \/ \E range \in Ranges(n, 1) :
                    /\ call' = [f |-> "iomem_map", lo |-> range[1], hi |-> range[2],
                                va |-> range[1], region |-> r]
                    /\ vmas' = vmas \cup {range}
              \/ Ranges(n, 1) = {} /\ UNCHANGED <<call, vmas>>
    /\ UNCHANGED <<M, tlb, segments, iomem, panic>>

IomemMapPage ==
    /\ Looping("iomem_map")
    /\ LET pa  == align_down(call.region[1]) + (call.va - call.lo)
           map == mm_paging_map(M, call.va, pa, "PGPERM_KRW")
       IN  /\ M' = map.m
           /\ CASE map.ret = "ok"     -> Advance
                [] map.ret = "assert" -> Panic("assert")
                [] map.ret = "fail"   -> (* goto paging_fail *)
                      /\ call' = [f |-> "paging_fail", lo |-> call.lo, hi |-> call.va,
                                  va |-> call.lo]
                      /\ UNCHANGED <<vmas, tlb, segments, iomem, panic>>

(* The pointer is the start of the VMA, whatever the offset of addr. *)
IomemMapEnd ==
    /\ Looped("iomem_map")
    /\ iomem' = iomem \cup {[ptr |-> call.lo * PageBytes,
                             addr |-> call.region[1], size |-> call.region[2]]}
    /\ call' = Idle
    /\ UNCHANGED <<M, vmas, tlb, segments, panic>>

(* paging_fail that unmaps nothing. *)
PagingFail_keeps_pages ==
    /\ panic = "no" /\ call.f = "paging_fail"
    /\ call' = Idle
    /\ UNCHANGED <<M, vmas, tlb, segments, iomem, panic>>

(* paging_fail: the pages mapped so far are unmapped; the VMA stays.       *)
PagingFail ==
    \/ /\ Looping("paging_fail")
       /\ LET unmap == mm_paging_unmap(M, call.va)
          IN  M' = unmap.m /\ IF unmap.ok THEN Advance ELSE Panic("assert")
    \/ /\ Looped("paging_fail")
       /\ call' = Idle
       /\ UNCHANGED <<M, vmas, tlb, segments, iomem, panic>>

(* iomem_unmap. *)
IomemUnmap ==
    /\ panic = "no" /\ call = Idle
    /\ \E io \in iomem : /\ Start("iomem_unmap", VmaOf(align_down(io.ptr)))
                         /\ iomem' = iomem \ {io}
    /\ UNCHANGED <<M, vmas, tlb, segments, panic>>

(* The loop of iomem_unmap stops before the last page. *)
IomemUnmapPage_skips_last ==
    /\ Looping("iomem_unmap")
    /\ LET unmap == mm_paging_unmap(M, call.va)
       IN  IF call.va = call.hi - 1 THEN UNCHANGED M /\ Advance
           ELSE M' = unmap.m /\ IF unmap.ok THEN Advance ELSE Panic("assert")

IomemUnmapPage ==
    /\ Looping("iomem_unmap")
    /\ LET unmap == mm_paging_unmap(M, call.va)
       IN  M' = unmap.m /\ IF unmap.ok THEN Advance ELSE Panic("assert")

IomemUnmapEnd ==
    /\ Looped("iomem_unmap")
    /\ vmas' = vmas \ {CallRange}
    /\ call' = Idle
    /\ UNCHANGED <<M, tlb, segments, iomem, panic>>

Halt == panic # "no" /\ UNCHANGED vars
-----------------------------------------------------------------------------
(* The tables that generate_bootstub.py makes: the boot segment, in pages  *)
(* of its own.  What the image brings is clear, the rest of RAM is not.    *)
EmptyMemory ==
    [mem  |-> [f \in Frame |-> IF \E i \in DOMAIN FreeFrames : FreeFrames[i] = f THEN Data
                              ELSE [i \in Idx |-> ZeroPte]],
     free |-> BootFrames]

BootMapPage(m, va) == mm_paging_map(mm_alloc_physical(m), va, Head(m.free), "PGPERM_KRW")

BootMemory[n \in 0..SegPages] ==
    IF n = 0 THEN EmptyMemory ELSE BootMapPage(BootMemory[n - 1], n - 1).m

(* The boot stub has reserved as many frames as it needs. *)
ASSUME BootAssumption ==
    /\ \A n \in 0..(SegPages - 1) : /\ BootMemory[n].free # <<>>
                                    /\ BootMapPage(BootMemory[n], n).ret # "fail"
    /\ BootMemory[SegPages].free = <<>>

Init == /\ M = [mem |-> BootMemory[SegPages].mem, free |-> FreeFrames]
        /\ vmas = {<<0, SegPages>>} /\ segments = {<<0, SegPages>>}
        /\ iomem = {} /\ tlb = <<>> /\ call = Idle /\ panic = "no"

Next == \/ FillTlb
        \/ SegmentAlloc \/ SegmentAllocPage \/ SegmentAllocEnd
        \/ SegmentFree \/ SegmentFreePage \/ SegmentFreeEnd
        \/ IomemMap \/ IomemMapPage \/ IomemMapEnd \/ PagingFail
        \/ IomemUnmap \/ IomemUnmapPage \/ IomemUnmapEnd
        \/ Halt

Spec == Init /\ [][Next]_vars
-----------------------------------------------------------------------------
IoRange(io) == LET lo == align_down(io.ptr) IN <<lo, lo + IoPages(io.addr, io.size)>>

(* The pages that the call under way has mapped. *)
Mapping == IF call.f \in {"segment_alloc", "iomem_map"} THEN <<call.lo, call.va>>
           ELSE IF call.f = "none" THEN <<0, 0>> ELSE <<call.va, call.hi>>

(* The frames that a valid entry of the page tables leads to, as pairs of  *)
(* the frame and the entry.                                                *)
References ==
    LET Entries(t) == {<<M.mem[t][i].ppn, <<t, i>>>> : i \in {j \in Idx : M.mem[t][j].valid}}
        level1 == Entries(Root)
        level0 == UNION {Entries(r[1]) : r \in level1}
        pages  == UNION {Entries(r[1]) : r \in level0}
    IN  [tables |-> level1 \cup level0, pages |-> pages]

TypeOK ==
    /\ M.mem \in [Frame -> [Idx -> Pte]] /\ M.free \in Seq(Frame)
    /\ vmas \subseteq Va \X Nat /\ segments \subseteq Va \X Nat
    /\ \A i \in DOMAIN tlb : tlb[i] \in [va : Va, pte : Pte]
    /\ call = Idle \/ call.va \in call.lo..call.hi
    /\ panic \in {"no", "assert", "out of memory"}

(* Every frame has one use: it is free, or a page table that exactly one   *)
(* entry points to, or mapped at exactly one address.  So no frame is ever *)
(* both a page table and memory of the heap, none is mapped twice, and     *)
(* none is lost, whatever the calls that failed or are under way (the      *)
(* tables that a walk leaves behind are still linked).                     *)
FramesHaveOneUse ==
    LET refs   == References
        free   == {M.free[i] : i \in DOMAIN M.free}
        tables == {r[1] : r \in refs.tables} \cup {Root}
        mapped == {r[1] : r \in refs.pages} \cap Frame
    IN  panic = "no" =>
        /\ Cardinality(free) = Len(M.free)
        /\ free \cap tables = {} /\ free \cap mapped = {} /\ tables \cap mapped = {}
        /\ Frame = free \cup tables \cup mapped
        /\ \A r1, r2 \in refs.tables \cup refs.pages :
              (r1[1] = r2[1] /\ r1[1] \in Frame) => r1[2] = r2[2]

(* What the hardware finds in the tables is what the calls have asked for: *)
(* a page of a segment is kernel read-write memory, a page of a device     *)
(* region is the device's page, so that the pages from the VMA's start     *)
(* cover the whole region; and everything else faults, the VMAs that       *)
(* iomem_map leaves behind when it fails included.                         *)
MappingsAreThoseAsked ==
    panic = "no" =>
    \A va \in Va :
       LET pte == Translate(M, va)
       IN  IF \E s \in segments : Covers(s, va)
           THEN pte.ppn \in Frame /\ pte = Leaf(pte.ppn, "PGPERM_KRW")
           ELSE IF \E io \in iomem : Covers(IoRange(io), va)
           THEN \E io \in iomem : 
                   /\ Covers(IoRange(io), va)
                   /\ pte = Leaf(align_down(io.addr) + (va - align_down(io.ptr)), "PGPERM_KRW")
           ELSE pte # Fault => Covers(Mapping, va)

(* Every byte of a mapped region is in a page that belongs to it. *)
RegionsAreCovered ==
    \A io \in iomem :
       LET first == align_down(io.addr)
           last  == align_down(io.addr + io.size - 1)
           lo    == align_down(io.ptr)
       IN  panic = "no" => \A p \in first..last : Translate(M, lo + (p - first)).ppn = p

(* The asserts of mm_paging_map (line 157), segment_free and iomem_unmap   *)
(* hold: an address that is handed out is never still mapped, and one that *)
(* is given back is, although the VMAs are freed after the pages.          *)
NoAssertFails == panic # "assert"

(* segment_free gives frames back before mm_paging_fence, while the TLB    *)
(* may still translate to them.  By the time a call returns no translation *)
(* leads to a frame that the page tables do not map at that address, so    *)
(* that nobody writes to a frame that was given to somebody else; and a    *)
(* new page table is never such a frame.                                   *)
NoStaleFrames ==
    \A i \in DOMAIN tlb :
       LET t == tlb[i]
       IN  (panic = "no" /\ t.pte.ppn \in Frame /\ t.pte # Translate(M, t.va)) =>
              /\ call.f = "segment_free"
              /\ \E j \in DOMAIN M.free : M.free[j] = t.pte.ppn

(* A segment that segment_alloc has returned can be used at once: although *)
(* the TLB may have kept that its pages were not mapped, or what was       *)
(* mapped there for a device that iomem_unmap has not fenced.              *)
SegmentsHaveTakenEffect ==
    \A i \in DOMAIN tlb :
       (panic = "no" /\ \E s \in segments : Covers(s, tlb[i].va)) =>
          tlb[i].pte = Translate(M, tlb[i].va)

(* The fences of segment_alloc and segment_free come in time. *)
FencesAreInTime == NoStaleFrames /\ SegmentsHaveTakenEffect

(* "This function may not take effect immediately -- call mm_paging_fence  *)
(* to wait until it has taken effect" (paging.h:62): what iomem_map has    *)
(* returned can be used, and leads to the device.                          *)
IomemHasTakenEffect ==
    \A i \in DOMAIN tlb :
       (panic = "no" /\ \E io \in iomem : Covers(IoRange(io), tlb[i].va)) =>
          tlb[i].pte = Translate(M, tlb[i].va)
=============================================================================
