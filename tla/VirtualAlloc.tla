---------------------------- MODULE VirtualAlloc ----------------------------
(***************************************************************************)
(* The virtual memory allocator, mm/virtual_alloc.c.                       *)
(*                                                                         *)
(* The state of a `struct vma_allocator' and of the `struct vma's it       *)
(* reaches is one record A:                                                *)
(*    list    the links of allocator->vmas and of every vma->list_head;    *)
(*    addr    treaps[BY_ADDR].value of every struct, as a page number;     *)
(*    size    treaps[BY_SIZE].value + 1 of every struct, in pages;         *)
(*    byAddr  the structs in the treap roots[BY_ADDR];                     *)
(*    bySize  the structs in the treap roots[BY_SIZE], the free VMAs;      *)
(*    heap    the structs that the kernel heap has handed out;             *)
(*    zero    the <<treap, struct>> inserted with a priority of zero;      *)
(*    draws   which of the draws to come in this call, counted from 1,     *)
(*            leave a priority of zero;                                    *)
(*    failed  an assert of this call has failed.                           *)
(* The lists are kept down to the pointer (module ListHead).  A treap is   *)
(* kept as the set of its nodes: module Treap models rotations, the order  *)
(* of priorities and the two search loops.  Of a priority only whether it  *)
(* is zero is kept: treap_insert draws until random_u32 is not zero, but   *)
(* stores the low 31 bits of it only (virtual_alloc.c:217-221), is_vma_free *)
(* takes a VMA of priority zero for one in use, and treap_remove asserts   *)
(* that there is none.  The C functions are operators that return the      *)
(* record after the call, or the set of the outcomes [a, vma] a call may   *)
(* have: the record after it and the struct it returns.                    *)
(***************************************************************************)
EXTENDS Integers, FiniteSets, ListHead

CONSTANTS Vma,          \* the memory the kernel heap has for structs
          Head,         \* the list_head of the allocator itself
          Lo, Hi,       \* lo_address and hi_address, in pages
          Align,        \* 1 << (align_bits - 12) of vma_alloc_aligned
          NULL,         \* nullptr
          PANIC,        \* the outcome of a call that does not return
          ZeroDraws,    \* the sets of draws that may leave a priority of
                        \* zero in one call: {{}} if none ever does
          MaxZero       \* no more draws do once there are so many

ASSUME ConstantsAssumption ==
    /\ Lo \in Nat /\ Hi \in Nat /\ Lo < Hi
    /\ Align \in Nat \ {0}
    /\ Vma # {} /\ Head \notin Vma
    /\ NULL \notin Vma /\ PANIC \notin Vma /\ NULL # PANIC
    /\ {} \in ZeroDraws /\ ZeroDraws \subseteq SUBSET (Nat \ {0})
    /\ MaxZero \in Nat

VARIABLES kva,          \* kernel_virtual_allocator, the record A above
          held,         \* the VMAs that callers hold
          ret,          \* the last call that returned: its name, size, result
          panicked,     \* the kernel has panicked
          scarce        \* alloc(sizeof(struct vma)) may return nullptr

vars == <<kva, held, ret, panicked, scarce>>

Node == Vma \cup {Head}
-----------------------------------------------------------------------------
(* Calls to the kernel heap.                                               *)

(* alloc(sizeof(struct vma)): some struct nobody uses, or nullptr.         *)
StructAlloc(A) ==
    {[a |-> [A EXCEPT !.heap = @ \cup {v}], vma |-> v] : v \in Vma \ A.heap}
      \cup {o \in {[a |-> A, vma |-> NULL]} : scarce \/ Vma \subseteq A.heap}

(* The values of v in both treaps: it covers [lo, hi). *)
SetBounds(A, v, lo, hi) ==
    [A EXCEPT !.addr = [@ EXCEPT ![v] = lo], !.size = [@ EXCEPT ![v] = hi - lo]]

(* free(v).  The contents of a freed struct no longer matter: they are     *)
(* reset so that no two states differ only in them.                        *)
StructFree(A, v) == [SetBounds(A, v, Lo, Lo + 1) EXCEPT !.heap = @ \ {v}]
-----------------------------------------------------------------------------
(* assert(cond).  What a call computes after a failed assert is void. *)
asserted(A, cond) == [A EXCEPT !.failed = @ \/ ~cond]

(* v joins or leaves the treap. *)
Joins(A, v, which) == IF which = "BY_ADDR" THEN [A EXCEPT !.byAddr = @ \cup {v}]
                                           ELSE [A EXCEPT !.bySize = @ \cup {v}]
Leaves(A, v, which) == IF which = "BY_ADDR" THEN [A EXCEPT !.byAddr = @ \ {v}]
                                            ELSE [A EXCEPT !.bySize = @ \ {v}]

(* One draw, and the others move up. *)
treap_insert(A, v, which) ==
    [Joins(A, v, which) EXCEPT
        !.zero  = IF 1 \in A.draws THEN @ \cup {<<which, v>>} ELSE @,
        !.draws = {k - 1 : k \in @ \ {1}}]

(* assert(treap->priority). *)
treap_remove(A, v, which) ==
    asserted(Leaves(A, v, which), <<which, v>> \notin A.zero)

vma_hi(A, v) == A.addr[v] + A.size[v]

(* The priority in the treap BY_SIZE is not zero. *)
is_vma_free(A, v) == v \in A.bySize /\ <<"BY_SIZE", v>> \notin A.zero

vma_init(A, lo, hi, v) ==
    [SetBounds(A, v, lo, hi) EXCEPT !.list = LIST_INIT(@, v)]

(* Links a VMA for [lo, hi) after prev, and into the treap BY_ADDR. *)
InsertUsed(A, prev, v, lo, hi) ==
    treap_insert([vma_init(A, lo, hi, v) EXCEPT !.list = list_unshift(@, prev, v)],
                 v, "BY_ADDR")

(* The same, and into the treap BY_SIZE as well. *)
InsertFree(A, prev, v, lo, hi) ==
    treap_insert(InsertUsed(A, prev, v, lo, hi), v, "BY_SIZE")

EmptyAllocator ==
    [list   |-> [prev |-> [x \in Node |-> x], next |-> [x \in Node |-> x]],
     addr   |-> [x \in Vma |-> Lo],
     size   |-> [x \in Vma |-> 1],
     byAddr |-> {}, bySize |-> {}, heap |-> {},
     zero   |-> {}, draws |-> {}, failed |-> FALSE]

(* vma_allocator_init, once its alloc has returned v. *)
vma_allocator_init(v, draws) ==
    LET A == vma_init([EmptyAllocator EXCEPT !.heap = {v}, !.draws = draws], Lo, Hi, v)
    IN  treap_insert(treap_insert([A EXCEPT !.list = list_push(@, Head, v)],
                                  v, "BY_ADDR"), v, "BY_SIZE")

(* The search of the treap BY_ADDR: the VMA that contains addr.            *)
vma_find(A, addr) == CHOOSE v \in A.byAddr : A.addr[v] <= addr /\ addr < vma_hi(A, v)

(* An exact fit is passed over. *)
FitsStrictly(A, n) == {v \in A.bySize : n < A.size[v]}

(* The search of the treap BY_SIZE: the smallest free VMAs that fit.       *)
Fits(A, n) == {v \in A.bySize : n <= A.size[v]}

best_fit(A, n) == {v \in Fits(A, n) : \A w \in Fits(A, n) : A.size[v] <= A.size[w]}

(* vma loses all but its first n pages and is no longer free. *)
Shrink(A, vma, n) ==
    SetBounds(treap_remove(A, vma, "BY_SIZE"), vma, A.addr[vma], A.addr[vma] + n)

(* Split with the new VMA one page too low. *)
SplitOverlapping(A, vma, n, new_vma) ==
    InsertFree(Shrink(A, vma, n), vma, new_vma, A.addr[vma] + n - 1, vma_hi(A, vma))

(* vma keeps its first n pages; new_vma takes the others, is free and      *)
(* follows it.                                                             *)
Split(A, vma, n, new_vma) ==
    InsertFree(Shrink(A, vma, n), vma, new_vma, A.addr[vma] + n, vma_hi(A, vma))

(* Without a struct for the remainder, the whole VMA is handed out. *)
AllocFrom_unsplit(A, vma, n) ==
    IF A.size[vma] = n
    THEN {[a |-> treap_remove(A, vma, "BY_SIZE"), vma |-> vma]}
    ELSE {IF s.vma = NULL THEN [a |-> treap_remove(A, vma, "BY_SIZE"), vma |-> vma]
          ELSE [a |-> Split(s.a, vma, n, s.vma), vma |-> vma] : s \in StructAlloc(A)}

(* The VMA is resized before there is a struct for the remainder. *)
AllocFrom_shrinks_first(A, vma, n) ==
    IF A.size[vma] = n
    THEN {[a |-> treap_remove(A, vma, "BY_SIZE"), vma |-> vma]}
    ELSE {IF s.vma = NULL THEN [a |-> Shrink(A, vma, n), vma |-> PANIC]
          ELSE [a |-> Split(s.a, vma, n, s.vma), vma |-> vma] : s \in StructAlloc(A)}

(* Without a struct for the remainder, vma_alloc panics (its TODO). *)
AllocFrom(A, vma, n) ==
    IF A.size[vma] = n
    THEN {[a |-> treap_remove(A, vma, "BY_SIZE"), vma |-> vma]}
    ELSE {IF s.vma = NULL THEN [a |-> A, vma |-> PANIC]
          ELSE [a |-> Split(s.a, vma, n, s.vma), vma |-> vma] : s \in StructAlloc(A)}

vma_alloc(A, num_pages) ==
    IF Fits(A, num_pages) = {} THEN {[a |-> A, vma |-> NULL]}
    ELSE UNION {AllocFrom(A, v, num_pages) : v \in best_fit(A, num_pages)}
-----------------------------------------------------------------------------
(* v leaves the list and both treaps. *)
Unlink(A, v) ==
    treap_remove(treap_remove([A EXCEPT !.list = list_remove(@, v)], v, "BY_ADDR"),
                 v, "BY_SIZE")

(* A free VMA gets a new upper bound, and a new place in the treap BY_SIZE. *)
Resize(A, vma, hi) ==
    treap_insert(SetBounds(treap_remove(A, vma, "BY_SIZE"), vma, A.addr[vma], hi),
                 vma, "BY_SIZE")

(* vma_merge that leaves next in the list. *)
vma_merge_still_linked(A, vma) ==
    LET next == A.list.next[vma]
        B    == treap_remove(treap_remove(A, next, "BY_ADDR"), next, "BY_SIZE")
    IN  Resize(StructFree(B, next), vma, vma_hi(A, next))

(* vma_merge that reads vma's successor again when it frees it. *)
vma_merge_frees_another(A, vma) ==
    LET next == A.list.next[vma]
        B    == Unlink(asserted(A, is_vma_free(A, vma) /\ is_vma_free(A, next)), next)
    IN  Resize(StructFree(B, B.list.next[vma]), vma, vma_hi(A, next))

(* Merges vma with its successor, which leaves every structure and is      *)
(* freed; vma takes over its pages.                                        *)
vma_merge(A, vma) ==
    LET next == A.list.next[vma]
        B    == asserted(A, is_vma_free(A, vma) /\ is_vma_free(A, next))
    IN  Resize(StructFree(Unlink(B, next), next), vma, vma_hi(A, next))

(* vma_free without its last two lines. *)
vma_free_forward_only(A, vma) ==
    LET B    == treap_insert(A, vma, "BY_SIZE")
        next == A.list.next[vma]
    IN  IF next # Head /\ is_vma_free(B, next) THEN vma_merge(B, vma) ELSE B

(* prev and next are read before either merge. *)
vma_free(A, vma) ==
    LET prev == A.list.prev[vma]
        next == A.list.next[vma]
        B    == treap_insert(asserted(A, ~is_vma_free(A, vma)), vma, "BY_SIZE")
        C    == IF next # Head /\ is_vma_free(B, next) THEN vma_merge(B, vma) ELSE B
    IN  IF prev # Head /\ is_vma_free(C, prev) THEN vma_merge(C, prev) ELSE C
-----------------------------------------------------------------------------
(* [lo, hi) is cut out of vma, which leaves every structure and comes back *)
(* with the new bounds; new_hi and new_lo, where there is anything left    *)
(* above and below, take the rest.                                         *)
Carve(A, vma, lo, hi, new_lo, new_hi) ==
    LET vmaLo == A.addr[vma]
        vmaHi == vma_hi(A, vma)
        prev  == A.list.prev[vma]
        B == Unlink(A, vma)
        C == IF new_hi = NULL THEN B ELSE InsertFree(B, prev, new_hi, hi, vmaHi)
        D == InsertUsed(C, prev, vma, lo, hi)
    IN  IF new_lo = NULL THEN D ELSE InsertFree(D, prev, new_lo, vmaLo, lo)

(* A struct for one side of the cut, which may not be needed. *)
StructAllocIf(needed, A) == IF needed THEN StructAlloc(A) ELSE {[a |-> A, vma |-> NULL]}

(* The fail label without its frees: a struct is leaked. *)
CarveOutcomes_leaking(A, vma, lo, hi) ==
    LET needLo == A.addr[vma] # lo
        needHi == vma_hi(A, vma) # hi
    IN  UNION {{IF (needLo /\ l.vma = NULL) \/ (needHi /\ h.vma = NULL)
                THEN [a |-> h.a, vma |-> NULL]
                ELSE [a |-> Carve(h.a, vma, lo, hi, l.vma, h.vma), vma |-> vma]
                : h \in StructAllocIf(needHi, l.a)} : l \in StructAllocIf(needLo, A)}

(* Both structs are allocated before anything changes; when one cannot be, *)
(* the other is freed again and the allocator is as it was.                *)
CarveOutcomes(A, vma, lo, hi) ==
    LET needLo == A.addr[vma] # lo
        needHi == vma_hi(A, vma) # hi
    IN  UNION {{IF (needLo /\ l.vma = NULL) \/ (needHi /\ h.vma = NULL)
                THEN [a |-> A, vma |-> NULL]
                ELSE [a |-> Carve(h.a, vma, lo, hi, l.vma, h.vma), vma |-> vma]
                : h \in StructAllocIf(needHi, l.a)} : l \in StructAllocIf(needLo, A)}

(* vma_alloc_by_addr without its test of the highest address. *)
vma_alloc_by_addr_unbounded(A, lo, hi) ==
    LET vma == vma_find(A, lo)
    IN  IF ~is_vma_free(A, vma) THEN {[a |-> A, vma |-> NULL]}
        ELSE CarveOutcomes(A, vma, lo, hi)

vma_alloc_by_addr(A, lo, hi) ==
    LET vma == vma_find(A, lo)
    IN  IF ~is_vma_free(A, vma) \/ vma_hi(A, vma) < hi
        THEN {[a |-> A, vma |-> NULL]}
        ELSE CarveOutcomes(A, vma, lo, hi)

align_up(addr) == (addr + (Align - 1)) - ((addr + (Align - 1)) % Align)

(* The second attempt without the room to align in. *)
AlignedWithin_no_slack(A, num_pages) ==
    UNION {IF q.vma \in {NULL, PANIC} THEN {q}
           ELSE LET addr == align_up(q.a.addr[q.vma])
                IN  {IF r.vma = NULL THEN [a |-> r.a, vma |-> PANIC] ELSE r :
                       r \in vma_alloc_by_addr(vma_free(q.a, q.vma), addr, addr + num_pages)}
           : q \in vma_alloc(A, num_pages)}

(* A larger VMA is found and released, and the aligned part of it taken by *)
(* address; assert(vma) panics when that fails.                            *)
AlignedWithin(A, num_pages) ==
    UNION {IF q.vma \in {NULL, PANIC} THEN {q}
           ELSE LET addr == align_up(q.a.addr[q.vma])
                IN  {IF r.vma = NULL THEN [a |-> r.a, vma |-> PANIC] ELSE r :
                       r \in vma_alloc_by_addr(vma_free(q.a, q.vma), addr, addr + num_pages)}
           : q \in vma_alloc(A, num_pages + Align)}

(* The first attempt may happen to be aligned; if not it is given back. *)
vma_alloc_aligned(A, num_pages) ==
    UNION {IF o.vma \in {NULL, PANIC} THEN {o}
           ELSE IF o.a.addr[o.vma] % Align = 0 THEN {o}
           ELSE AlignedWithin(vma_free(o.a, o.vma), num_pages)
           : o \in vma_alloc(A, num_pages)}
-----------------------------------------------------------------------------
(* The kernel's calls.                                                     *)

(* The allocator as a call finds it: draws says which of its draws leave a *)
(* priority of zero, and a call is asked to make all of these draws.       *)
Start(draws) == [kva EXCEPT !.draws = draws]

(* The allocator as a call leaves it.  A call whose assert failed stops in *)
(* the middle: of what it did only the priorities that failed it are kept. *)
Left(A) == IF A.failed THEN [kva EXCEPT !.zero = A.zero] ELSE [A EXCEPT !.draws = {}]

(* A call that panics does not return, and no other call follows. *)
Finish(o, call, n) ==
    /\ o.a.draws = {}
    /\ kva' = Left(o.a)
    /\ IF o.a.failed \/ o.vma = PANIC
       THEN panicked' = TRUE /\ UNCHANGED <<held, ret>>
       ELSE /\ held' = IF o.vma = NULL THEN held ELSE held \cup {o.vma}
            /\ ret' = <<call, n, IF o.vma = NULL THEN NULL ELSE o.a.addr[o.vma]>>
            /\ UNCHANGED panicked
    /\ UNCHANGED scarce

Alloc(n, draws) ==
    ~panicked /\ \E o \in vma_alloc(Start(draws), n) : Finish(o, "vma_alloc", n)

AllocAligned(n, draws) ==
    ~panicked /\ \E o \in vma_alloc_aligned(Start(draws), n) :
                    Finish(o, "vma_alloc_aligned", n)

AllocByAddr(lo, hi, draws) ==
    ~panicked /\ \E o \in vma_alloc_by_addr(Start(draws), lo, hi) :
                    Finish(o, "vma_alloc_by_addr", hi - lo)

Free(v, draws) ==
    LET A == vma_free(Start(draws), v)
    IN  /\ ~panicked /\ A.draws = {}
        /\ kva' = Left(A)
        /\ IF A.failed
           THEN panicked' = TRUE /\ UNCHANGED <<held, ret>>
           ELSE /\ held' = held \ {v}
                /\ ret' = <<"vma_free", kva.size[v], kva.addr[v]>>
                /\ UNCHANGED panicked
        /\ UNCHANGED scarce

(* _panic_halt spins for ever. *)
Halt == panicked /\ UNCHANGED vars

Init == /\ \E v \in Vma, draws \in ZeroDraws :
              kva = [vma_allocator_init(v, draws) EXCEPT !.draws = {}]
        /\ held = {}
        /\ ret = <<"init">>
        /\ panicked = FALSE
        /\ scarce \in BOOLEAN

(* What the draws of the next call may be. *)
Chances == IF Cardinality(kva.zero) < MaxZero THEN ZeroDraws ELSE {{}}

Next == \/ \E draws \in Chances :
              \/ \E n \in 1..(Hi - Lo) : Alloc(n, draws) \/ AllocAligned(n, draws)
              \/ \E lo \in Lo..(Hi - 1) : \E hi \in (lo + 1)..(Hi + 1) :
                    AllocByAddr(lo, hi, draws)
              \/ \E v \in held : Free(v, draws)
        \/ Halt

Spec == Init /\ [][Next]_vars
-----------------------------------------------------------------------------
(* Properties.  Each is stated of a record A first, for the proofs.        *)

AllocatorType ==
    [list   : LinkType(Node),
     addr   : [Vma -> Lo..(Hi - 1)],
     size   : [Vma -> 1..(Hi - Lo)],
     byAddr : SUBSET Vma, bySize : SUBSET Vma, heap : SUBSET Vma,
     zero   : SUBSET ({"BY_ADDR", "BY_SIZE"} \X Vma),
     draws  : SUBSET (Nat \ {0}), failed : BOOLEAN]

(* The fields of the allocator stay within their types, and no VMA of the  *)
(* allocator ends beyond hi_address; between calls no draw is pending.     *)
TypeOK == /\ kva \in AllocatorType
          /\ \A v \in kva.byAddr : vma_hi(kva, v) <= Hi
          /\ kva.draws = {} /\ ~kva.failed
          /\ held \subseteq Vma
          /\ panicked \in BOOLEAN /\ scarce \in BOOLEAN

NoOverlap(A) == \A v, w \in A.byAddr :
                   v # w => vma_hi(A, v) <= A.addr[w] \/ vma_hi(A, w) <= A.addr[v]

Covered(A) == \A p \in Lo..(Hi - 1) :
                 \E v \in A.byAddr : A.addr[v] <= p /\ p < vma_hi(A, v)

(* "No two VMAs in the allocator overlap" and "All operations preserve the *)
(* total area covered by VMAs" (virtual_alloc.c:40-41): whatever sequence  *)
(* of splits, carvings and merges, every page is in exactly one VMA.       *)
Partition == NoOverlap(kva) /\ Covered(kva)

CoalescedIn(A) ==
    \A v \in A.bySize : is_vma_free(A, v) => ~is_vma_free(A, A.list.next[v])

(* vma_free merges with both neighbours, and no other operation leaves two *)
(* free VMAs side by side: where two are, one of them was inserted with a  *)
(* priority of zero, and is_vma_free takes it for one in use.              *)
Coalesced == CoalescedIn(kva)

(* Where the VMA x ends, and where it starts: the list's head stands for   *)
(* the end of what lies below Lo, and for the start of what lies above Hi. *)
EndOf(A, x)   == IF x = Head THEN Lo ELSE vma_hi(A, x)
StartOf(A, x) == IF x = Head THEN Hi ELSE A.addr[x]

(* The list is in address order, without a hole from Lo to Hi. *)
Chained(A) == \A x \in A.byAddr \cup {Head} : StartOf(A, A.list.next[x]) = EndOf(A, x)

Agree(A) == /\ Linked(A.list, A.byAddr \cup {Head})
            /\ Chained(A)
            /\ A.bySize \subseteq A.byAddr
            /\ A.heap = A.byAddr

(* The three data structures hold the same VMAs, the list in the order of  *)
(* their addresses (virtual_alloc.c:26-36); what callers hold is what is   *)
(* not in the free treap; no struct is leaked and none is used after free. *)
StructuresAgree == Agree(kva) /\ held = kva.byAddr \ kva.bySize

(* A call never moves, resizes or releases a VMA that somebody else holds. *)
HeldIsStable ==
    [][\A v \in held \cap held' :
          kva'.addr[v] = kva.addr[v] /\ kva'.size[v] = kva.size[v]]_vars

(* While the heap has memory for structs, and until a draw has left a      *)
(* priority of zero, no call panics: the asserts of treap_remove (line 270 *)
(* of virtual_alloc.c), vma_merge (608-609) and vma_free (632) hold, and so *)
(* does that of vma_alloc_aligned (523), because what it released is still *)
(* free when it carves the aligned part out of it.                         *)
NoPanic == ~scarce /\ kva.zero = {} => ~panicked

(* The assert of treap_remove (virtual_alloc.c:270) and the others hold    *)
(* while the heap has memory: "The priority [...] is normally non-zero     *)
(* when the VMA is in the treap" (virtual_alloc.c:96-98).  They do not.    *)
AssertsHold == ~scarce => ~panicked

(* The allocator implements AddressSpace, which has no VMA structs at all: *)
(* it grants unused ranges only, aligned where asked, and until a draw has *)
(* left a priority of zero it refuses a request only when no gap could     *)
(* have met it.                                                            *)
Abstract == INSTANCE AddressSpace WITH
                used    <- {<<kva.addr[v], vma_hi(kva, v)>> : v \in held},
                unlucky <- kva.zero # {}
ImplementsAddressSpace == Abstract!Spec
=============================================================================
