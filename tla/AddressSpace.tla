---------------------------- MODULE AddressSpace ----------------------------
(***************************************************************************)
(* What include/mm/virtual_alloc.h promises to the callers of the virtual  *)
(* memory allocator, with none of its data structures: a range of pages    *)
(* [Lo, Hi) out of which callers hold pairwise disjoint ranges.            *)
(*                                                                         *)
(* The code keeps the promise to refuse a request only if it cannot be met *)
(* as long as no random priority has become zero; then it is unlucky, for  *)
(* ever, and may refuse what it could grant, or panic.                     *)
(***************************************************************************)
EXTENDS Integers

CONSTANTS Lo, Hi,       \* the address range, in pages
          Align,        \* the alignment asked of vma_alloc_aligned, in pages
          NULL          \* the failed result

VARIABLES used,         \* the ranges <<lo, hi>> that callers hold
          ret,          \* the last call and its result
          panicked,     \* the kernel has panicked
          scarce,       \* the kernel heap may refuse memory for a struct vma
          unlucky       \* a priority of zero has been drawn

vars == <<used, ret, panicked, scarce, unlucky>>

Unused(lo, hi) ==
    /\ Lo <= lo /\ lo < hi /\ hi <= Hi
    /\ \A r \in used : hi <= r[1] \/ r[2] <= lo

(* n contiguous pages that nobody holds. *)
Gap(n) == \E lo \in Lo..(Hi - 1) : Unused(lo, lo + n)

Init == /\ used = {}
        /\ ret = <<"init">>
        /\ panicked = FALSE
        /\ scarce \in BOOLEAN
        /\ unlucky \in BOOLEAN

Grant(lo, hi) == /\ Unused(lo, hi)
                 /\ used' = used \cup {<<lo, hi>>}

(* vma_alloc fails only when no gap is large enough. *)
Allocate(n) ==
    \/ \E lo \in Lo..(Hi - 1) :
          /\ Grant(lo, lo + n)
          /\ ret' = <<"vma_alloc", n, lo>>
    \/ /\ ~Gap(n) \/ unlucky'
       /\ ret' = <<"vma_alloc", n, NULL>>
       /\ UNCHANGED used

(* vma_alloc_aligned may fail while an aligned gap exists ("spuriously"),  *)
(* but not while there is a gap that every alignment fits in.              *)
AllocateAligned(n) ==
    \/ \E lo \in Lo..(Hi - 1) :
          /\ lo % Align = 0
          /\ Grant(lo, lo + n)
          /\ ret' = <<"vma_alloc_aligned", n, lo>>
    \/ /\ ~Gap(n + Align) \/ unlucky'
       /\ ret' = <<"vma_alloc_aligned", n, NULL>>
       /\ UNCHANGED used

(* vma_alloc_by_addr grants exactly the range asked for; it fails when     *)
(* somebody holds a part of it, or for want of memory for its structs.     *)
AllocateAt(lo, hi) ==
    \/ /\ Grant(lo, hi)
       /\ ret' = <<"vma_alloc_by_addr", hi - lo, lo>>
    \/ /\ scarce \/ ~Unused(lo, hi) \/ unlucky'
       /\ ret' = <<"vma_alloc_by_addr", hi - lo, NULL>>
       /\ UNCHANGED used

Release(r) == /\ used' = used \ {r}
              /\ ret' = <<"vma_free", r[2] - r[1], r[1]>>

(* Out of memory for a struct vma, two of the calls panic; every call may, *)
(* once it is unlucky.                                                     *)
Panic == /\ scarce \/ unlucky'
         /\ panicked' = TRUE
         /\ UNCHANGED <<used, ret>>

Call == \/ \E n \in 1..(Hi - Lo) : Allocate(n) \/ AllocateAligned(n)
        \/ \E lo \in Lo..(Hi - 1) : \E hi \in (lo + 1)..(Hi + 1) : AllocateAt(lo, hi)
        \/ \E r \in used : Release(r)

Next == /\ ~panicked
        /\ unlucky => unlucky'
        /\ Panic \/ (Call /\ UNCHANGED panicked)
        /\ UNCHANGED scarce

Spec == Init /\ [][Next]_vars
=============================================================================
