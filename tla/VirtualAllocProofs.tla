-------------------------- MODULE VirtualAllocProofs --------------------------
(***************************************************************************)
(* The data structures of mm/virtual_alloc.c are sound in every reachable  *)
(* state, for every address range, alignment and number of structs,        *)
(* whether or not the kernel heap refuses memory, and whichever draws      *)
(* leave a priority of zero.                                               *)
(*                                                                         *)
(* Several functions take a VMA out of the list and put VMAs back one by   *)
(* one.  Holed(A, p, lo, hi) is what is true in between: everything but    *)
(* [lo, hi), right after the node p, is tiled by the VMAs of the list.     *)
(* Removing a VMA opens a hole, InsertUsed fills the top of one, and an    *)
(* allocator whose hole is empty is sound.                                 *)
(***************************************************************************)
(* VirtualAlloc comes after FiniteSetTheorems, which brings in the Head of  *)
(* Sequences: Head is a node here.                                         *)
EXTENDS FiniteSetTheorems, VirtualAlloc, ListHeadProofs

(* An assert fails only after a draw has left a priority of zero. *)
Blamed(A) == A.failed => A.zero # {}

(* B is A later in the same call: what has gone wrong remains so. *)
Later(A, B) == A.zero \subseteq B.zero /\ (A.failed => B.failed)

Holed(A, p, lo, hi) ==
    /\ A \in AllocatorType /\ Blamed(A)
    /\ Linked(A.list, A.byAddr \cup {Head})
    /\ A.bySize \subseteq A.byAddr
    /\ p \in A.byAddr \cup {Head}
    /\ lo \in Int /\ hi \in Int /\ Lo <= lo /\ lo <= hi /\ hi <= Hi
    /\ \A x \in A.byAddr \cup {Head} :
          x # p => StartOf(A, A.list.next[x]) = EndOf(A, x)
    /\ EndOf(A, p) = lo
    /\ StartOf(A, A.list.next[p]) = hi
    /\ NoOverlap(A)
    /\ \A v \in A.byAddr : vma_hi(A, v) <= lo \/ hi <= A.addr[v]
    /\ \A q \in Lo..(Hi - 1) :
          q < lo \/ hi <= q =>
             \E v \in A.byAddr : A.addr[v] <= q /\ q < vma_hi(A, v)

(* The VMAs in the list tile the range; a call that is under way may have  *)
(* allocated structs that are not in the list yet.                         *)
Tiled(A) == /\ A \in AllocatorType /\ Blamed(A)
            /\ Linked(A.list, A.byAddr \cup {Head})
            /\ Chained(A)
            /\ A.bySize \subseteq A.byAddr
            /\ NoOverlap(A)
            /\ Covered(A)

(* The VMAs that is_vma_free takes for free. *)
FreeVmas(A) == {v \in A.bySize : is_vma_free(A, v)}

(* What holds between two calls.  A call whose assert has failed does not  *)
(* return: what it would do next may leave free VMAs side by side.         *)
Sound(A) == Tiled(A) /\ A.heap = A.byAddr /\ (A.failed \/ CoalescedIn(A))

(* The VMAs that are not free. *)
Used(A) == A.byAddr \ A.bySize

(* B differs from A in free VMAs only. *)
SameUsed(A, B) == \A w \in Used(A) \cap Used(B) : B.addr[w] = A.addr[w] /\ B.size[w] = A.size[w]

IInv == /\ Sound(kva)
        /\ held = Used(kva)
        /\ kva.draws = {} /\ ~kva.failed
        /\ panicked \in BOOLEAN /\ scarce \in BOOLEAN
-----------------------------------------------------------------------------
(* The fields of an allocator record have their types. *)
LEMMA FieldTypes ==
    ASSUME NEW A \in AllocatorType
    PROVE  /\ A.list \in LinkType(Node)
           /\ A.addr \in [Vma -> Lo..(Hi - 1)] /\ A.size \in [Vma -> 1..(Hi - Lo)]
           /\ A.byAddr \in SUBSET Vma /\ A.bySize \in SUBSET Vma /\ A.heap \in SUBSET Vma
           /\ A.zero \in SUBSET ({"BY_ADDR", "BY_SIZE"} \X Vma)
           /\ A.draws \in SUBSET (Nat \ {0}) /\ A.failed \in BOOLEAN
BY DEF AllocatorType

(* The draws that are left after one of them. *)
LEMMA DrawsLemma ==
    ASSUME NEW D \in SUBSET (Nat \ {0})
    PROVE  {k - 1 : k \in D \ {1}} \in SUBSET (Nat \ {0})
OBVIOUS

(* What treap_insert changes: the treap, and perhaps the zero priorities. *)
LEMMA InsertBySize ==
    ASSUME NEW A \in AllocatorType, NEW v \in Vma,
           NEW B, B = treap_insert(A, v, "BY_SIZE")
    PROVE  /\ B \in AllocatorType
           /\ B.list = A.list /\ B.addr = A.addr /\ B.size = A.size
           /\ B.byAddr = A.byAddr /\ B.bySize = A.bySize \cup {v} /\ B.heap = A.heap
           /\ B.failed = A.failed
           /\ Later(A, B) /\ (Blamed(A) => Blamed(B))
<1> DEFINE Z == IF 1 \in A.draws THEN A.zero \cup {<<"BY_SIZE", v>>} ELSE A.zero
           D == {k - 1 : k \in A.draws \ {1}}
           S == A.bySize \cup {v}
<1>1. /\ Z \in SUBSET ({"BY_ADDR", "BY_SIZE"} \X Vma) /\ A.zero \subseteq Z
      /\ D \in SUBSET (Nat \ {0}) /\ S \in SUBSET Vma
  BY FieldTypes, DrawsLemma
<1>2. B = [A EXCEPT !.bySize = S, !.zero = Z, !.draws = D]
  <2>1. Joins(A, v, "BY_SIZE") = [A EXCEPT !.bySize = S]
    BY DEF Joins
  <2>2. A.draws = [A EXCEPT !.bySize = S].draws /\ A.zero = [A EXCEPT !.bySize = S].zero
    BY DEF AllocatorType
  <2> QED BY <2>1, <2>2 DEF treap_insert, AllocatorType
<1>3. S = A.bySize \cup {v}
  OBVIOUS
<1> HIDE DEF Z, D, S
<1>4. /\ B.list = A.list /\ B.addr = A.addr /\ B.size = A.size
      /\ B.byAddr = A.byAddr /\ B.bySize = S /\ B.heap = A.heap
      /\ B.failed = A.failed /\ B.zero = Z
  BY <1>2 DEF AllocatorType
<1>5. B \in AllocatorType
  BY <1>1, <1>2 DEF AllocatorType
<1> QED BY <1>1, <1>3, <1>4, <1>5 DEF Later, Blamed

LEMMA InsertByAddr ==
    ASSUME NEW A \in AllocatorType, NEW v \in Vma,
           NEW B, B = treap_insert(A, v, "BY_ADDR")
    PROVE  /\ B \in AllocatorType
           /\ B.list = A.list /\ B.addr = A.addr /\ B.size = A.size
           /\ B.byAddr = A.byAddr \cup {v} /\ B.bySize = A.bySize /\ B.heap = A.heap
           /\ B.failed = A.failed
           /\ Later(A, B) /\ (Blamed(A) => Blamed(B))
<1> DEFINE Z == IF 1 \in A.draws THEN A.zero \cup {<<"BY_ADDR", v>>} ELSE A.zero
           D == {k - 1 : k \in A.draws \ {1}}
           S == A.byAddr \cup {v}
<1>1. /\ Z \in SUBSET ({"BY_ADDR", "BY_SIZE"} \X Vma) /\ A.zero \subseteq Z
      /\ D \in SUBSET (Nat \ {0}) /\ S \in SUBSET Vma
  BY FieldTypes, DrawsLemma
<1>2. B = [A EXCEPT !.byAddr = S, !.zero = Z, !.draws = D]
  <2>1. Joins(A, v, "BY_ADDR") = [A EXCEPT !.byAddr = S]
    BY DEF Joins
  <2>2. A.draws = [A EXCEPT !.byAddr = S].draws /\ A.zero = [A EXCEPT !.byAddr = S].zero
    BY DEF AllocatorType
  <2> QED BY <2>1, <2>2 DEF treap_insert, AllocatorType
<1>3. S = A.byAddr \cup {v}
  OBVIOUS
<1> HIDE DEF Z, D, S
<1>4. /\ B.list = A.list /\ B.addr = A.addr /\ B.size = A.size
      /\ B.byAddr = S /\ B.bySize = A.bySize /\ B.heap = A.heap
      /\ B.failed = A.failed /\ B.zero = Z
  BY <1>2 DEF AllocatorType
<1>5. B \in AllocatorType
  BY <1>1, <1>2 DEF AllocatorType
<1> QED BY <1>1, <1>3, <1>4, <1>5 DEF Later, Blamed

(* What an assert changes that fails for a priority of zero only. *)
LEMMA AssertedLemma ==
    ASSUME NEW A \in AllocatorType, NEW cond \in BOOLEAN, ~cond => A.zero # {},
           NEW B, B = asserted(A, cond)
    PROVE  /\ B \in AllocatorType
           /\ B.list = A.list /\ B.addr = A.addr /\ B.size = A.size
           /\ B.byAddr = A.byAddr /\ B.bySize = A.bySize /\ B.heap = A.heap
           /\ B.zero = A.zero /\ B.draws = A.draws
           /\ B.failed = (A.failed \/ ~cond)
           /\ Later(A, B) /\ (Blamed(A) => Blamed(B))
<1> DEFINE f == A.failed \/ ~cond
<1>1. B = [A EXCEPT !.failed = f] /\ f \in BOOLEAN
  BY DEF asserted
<1>2. f = (A.failed \/ ~cond)
  OBVIOUS
<1> HIDE DEF f
<1>3. /\ B \in AllocatorType
      /\ B.list = A.list /\ B.addr = A.addr /\ B.size = A.size
      /\ B.byAddr = A.byAddr /\ B.bySize = A.bySize /\ B.heap = A.heap
      /\ B.zero = A.zero /\ B.draws = A.draws /\ B.failed = f
  BY <1>1 DEF AllocatorType
<1> QED BY <1>2, <1>3 DEF Later, Blamed

(* What treap_remove changes: the treap; its assert fails for a priority   *)
(* of zero.                                                                *)
LEMMA RemoveBySize ==
    ASSUME NEW A \in AllocatorType, NEW v \in Vma,
           NEW B, B = treap_remove(A, v, "BY_SIZE")
    PROVE  /\ B \in AllocatorType
           /\ B.list = A.list /\ B.addr = A.addr /\ B.size = A.size
           /\ B.byAddr = A.byAddr /\ B.bySize = A.bySize \ {v} /\ B.heap = A.heap
           /\ B.zero = A.zero /\ (<<"BY_SIZE", v>> \in A.zero => B.failed)
           /\ Later(A, B) /\ (Blamed(A) => Blamed(B))
<1> DEFINE S == A.bySize \ {v}
           C == [A EXCEPT !.bySize = S]
           cond == <<"BY_SIZE", v>> \notin A.zero
<1>1. B = asserted(C, cond) /\ S = A.bySize \ {v} /\ S \in SUBSET Vma
  BY FieldTypes DEF treap_remove, Leaves
<1> HIDE DEF S
<1>2. /\ C \in AllocatorType
      /\ C.list = A.list /\ C.addr = A.addr /\ C.size = A.size
      /\ C.byAddr = A.byAddr /\ C.bySize = S /\ C.heap = A.heap
      /\ C.zero = A.zero /\ C.failed = A.failed
  BY <1>1 DEF AllocatorType
<1> HIDE DEF C
<1>3. cond \in BOOLEAN /\ (~cond => C.zero # {})
  BY <1>2
<1>4. /\ B \in AllocatorType
      /\ B.list = C.list /\ B.addr = C.addr /\ B.size = C.size
      /\ B.byAddr = C.byAddr /\ B.bySize = C.bySize /\ B.heap = C.heap
      /\ B.zero = C.zero /\ B.failed = (C.failed \/ ~cond)
      /\ Later(C, B) /\ (Blamed(C) => Blamed(B))
  <2> HIDE DEF cond
  <2> QED BY ONLY <1>1, <1>2, <1>3, AssertedLemma
<1> QED BY <1>1, <1>2, <1>4 DEF Later, Blamed

LEMMA RemoveByAddr ==
    ASSUME NEW A \in AllocatorType, NEW v \in Vma,
           NEW B, B = treap_remove(A, v, "BY_ADDR")
    PROVE  /\ B \in AllocatorType
           /\ B.list = A.list /\ B.addr = A.addr /\ B.size = A.size
           /\ B.byAddr = A.byAddr \ {v} /\ B.bySize = A.bySize /\ B.heap = A.heap
           /\ B.zero = A.zero
           /\ Later(A, B) /\ (Blamed(A) => Blamed(B))
<1> DEFINE S == A.byAddr \ {v}
           C == [A EXCEPT !.byAddr = S]
           cond == <<"BY_ADDR", v>> \notin A.zero
<1>1. B = asserted(C, cond) /\ S = A.byAddr \ {v} /\ S \in SUBSET Vma
  BY FieldTypes DEF treap_remove, Leaves
<1> HIDE DEF S
<1>2. /\ C \in AllocatorType
      /\ C.list = A.list /\ C.addr = A.addr /\ C.size = A.size
      /\ C.byAddr = S /\ C.bySize = A.bySize /\ C.heap = A.heap
      /\ C.zero = A.zero /\ C.failed = A.failed
  BY <1>1 DEF AllocatorType
<1> HIDE DEF C
<1>3. cond \in BOOLEAN /\ (~cond => C.zero # {})
  BY <1>2
<1>4. /\ B \in AllocatorType
      /\ B.list = C.list /\ B.addr = C.addr /\ B.size = C.size
      /\ B.byAddr = C.byAddr /\ B.bySize = C.bySize /\ B.heap = C.heap
      /\ B.zero = C.zero /\ B.failed = (C.failed \/ ~cond)
      /\ Later(C, B) /\ (Blamed(C) => Blamed(B))
  <2> HIDE DEF cond
  <2> QED BY ONLY <1>1, <1>2, <1>3, AssertedLemma
<1> QED BY <1>1, <1>2, <1>4 DEF Later, Blamed

(* SetBounds changes the bounds of v only. *)
LEMMA SetBoundsLemma ==
    ASSUME NEW A \in AllocatorType, NEW v \in Vma,
           NEW lo \in Lo..(Hi - 1), NEW hi, hi - lo \in 1..(Hi - Lo)
    PROVE  /\ SetBounds(A, v, lo, hi) \in AllocatorType
           /\ SetBounds(A, v, lo, hi).addr = [A.addr EXCEPT ![v] = lo]
           /\ SetBounds(A, v, lo, hi).size = [A.size EXCEPT ![v] = hi - lo]
           /\ SetBounds(A, v, lo, hi).list = A.list
           /\ SetBounds(A, v, lo, hi).byAddr = A.byAddr
           /\ SetBounds(A, v, lo, hi).bySize = A.bySize
           /\ SetBounds(A, v, lo, hi).heap = A.heap
           /\ SetBounds(A, v, lo, hi).zero = A.zero
           /\ SetBounds(A, v, lo, hi).draws = A.draws
           /\ SetBounds(A, v, lo, hi).failed = A.failed
BY DEF AllocatorType, SetBounds

(* LIST_INIT changes nothing of a node that is already self-linked. *)
LEMMA InitOfSelfLinked ==
    ASSUME NEW L \in LinkType(Node), NEW v \in Node, L.next[v] = v, L.prev[v] = v
    PROVE  LIST_INIT(L, v) = L
BY DEF LIST_INIT, LinkType

(* An empty hole is no hole. *)
LEMMA HoleClosed ==
    ASSUME NEW A, NEW p, NEW lo, Holed(A, p, lo, lo)
    PROVE  Tiled(A)
<1>1. Chained(A)
  BY DEF Holed, Chained
<1>2. Covered(A)
  BY ConstantsAssumption DEF Holed, Covered
<1> QED BY <1>1, <1>2 DEF Holed, Tiled

(* InsertUsed fills [m, hi) of the hole [lo, hi). *)
LEMMA InsertUsedFields ==
    ASSUME NEW A, NEW p, NEW lo, NEW hi, Holed(A, p, lo, hi),
           NEW v \in Vma \ A.byAddr, NEW m \in Int, lo <= m, m < hi,
           NEW B, B = InsertUsed(A, p, v, m, hi)
    PROVE  /\ B.list = list_unshift(A.list, p, v)
           /\ B.addr = [A.addr EXCEPT ![v] = m]
           /\ B.size = [A.size EXCEPT ![v] = hi - m]
           /\ B.byAddr = A.byAddr \cup {v}
           /\ B.bySize = A.bySize
           /\ B.heap = A.heap
           /\ B \in AllocatorType /\ Blamed(B)
           /\ Later(A, B)
<1>1. /\ A \in AllocatorType /\ v \notin A.byAddr \cup {Head} /\ v \in Node /\ p \in Node
      /\ Blamed(A)
  BY ConstantsAssumption DEF Holed, Node, AllocatorType
<1>2. A.list.next[v] = v /\ A.list.prev[v] = v
  BY <1>1, FieldTypes DEF Holed, Linked, LinkType
<1>3. LIST_INIT(A.list, v) = A.list
  BY <1>1, <1>2, FieldTypes, InitOfSelfLinked
<1>4. list_unshift(A.list, p, v) \in LinkType(Node)
  <2> DEFINE S == A.byAddr \cup {Head}
  <2>1. /\ A.list \in LinkType(Node) /\ S \in SUBSET Node /\ Linked(A.list, S)
        /\ p \in S /\ v \in Node \ S
    BY <1>1, FieldTypes DEF Holed, Node
  <2> HIDE DEF S
  <2> QED BY <2>1, UnshiftLemma
<1>5. m \in Lo..(Hi - 1) /\ hi - m \in 1..(Hi - Lo)
  BY ConstantsAssumption DEF Holed
<1> DEFINE C == [vma_init(A, m, hi, v) EXCEPT !.list = list_unshift(@, p, v)]
<1>6. /\ C.list = list_unshift(A.list, p, v)
      /\ C.addr = [A.addr EXCEPT ![v] = m]
      /\ C.size = [A.size EXCEPT ![v] = hi - m]
      /\ C.byAddr = A.byAddr /\ C.bySize = A.bySize
      /\ C.heap = A.heap /\ C.zero = A.zero /\ C.failed = A.failed
  BY <1>1, <1>3 DEF vma_init, SetBounds, AllocatorType
<1>7. C \in AllocatorType
  BY <1>1, <1>3, <1>4, <1>5 DEF vma_init, SetBounds, AllocatorType
<1>8. B = treap_insert(C, v, "BY_ADDR")
  BY DEF InsertUsed
<1> HIDE DEF C
<1>9. /\ B \in AllocatorType
      /\ B.list = C.list /\ B.addr = C.addr /\ B.size = C.size
      /\ B.byAddr = C.byAddr \cup {v} /\ B.bySize = C.bySize /\ B.heap = C.heap
      /\ B.failed = C.failed
      /\ Later(C, B) /\ (Blamed(C) => Blamed(B))
  BY ONLY <1>7, <1>8, v \in Vma, InsertByAddr
<1> QED BY <1>1, <1>6, <1>9 DEF Later, Blamed

LEMMA InsertUsedLemma ==
    ASSUME NEW A, NEW p, NEW lo, NEW hi, Holed(A, p, lo, hi),
           NEW v \in Vma \ A.byAddr, NEW m \in Int, lo <= m, m < hi,
           NEW B, B = InsertUsed(A, p, v, m, hi)
    PROVE  /\ Holed(B, p, lo, m)
           /\ B.byAddr = A.byAddr \cup {v}
           /\ B.bySize = A.bySize
           /\ B.heap = A.heap
           /\ B.addr = [A.addr EXCEPT ![v] = m]
           /\ B.size = [A.size EXCEPT ![v] = hi - m]
           /\ \A y \in Node : B.list.next[y] =
                 IF y = p THEN v ELSE IF y = v THEN A.list.next[p] ELSE A.list.next[y]
           /\ Later(A, B)
<1>0. /\ B \in AllocatorType /\ Blamed(B)
      /\ Later(A, B)
  BY InsertUsedFields
<1>1. /\ A \in AllocatorType
      /\ v \notin A.byAddr \cup {Head} /\ v \in Node /\ p \in Node /\ v # p
      /\ A.byAddr \cup {Head} \subseteq Node
  BY ConstantsAssumption, FieldTypes DEF Holed, Node
<1>2. /\ B.list = list_unshift(A.list, p, v)
      /\ B.addr = [A.addr EXCEPT ![v] = m] /\ B.size = [A.size EXCEPT ![v] = hi - m]
      /\ B.byAddr = A.byAddr \cup {v}
      /\ B.bySize = A.bySize
      /\ B.heap = A.heap
  BY InsertUsedFields
<1>3. /\ Linked(B.list, (A.byAddr \cup {Head}) \cup {v})
      /\ \A y \in Node : B.list.next[y] =
            IF y = p THEN v ELSE IF y = v THEN A.list.next[p] ELSE A.list.next[y]
  <2>1. /\ A.list \in LinkType(Node) /\ A.byAddr \cup {Head} \in SUBSET Node
        /\ Linked(A.list, A.byAddr \cup {Head}) /\ p \in A.byAddr \cup {Head}
        /\ v \in Node \ (A.byAddr \cup {Head})
    BY <1>1, FieldTypes DEF Holed
  <2> QED BY <1>2, <2>1, UnshiftLemma
<1>4. (A.byAddr \cup {Head}) \cup {v} = B.byAddr \cup {Head}
  BY <1>2
<1>4a. \A w \in A.byAddr : w \in Vma /\ w # v /\ A.addr[w] \in Int /\ A.size[w] \in Int
  BY <1>1, FieldTypes, ConstantsAssumption DEF Holed
<1>4b. \A w \in A.byAddr : B.addr[w] = A.addr[w] /\ B.size[w] = A.size[w]
  BY <1>1, <1>2, <1>4a, FieldTypes DEF Holed
<1>4c. B.addr[v] = m /\ B.size[v] = hi - m /\ m + (hi - m) = hi
  BY <1>1, <1>2, FieldTypes DEF Holed
<1>5. /\ B.addr[v] = m /\ B.size[v] = hi - m /\ vma_hi(B, v) = hi
      /\ \A w \in A.byAddr : /\ B.addr[w] = A.addr[w] /\ B.size[w] = A.size[w]
                             /\ vma_hi(B, w) = vma_hi(A, w)
                             /\ A.addr[w] \in Int /\ A.size[w] \in Int
  BY <1>4a, <1>4b, <1>4c DEF vma_hi
<1>6. \A x \in A.byAddr \cup {Head} : EndOf(B, x) = EndOf(A, x) /\ StartOf(B, x) = StartOf(A, x)
  BY <1>5 DEF EndOf, StartOf
<1>7. EndOf(B, v) = hi /\ StartOf(B, v) = m
  BY <1>5, ConstantsAssumption DEF EndOf, StartOf
<1>8. \A x \in A.byAddr \cup {Head} : A.list.next[x] \in A.byAddr \cup {Head}
  BY DEF Holed, Linked
<1>9. \A x \in B.byAddr \cup {Head} :
         x # p => StartOf(B, B.list.next[x]) = EndOf(B, x)
  BY <1>1, <1>2, <1>3, <1>6, <1>7, <1>8 DEF Holed
<1>10. EndOf(B, p) = lo /\ StartOf(B, B.list.next[p]) = m
  BY <1>1, <1>3, <1>6, <1>7 DEF Holed
<1>11. NoOverlap(B)
  <2>1. \A w \in A.byAddr : vma_hi(A, w) <= m \/ hi <= A.addr[w]
    BY <1>5, FieldTypes DEF Holed, vma_hi
  <2>2. \A w, x \in A.byAddr : w # x => vma_hi(A, w) <= A.addr[x] \/ vma_hi(A, x) <= A.addr[w]
    BY DEF Holed, NoOverlap
  <2> QED BY <1>2, <1>5, <2>1, <2>2 DEF NoOverlap
<1>12. \A w \in B.byAddr : vma_hi(B, w) <= lo \/ m <= B.addr[w]
  BY <1>2, <1>5 DEF Holed, vma_hi
<1>13. \A q \in Lo..(Hi - 1) :
          q < lo \/ m <= q =>
             \E w \in B.byAddr : B.addr[w] <= q /\ q < vma_hi(B, w)
  BY <1>2, <1>5, ConstantsAssumption DEF Holed
<1>14. B.bySize \subseteq B.byAddr
  BY <1>2 DEF Holed
<1>15. Holed(B, p, lo, m)
  <2>1. m \in Int /\ lo \in Int /\ Lo <= lo /\ m <= Hi /\ p \in B.byAddr \cup {Head}
    BY <1>2, ConstantsAssumption DEF Holed
  <2> QED BY <1>0, <1>3, <1>4, <1>9, <1>10, <1>11, <1>12, <1>13, <1>14, <2>1 DEF Holed
<1> QED BY <1>0, <1>2, <1>3, <1>15

(* The same of InsertFree. *)
LEMMA InsertFreeLemma ==
    ASSUME NEW A, NEW p, NEW lo, NEW hi, Holed(A, p, lo, hi),
           NEW v \in Vma \ A.byAddr, NEW m \in Int, lo <= m, m < hi,
           NEW B, B = InsertFree(A, p, v, m, hi)
    PROVE  /\ Holed(B, p, lo, m)
           /\ B.byAddr = A.byAddr \cup {v}
           /\ B.bySize = A.bySize \cup {v}
           /\ B.heap = A.heap
           /\ B.addr = [A.addr EXCEPT ![v] = m]
           /\ B.size = [A.size EXCEPT ![v] = hi - m]
           /\ \A y \in Node : B.list.next[y] =
                 IF y = p THEN v ELSE IF y = v THEN A.list.next[p] ELSE A.list.next[y]
           /\ Later(A, B)
<1> DEFINE C == InsertUsed(A, p, v, m, hi)
<1>1. /\ Holed(C, p, lo, m)
      /\ C.byAddr = A.byAddr \cup {v} /\ C.bySize = A.bySize /\ C.heap = A.heap
      /\ C.addr = [A.addr EXCEPT ![v] = m] /\ C.size = [A.size EXCEPT ![v] = hi - m]
      /\ \A y \in Node : C.list.next[y] =
            IF y = p THEN v ELSE IF y = v THEN A.list.next[p] ELSE A.list.next[y]
      /\ Later(A, C)
  BY InsertUsedLemma
<1>2. B = treap_insert(C, v, "BY_SIZE")
  BY DEF InsertFree
<1> HIDE DEF C
<1>3. C \in AllocatorType /\ Blamed(C)
  BY <1>1 DEF Holed
<1>4. /\ B \in AllocatorType
      /\ B.list = C.list /\ B.addr = C.addr /\ B.size = C.size
      /\ B.byAddr = C.byAddr /\ B.bySize = C.bySize \cup {v} /\ B.heap = C.heap
      /\ B.failed = C.failed
      /\ Later(C, B) /\ (Blamed(C) => Blamed(B))
  BY ONLY <1>2, <1>3, v \in Vma, InsertBySize
<1>5. B.bySize \subseteq B.byAddr
  BY <1>1, <1>4 DEF Holed
<1>6. Holed(B, p, lo, m)
  BY <1>1, <1>3, <1>4, <1>5 DEF Holed, StartOf, EndOf, vma_hi, NoOverlap
<1>7. Later(A, B)
  BY <1>1, <1>4 DEF Later
<1> QED BY <1>1, <1>4, <1>6, <1>7

(* What the lemmas below use of a tiling, about a VMA v and its neighbours. *)
LEMMA TiledFacts ==
    ASSUME NEW A, Tiled(A), NEW v \in A.byAddr
    PROVE  /\ A.list \in LinkType(Node) /\ A.byAddr \cup {Head} \in SUBSET Node
           /\ A.addr[v] \in Int /\ A.size[v] \in Int /\ 1 <= A.size[v]
           /\ Lo <= A.addr[v] /\ vma_hi(A, v) \in Int /\ vma_hi(A, v) <= Hi
           /\ v \in Vma /\ v # Head
           /\ A.list.next[v] \in A.byAddr \cup {Head} /\ A.list.next[v] # v
           /\ A.list.prev[v] \in A.byAddr \cup {Head} /\ A.list.prev[v] # v
           /\ A.list.next[A.list.prev[v]] = v /\ A.list.prev[A.list.next[v]] = v
           /\ EndOf(A, A.list.prev[v]) = A.addr[v]
           /\ StartOf(A, A.list.next[v]) = vma_hi(A, v)
<1>1. A \in AllocatorType /\ v \in Vma /\ v # Head
  BY ConstantsAssumption DEF Tiled, AllocatorType
<1>2. A.addr[v] \in Lo..(Hi - 1) /\ A.size[v] \in 1..(Hi - Lo)
  BY <1>1, FieldTypes
<1>3. A.list \in LinkType(Node) /\ A.byAddr \cup {Head} \in SUBSET Node
  BY <1>1, FieldTypes DEF Node
<1>4. /\ A.list.next[v] \in A.byAddr \cup {Head} /\ A.list.prev[v] \in A.byAddr \cup {Head}
      /\ A.list.next[A.list.prev[v]] = v /\ A.list.prev[A.list.next[v]] = v
  BY DEF Tiled, Linked
<1>5. StartOf(A, A.list.next[v]) = EndOf(A, v) /\ StartOf(A, v) = EndOf(A, A.list.prev[v])
  BY <1>4 DEF Tiled, Chained
<1>6. StartOf(A, v) = A.addr[v] /\ EndOf(A, v) = vma_hi(A, v)
  BY <1>1 DEF StartOf, EndOf
<1>7. A.list.next[v] # v
  BY <1>1, <1>2, <1>5, <1>6, ConstantsAssumption DEF vma_hi
<1>8. A.list.prev[v] # v
  BY <1>4, <1>7
<1>9. \A w \in A.byAddr : A.addr[w] <= Hi - 1 /\ A.addr[w] \in Int
  BY <1>1, FieldTypes, ConstantsAssumption
<1>10. StartOf(A, A.list.next[v]) <= Hi /\ StartOf(A, A.list.next[v]) \in Int
  BY <1>4, <1>9, ConstantsAssumption DEF StartOf
<1> QED BY <1>1, <1>2, <1>3, <1>4, <1>5, <1>6, <1>7, <1>8, <1>10, ConstantsAssumption

(* Unlink opens the hole that v covered, after v's predecessor. *)
LEMMA UnlinkLemma ==
    ASSUME NEW A, Tiled(A), NEW v \in A.byAddr,
           NEW B, B = Unlink(A, v)
    PROVE  /\ Holed(B, A.list.prev[v], A.addr[v], vma_hi(A, v))
           /\ B.byAddr = A.byAddr \ {v} /\ B.bySize = A.bySize \ {v}
           /\ B.heap = A.heap /\ B.addr = A.addr /\ B.size = A.size
           /\ \A y \in Node : B.list.next[y] =
                 IF y = v THEN v
                 ELSE IF y = A.list.prev[v] THEN A.list.next[v] ELSE A.list.next[y]
           /\ Later(A, B)
<1> DEFINE S == A.byAddr \cup {Head}
           p == A.list.prev[v]
           E == [A EXCEPT !.list = list_remove(@, v)]
           F == treap_remove(E, v, "BY_ADDR")
<1>1. A \in AllocatorType /\ v \in Node /\ v \in Vma /\ Blamed(A)
  BY TiledFacts DEF Tiled, Node
<1>2. /\ A.list \in LinkType(Node) /\ S \in SUBSET Node /\ Linked(A.list, S)
      /\ v \in S /\ A.list.next[v] # v
  BY TiledFacts DEF Tiled
<1>3. /\ list_remove(A.list, v) \in LinkType(Node)
      /\ Linked(list_remove(A.list, v), S \ {v})
      /\ \A y \in Node : list_remove(A.list, v).next[y] =
            IF y = v THEN v ELSE IF y = p THEN A.list.next[v] ELSE A.list.next[y]
  <2> HIDE DEF S
  <2> QED BY <1>2, RemoveLemma
<1>4a. B = treap_remove(F, v, "BY_SIZE")
  BY DEF Unlink
<1>4b. /\ E \in AllocatorType
       /\ E.list = list_remove(A.list, v)
       /\ E.byAddr = A.byAddr /\ E.bySize = A.bySize
       /\ E.heap = A.heap /\ E.addr = A.addr /\ E.size = A.size
       /\ E.zero = A.zero /\ E.failed = A.failed
  BY <1>1, <1>3 DEF AllocatorType
<1>4c. Later(A, E) /\ Blamed(E)
  BY <1>1, <1>4b DEF Later, Blamed
<1> HIDE DEF E
<1>4d. /\ F \in AllocatorType
       /\ F.list = E.list /\ F.addr = E.addr /\ F.size = E.size
       /\ F.byAddr = E.byAddr \ {v} /\ F.bySize = E.bySize /\ F.heap = E.heap
       /\ Later(E, F) /\ (Blamed(E) => Blamed(F))
  BY ONLY <1>1, <1>4b, RemoveByAddr
<1> HIDE DEF F
<1>4e. /\ B \in AllocatorType
       /\ B.list = F.list /\ B.addr = F.addr /\ B.size = F.size
       /\ B.byAddr = F.byAddr /\ B.bySize = F.bySize \ {v} /\ B.heap = F.heap
       /\ B.zero = F.zero /\ (<<"BY_SIZE", v>> \in F.zero => B.failed)
       /\ Later(F, B) /\ (Blamed(F) => Blamed(B))
  <2>1. F \in AllocatorType /\ v \in Vma
    BY <1>1, <1>4d
  <2> QED BY ONLY <2>1, <1>4a, RemoveBySize
<1>4. /\ B.list = list_remove(A.list, v)
      /\ B.byAddr = A.byAddr \ {v} /\ B.bySize = A.bySize \ {v}
      /\ B.heap = A.heap /\ B.addr = A.addr /\ B.size = A.size
  BY <1>4b, <1>4d, <1>4e
<1>5. B \in AllocatorType /\ Blamed(B) /\ Later(A, B)
  BY <1>4c, <1>4d, <1>4e DEF Later
<1>6. S \ {v} = B.byAddr \cup {Head}
  BY <1>4, TiledFacts
<1>7. /\ \A x : vma_hi(B, x) = vma_hi(A, x)
      /\ \A x : EndOf(B, x) = EndOf(A, x) /\ StartOf(B, x) = StartOf(A, x)
  BY <1>4 DEF vma_hi, EndOf, StartOf
<1>8. p \in B.byAddr \cup {Head} /\ p # v /\ A.list.next[p] = v
  BY <1>4, TiledFacts
<1>9. \A x \in B.byAddr \cup {Head} : x # p => StartOf(B, B.list.next[x]) = EndOf(B, x)
  BY <1>2, <1>3, <1>4, <1>6, <1>7 DEF Tiled, Chained
<1>10. EndOf(B, p) = A.addr[v] /\ StartOf(B, B.list.next[p]) = vma_hi(A, v)
  BY <1>2, <1>3, <1>4, <1>6, <1>7, <1>8, TiledFacts
<1>11. NoOverlap(B)
  BY <1>4, <1>7 DEF Tiled, NoOverlap
<1>12. \A w \in B.byAddr : vma_hi(B, w) <= A.addr[v] \/ vma_hi(A, v) <= B.addr[w]
  BY <1>4, <1>7 DEF Tiled, NoOverlap
<1>13. \A q \in Lo..(Hi - 1) :
          q < A.addr[v] \/ vma_hi(A, v) <= q =>
             \E w \in B.byAddr : B.addr[w] <= q /\ q < vma_hi(B, w)
  <2>1. SUFFICES ASSUME NEW q \in Lo..(Hi - 1), q < A.addr[v] \/ vma_hi(A, v) <= q
                 PROVE  \E w \in B.byAddr : B.addr[w] <= q /\ q < vma_hi(B, w)
    OBVIOUS
  <2>2. PICK w \in A.byAddr : A.addr[w] <= q /\ q < vma_hi(A, w)
    BY DEF Tiled, Covered
  <2>3. w # v
    BY <2>1, <2>2, TiledFacts, ConstantsAssumption
  <2> QED BY <1>4, <1>7, <2>2, <2>3
<1>14. B.bySize \subseteq B.byAddr
  BY <1>4 DEF Tiled
<1>15. /\ A.addr[v] \in Int /\ vma_hi(A, v) \in Int /\ Lo <= A.addr[v]
       /\ A.addr[v] <= vma_hi(A, v) /\ vma_hi(A, v) <= Hi
  BY TiledFacts, ConstantsAssumption DEF vma_hi
<1>16. Holed(B, p, A.addr[v], vma_hi(A, v))
  BY <1>3, <1>4, <1>5, <1>6, <1>8, <1>9, <1>10, <1>11, <1>12, <1>13, <1>14, <1>15 DEF Holed
<1> QED BY <1>3, <1>4, <1>5, <1>16

(* Shrink opens a hole over all but the first n pages of v. *)
LEMMA ShrinkLemma ==
    ASSUME NEW A, Tiled(A), NEW v \in A.byAddr,
           NEW n \in Int, 0 < n, n < A.size[v],
           NEW B, B = Shrink(A, v, n)
    PROVE  /\ Holed(B, v, A.addr[v] + n, vma_hi(A, v))
           /\ B.list = A.list /\ B.byAddr = A.byAddr /\ B.bySize = A.bySize \ {v}
           /\ B.heap = A.heap /\ B.addr = A.addr
           /\ B.size = [A.size EXCEPT ![v] = n]
           /\ Later(A, B) /\ (<<"BY_SIZE", v>> \in A.zero => B.failed)
<1>1. A \in AllocatorType /\ v \in Vma /\ v # Head /\ Blamed(A)
  BY TiledFacts DEF Tiled
<1>2. A.addr[v] \in Lo..(Hi - 1) /\ A.size[v] \in 1..(Hi - Lo)
  BY <1>1, FieldTypes
<1>3. n = A.addr[v] + n - A.addr[v] /\ n \in 1..(Hi - Lo)
  BY <1>2, ConstantsAssumption
<1>4. /\ B \in AllocatorType /\ Blamed(B)
      /\ B.list = A.list /\ B.byAddr = A.byAddr /\ B.bySize = A.bySize \ {v}
      /\ B.heap = A.heap /\ B.addr = [A.addr EXCEPT ![v] = A.addr[v]]
      /\ B.size = [A.size EXCEPT ![v] = n]
      /\ Later(A, B) /\ (<<"BY_SIZE", v>> \in A.zero => B.failed)
  <2> DEFINE a == A.addr[v]
             m == a + n
             C == treap_remove(A, v, "BY_SIZE")
  <2>1. B = SetBounds(C, v, a, m) /\ m - a = n /\ a = A.addr[v]
    BY <1>2, <1>3 DEF Shrink
  <2>2. /\ C \in AllocatorType
        /\ C.list = A.list /\ C.addr = A.addr /\ C.size = A.size
        /\ C.byAddr = A.byAddr /\ C.bySize = A.bySize \ {v} /\ C.heap = A.heap
        /\ C.zero = A.zero /\ (<<"BY_SIZE", v>> \in A.zero => C.failed)
        /\ Later(A, C) /\ (Blamed(A) => Blamed(C))
    BY ONLY <1>1, RemoveBySize
  <2>3. a \in Lo..(Hi - 1) /\ m - a \in 1..(Hi - Lo)
    BY <1>2, <1>3, <2>1
  <2> HIDE DEF a, m, C
  <2>4. /\ B \in AllocatorType
        /\ B.addr = [C.addr EXCEPT ![v] = a] /\ B.size = [C.size EXCEPT ![v] = m - a]
        /\ B.list = C.list /\ B.byAddr = C.byAddr /\ B.bySize = C.bySize
        /\ B.heap = C.heap /\ B.zero = C.zero /\ B.failed = C.failed
    BY ONLY <1>1, <2>1, <2>2, <2>3, SetBoundsLemma
  <2>5. Later(A, B) /\ Blamed(B) /\ (<<"BY_SIZE", v>> \in A.zero => B.failed)
    BY <1>1, <2>2, <2>4 DEF Later, Blamed
  <2> QED BY <2>1, <2>2, <2>4, <2>5
<1>5. B.addr = A.addr
  BY <1>1, <1>4, FieldTypes
<1>6. B \in AllocatorType /\ Blamed(B)
  BY <1>4
<1>7. /\ B.size[v] = n /\ vma_hi(B, v) = A.addr[v] + n
      /\ \A w \in A.byAddr : w # v => B.size[w] = A.size[w] /\ vma_hi(B, w) = vma_hi(A, w)
  BY <1>1, <1>4, <1>5, FieldTypes DEF vma_hi
<1>8. /\ EndOf(B, v) = A.addr[v] + n
      /\ \A x \in A.byAddr \cup {Head} : StartOf(B, x) = StartOf(A, x)
      /\ \A x \in A.byAddr \cup {Head} : x # v => EndOf(B, x) = EndOf(A, x)
  BY <1>1, <1>5, <1>7 DEF EndOf, StartOf
<1>9. \A x \in A.byAddr \cup {Head} : A.list.next[x] \in A.byAddr \cup {Head}
  BY DEF Tiled, Linked
<1>10. \A x \in B.byAddr \cup {Head} : x # v => StartOf(B, B.list.next[x]) = EndOf(B, x)
  <2>1. ASSUME NEW x \in A.byAddr \cup {Head}, x # v
        PROVE  StartOf(B, A.list.next[x]) = EndOf(B, x)
    <3>1. StartOf(A, A.list.next[x]) = EndOf(A, x)
      BY <2>1 DEF Tiled, Chained
    <3>2. StartOf(B, A.list.next[x]) = StartOf(A, A.list.next[x])
      BY <1>8, <1>9
    <3>3. EndOf(B, x) = EndOf(A, x)
      BY <1>8, <2>1
    <3> QED BY <3>1, <3>2, <3>3
  <2> QED BY <1>4, <2>1
<1>11. StartOf(B, B.list.next[v]) = vma_hi(A, v)
  <2>1. StartOf(B, A.list.next[v]) = StartOf(A, A.list.next[v])
    BY <1>8, <1>9
  <2>2. StartOf(A, A.list.next[v]) = vma_hi(A, v)
    BY TiledFacts
  <2> QED BY <1>4, <2>1, <2>2
<1>12. \A w \in A.byAddr : A.addr[w] \in Int /\ A.size[w] \in Int
  BY <1>1, FieldTypes, ConstantsAssumption
<1>13. vma_hi(A, v) = A.addr[v] + A.size[v]
  BY DEF vma_hi
<1>14. \A w \in A.byAddr : w # v => vma_hi(A, w) <= A.addr[v] \/ vma_hi(A, v) <= A.addr[w]
  BY DEF Tiled, NoOverlap
<1>15. NoOverlap(B)
  <2>1. \A w \in A.byAddr : w # v => vma_hi(B, w) <= B.addr[v] \/ vma_hi(B, v) <= B.addr[w]
    BY <1>5, <1>7, <1>12, <1>13, <1>14
  <2>2. \A w, x \in A.byAddr :
           w # x /\ w # v /\ x # v => vma_hi(B, w) <= B.addr[x] \/ vma_hi(B, x) <= B.addr[w]
    BY <1>5, <1>7 DEF Tiled, NoOverlap
  <2> QED BY <1>4, <2>1, <2>2 DEF NoOverlap
<1>16. \A w \in B.byAddr : vma_hi(B, w) <= A.addr[v] + n \/ vma_hi(A, v) <= B.addr[w]
  <2>1. \A w \in A.byAddr : w # v => vma_hi(A, w) <= A.addr[v] + n \/ vma_hi(A, v) <= A.addr[w]
    BY <1>12, <1>14 DEF vma_hi
  <2> QED BY <1>4, <1>5, <1>7, <1>12, <2>1
<1>17. \A q \in Lo..(Hi - 1) :
          q < A.addr[v] + n \/ vma_hi(A, v) <= q =>
             \E w \in B.byAddr : B.addr[w] <= q /\ q < vma_hi(B, w)
  <2>1. SUFFICES ASSUME NEW q \in Lo..(Hi - 1), q < A.addr[v] + n \/ vma_hi(A, v) <= q
                 PROVE  \E w \in B.byAddr : B.addr[w] <= q /\ q < vma_hi(B, w)
    OBVIOUS
  <2>2. PICK w \in A.byAddr : A.addr[w] <= q /\ q < vma_hi(A, w)
    BY DEF Tiled, Covered
  <2>3. CASE w # v
    BY <1>4, <1>5, <1>7, <2>2, <2>3
  <2>4. CASE w = v
    BY <1>2, <1>4, <1>5, <1>7, <1>13, <2>1, <2>2, <2>4, ConstantsAssumption
  <2> QED BY <2>3, <2>4
<1>18. /\ A.addr[v] + n \in Int /\ vma_hi(A, v) \in Int /\ Lo <= A.addr[v] + n
       /\ A.addr[v] + n <= vma_hi(A, v) /\ vma_hi(A, v) <= Hi
  BY <1>2, <1>13, TiledFacts, ConstantsAssumption
<1>19. Holed(B, v, A.addr[v] + n, vma_hi(A, v))
  BY <1>4, <1>6, <1>8, <1>10, <1>11, <1>15, <1>16, <1>17, <1>18 DEF Tiled, Holed
<1> QED BY <1>4, <1>5, <1>19

(* Split keeps the tiling, takes v from the free VMAs and adds new_vma. *)
LEMMA SplitLemma ==
    ASSUME NEW A, Tiled(A), NEW v \in A.bySize,
           NEW n \in Int, 0 < n, n < A.size[v],
           NEW u \in Vma \ A.byAddr,
           NEW B, B = Split(A, v, n, u)
    PROVE  /\ Tiled(B)
           /\ B.byAddr = A.byAddr \cup {u} /\ B.bySize = (A.bySize \ {v}) \cup {u}
           /\ B.heap = A.heap
           /\ B.addr[v] = A.addr[v] /\ B.size[v] = n
           /\ \A w \in A.byAddr : w # v => B.addr[w] = A.addr[w] /\ B.size[w] = A.size[w]
           /\ \A y \in Node : B.list.next[y] =
                 IF y = v THEN u ELSE IF y = u THEN A.list.next[v] ELSE A.list.next[y]
           /\ Later(A, B) /\ (<<"BY_SIZE", v>> \in A.zero => B.failed)
<1> DEFINE C == Shrink(A, v, n)
<1>1. v \in A.byAddr
  BY DEF Tiled
<1>2. /\ A.addr[v] \in Int /\ A.size[v] \in Int /\ vma_hi(A, v) = A.addr[v] + A.size[v]
      /\ A \in AllocatorType /\ v \in Vma
  BY <1>1, TiledFacts DEF vma_hi, Tiled
<1>3. /\ Holed(C, v, A.addr[v] + n, vma_hi(A, v))
      /\ C.list = A.list /\ C.byAddr = A.byAddr /\ C.bySize = A.bySize \ {v}
      /\ C.heap = A.heap /\ C.addr = A.addr
      /\ C.size = [A.size EXCEPT ![v] = n]
      /\ Later(A, C) /\ (<<"BY_SIZE", v>> \in A.zero => C.failed)
  BY <1>1, ShrinkLemma
<1> DEFINE m == A.addr[v] + n
           h == vma_hi(A, v)
<1>4. B = InsertFree(C, v, u, m, h)
  BY DEF Split
<1>5. u \in Vma \ C.byAddr /\ m \in Int /\ m <= m /\ m < h /\ Holed(C, v, m, h)
  BY <1>2, <1>3
<1> HIDE DEF C, m, h
<1>6. /\ Holed(B, v, m, m)
      /\ B.byAddr = C.byAddr \cup {u} /\ B.bySize = C.bySize \cup {u}
      /\ B.heap = C.heap
      /\ B.addr = [C.addr EXCEPT ![u] = m] /\ B.size = [C.size EXCEPT ![u] = h - m]
      /\ \A y \in Node : B.list.next[y] =
            IF y = v THEN u ELSE IF y = u THEN C.list.next[v] ELSE C.list.next[y]
      /\ Later(C, B)
  BY <1>4, <1>5, InsertFreeLemma
<1>7. Tiled(B)
  BY <1>6, HoleClosed
<1>8. /\ B.addr[v] = A.addr[v] /\ B.size[v] = n
      /\ \A w \in A.byAddr : w # v => B.addr[w] = A.addr[w] /\ B.size[w] = A.size[w]
  BY <1>1, <1>2, <1>3, <1>6, FieldTypes
<1>9. Later(A, B) /\ (<<"BY_SIZE", v>> \in A.zero => B.failed)
  BY <1>3, <1>6 DEF Later
<1> QED BY <1>3, <1>6, <1>7, <1>8, <1>9

(* Coalescing in terms of the free VMAs. *)
LEMMA CoalescedFacts ==
    ASSUME NEW A
    PROVE  CoalescedIn(A) <=> \A x \in FreeVmas(A) : A.list.next[x] \notin FreeVmas(A)
BY DEF CoalescedIn, FreeVmas, is_vma_free

(* Nothing in the free treap becomes free for is_vma_free later in a call. *)
LEMMA FreeLater ==
    ASSUME NEW A, NEW B, Later(A, B)
    PROVE  /\ FreeVmas(B) \subseteq B.bySize
           /\ \A x \in FreeVmas(B) : x \in A.bySize => x \in FreeVmas(A)
BY DEF Later, FreeVmas, is_vma_free

(* Splitting leaves no two free VMAs side by side. *)
LEMMA SplitCoalesced ==
    ASSUME NEW A, Tiled(A), CoalescedIn(A), NEW v \in A.bySize,
           NEW n \in Int, 0 < n, n < A.size[v],
           NEW u \in Vma \ A.byAddr,
           NEW B, B = Split(A, v, n, u)
    PROVE  B.failed \/ CoalescedIn(B)
<1>1. /\ B.bySize = (A.bySize \ {v}) \cup {u}
      /\ \A y \in Node : B.list.next[y] =
            IF y = v THEN u ELSE IF y = u THEN A.list.next[v] ELSE A.list.next[y]
      /\ Later(A, B) /\ (<<"BY_SIZE", v>> \in A.zero => B.failed)
  BY SplitLemma
<1>2. \A x \in A.byAddr : A.list.next[x] \in A.byAddr \cup {Head} /\ x \in Node
  BY TiledFacts DEF Node
<1>3. A.bySize \subseteq A.byAddr /\ u \notin A.byAddr \cup {Head} /\ u \in Node
  BY ConstantsAssumption DEF Tiled, Node
<1>4. SUFFICES ASSUME ~B.failed PROVE CoalescedIn(B)
  OBVIOUS
<1>5. v \in FreeVmas(A)
  BY <1>1, <1>4 DEF FreeVmas, is_vma_free
<1>6. A.list.next[v] \notin FreeVmas(A)
  BY <1>5, CoalescedFacts
<1>7. \A x \in FreeVmas(B) : B.list.next[x] \notin FreeVmas(B)
  <2> SUFFICES ASSUME NEW x \in FreeVmas(B), B.list.next[x] \in FreeVmas(B) PROVE FALSE
    OBVIOUS
  <2>1. /\ x \in (A.bySize \ {v}) \cup {u} /\ B.list.next[x] \in (A.bySize \ {v}) \cup {u}
        /\ x \in A.bySize => x \in FreeVmas(A)
        /\ B.list.next[x] \in A.bySize => B.list.next[x] \in FreeVmas(A)
    BY <1>1, FreeLater
  <2>2. CASE x = u
    <3>1. B.list.next[x] = A.list.next[v] /\ A.list.next[v] # u
      BY <1>1, <1>2, <1>3, <2>2
    <3> QED BY <1>6, <2>1, <3>1
  <2>3. CASE x # u
    <3>1. x \in FreeVmas(A) /\ x # v /\ x \in A.byAddr
      BY <1>3, <2>1, <2>3
    <3>2. B.list.next[x] = A.list.next[x] /\ A.list.next[x] # u
      BY <1>1, <1>2, <1>3, <2>3, <3>1
    <3>3. A.list.next[x] \notin FreeVmas(A)
      BY <3>1, CoalescedFacts
    <3> QED BY <2>1, <3>2, <3>3
  <2> QED BY <2>2, <2>3
<1> QED BY <1>7, CoalescedFacts

(* A VMA before a hole may grow to the end of it. *)
LEMMA GrowLemma ==
    ASSUME NEW A, NEW v \in A.byAddr, NEW lo, NEW hi, Holed(A, v, lo, hi),
           NEW B, B = SetBounds(A, v, A.addr[v], hi)
    PROVE  /\ Tiled(B)
           /\ B.list = A.list /\ B.byAddr = A.byAddr /\ B.bySize = A.bySize
           /\ B.heap = A.heap /\ B.addr = A.addr
           /\ \A w \in Vma : w # v => B.size[w] = A.size[w]
           /\ Later(A, B)
<1>1. A \in AllocatorType /\ v \in Vma /\ v # Head
  BY ConstantsAssumption DEF Holed, AllocatorType
<1>2. A.addr[v] \in Lo..(Hi - 1) /\ A.size[v] \in 1..(Hi - Lo)
  BY <1>1, FieldTypes
<1>3. lo = A.addr[v] + A.size[v] /\ lo \in Int /\ hi \in Int /\ lo <= hi /\ hi <= Hi
  BY <1>1 DEF Holed, EndOf, vma_hi
<1>4. hi - A.addr[v] \in 1..(Hi - Lo)
  BY <1>2, <1>3, ConstantsAssumption
<1>5. /\ B \in AllocatorType
      /\ B.list = A.list /\ B.byAddr = A.byAddr /\ B.bySize = A.bySize /\ B.heap = A.heap
      /\ B.addr = [A.addr EXCEPT ![v] = A.addr[v]]
      /\ B.size = [A.size EXCEPT ![v] = hi - A.addr[v]]
      /\ B.zero = A.zero /\ B.failed = A.failed
  BY <1>1, <1>2, <1>4, SetBoundsLemma
<1>5a. Later(A, B) /\ Blamed(B)
  BY <1>5 DEF Holed, Later, Blamed
<1>6. B.addr = A.addr
  BY <1>1, <1>5, FieldTypes
<1>7. /\ vma_hi(B, v) = hi
      /\ \A w \in Vma : w # v => B.size[w] = A.size[w] /\ vma_hi(B, w) = vma_hi(A, w)
  BY <1>1, <1>2, <1>3, <1>5, <1>6, FieldTypes, ConstantsAssumption DEF vma_hi
<1>8. A.byAddr \subseteq Vma
  BY <1>1, FieldTypes
<1>9. /\ \A x \in A.byAddr \cup {Head} : StartOf(B, x) = StartOf(A, x)
      /\ \A x \in A.byAddr \cup {Head} : x # v => EndOf(B, x) = EndOf(A, x)
      /\ EndOf(B, v) = hi
  BY <1>1, <1>6, <1>7, <1>8 DEF StartOf, EndOf
<1>10. \A x \in A.byAddr \cup {Head} : A.list.next[x] \in A.byAddr \cup {Head}
  BY DEF Holed, Linked
<1>11. Chained(B)
  <2>1. ASSUME NEW x \in A.byAddr \cup {Head} PROVE StartOf(B, A.list.next[x]) = EndOf(B, x)
    <3>1. StartOf(B, A.list.next[x]) = StartOf(A, A.list.next[x])
      BY <1>9, <1>10
    <3>2. CASE x = v
      BY <1>9, <3>1, <3>2 DEF Holed
    <3>3. CASE x # v
      BY <1>9, <3>1, <3>3 DEF Holed
    <3> QED BY <3>2, <3>3
  <2> QED BY <1>5, <2>1 DEF Chained
<1>12. \A w \in A.byAddr : A.addr[w] \in Int /\ A.size[w] \in Int /\ 1 <= A.size[w]
  BY <1>1, <1>8, FieldTypes, ConstantsAssumption
<1>13. NoOverlap(B)
  <2>1. ASSUME NEW w \in A.byAddr, w # v
        PROVE  vma_hi(B, w) <= B.addr[v] \/ vma_hi(B, v) <= B.addr[w]
    <3>1. vma_hi(A, w) <= A.addr[v] \/ vma_hi(A, v) <= A.addr[w]
      BY <2>1 DEF Holed, NoOverlap
    <3>2. vma_hi(A, w) <= lo \/ hi <= A.addr[w]
      BY DEF Holed
    <3> QED BY <1>2, <1>3, <1>6, <1>7, <1>8, <1>12, <2>1, <3>1, <3>2, ConstantsAssumption DEF vma_hi
  <2>2. \A w, x \in A.byAddr :
           w # x /\ w # v /\ x # v => vma_hi(B, w) <= B.addr[x] \/ vma_hi(B, x) <= B.addr[w]
    BY <1>6, <1>7, <1>8 DEF Holed, NoOverlap
  <2> QED BY <1>5, <2>1, <2>2 DEF NoOverlap
<1>14. Covered(B)
  <2>1. SUFFICES ASSUME NEW q \in Lo..(Hi - 1)
                 PROVE  \E w \in A.byAddr : B.addr[w] <= q /\ q < vma_hi(B, w)
    BY <1>5 DEF Covered
  <2>2. CASE lo <= q /\ q < hi
    BY <1>2, <1>3, <1>6, <1>7, <2>2, ConstantsAssumption
  <2>3. CASE q < lo \/ hi <= q
    <3>1. PICK w \in A.byAddr : A.addr[w] <= q /\ q < vma_hi(A, w)
      BY <2>3 DEF Holed
    <3>2. CASE w = v
      BY <1>2, <1>3, <1>6, <1>7, <3>1, <3>2, ConstantsAssumption DEF vma_hi
    <3>3. CASE w # v
      BY <1>6, <1>7, <1>8, <3>1, <3>3
    <3> QED BY <3>2, <3>3
  <2> QED BY <1>3, <2>2, <2>3, ConstantsAssumption
<1>15. Tiled(B)
  BY <1>5, <1>5a, <1>11, <1>13, <1>14 DEF Holed, Tiled
<1> QED BY <1>5, <1>5a, <1>6, <1>7, <1>15

(* free() of a struct that is in no structure leaves the hole as it is. *)
LEMMA StructFreeLemma ==
    ASSUME NEW A, NEW p, NEW lo, NEW hi, Holed(A, p, lo, hi),
           NEW v \in Vma \ A.byAddr,
           NEW B, B = StructFree(A, v)
    PROVE  /\ Holed(B, p, lo, hi)
           /\ B.list = A.list /\ B.byAddr = A.byAddr /\ B.bySize = A.bySize
           /\ B.heap = A.heap \ {v}
           /\ \A w \in A.byAddr : B.addr[w] = A.addr[w] /\ B.size[w] = A.size[w]
           /\ Later(A, B)
<1> DEFINE h == Lo + 1
           C == SetBounds(A, v, Lo, h)
<1>1. A \in AllocatorType /\ v \in Vma /\ Lo \in Lo..(Hi - 1) /\ h - Lo \in 1..(Hi - Lo)
  BY ConstantsAssumption DEF Holed
<1>2. B = [C EXCEPT !.heap = @ \ {v}]
  BY DEF StructFree
<1> HIDE DEF h
<1>3. /\ C \in AllocatorType
      /\ C.addr = [A.addr EXCEPT ![v] = Lo] /\ C.size = [A.size EXCEPT ![v] = h - Lo]
      /\ C.list = A.list /\ C.byAddr = A.byAddr /\ C.bySize = A.bySize /\ C.heap = A.heap
      /\ C.zero = A.zero /\ C.failed = A.failed
  BY <1>1, SetBoundsLemma
<1> HIDE DEF C
<1>4. /\ B \in AllocatorType
      /\ B.list = A.list /\ B.byAddr = A.byAddr /\ B.bySize = A.bySize
      /\ B.heap = A.heap \ {v} /\ B.addr = C.addr /\ B.size = C.size
      /\ B.zero = A.zero /\ B.failed = A.failed
  BY <1>2, <1>3 DEF AllocatorType
<1>4a. Later(A, B) /\ Blamed(B)
  BY <1>4 DEF Holed, Later, Blamed
<1>5. \A w \in A.byAddr : /\ B.addr[w] = A.addr[w] /\ B.size[w] = A.size[w]
  BY <1>1, <1>3, <1>4, FieldTypes
<1>6. \A w \in A.byAddr : vma_hi(B, w) = vma_hi(A, w)
  BY <1>5 DEF vma_hi
<1>7. \A x \in A.byAddr \cup {Head} : EndOf(B, x) = EndOf(A, x) /\ StartOf(B, x) = StartOf(A, x)
  BY <1>5, <1>6 DEF EndOf, StartOf
<1>8. \A x \in A.byAddr \cup {Head} : A.list.next[x] \in A.byAddr \cup {Head}
  BY DEF Holed, Linked
<1>9. \A x \in B.byAddr \cup {Head} : x # p => StartOf(B, B.list.next[x]) = EndOf(B, x)
  BY <1>4, <1>7, <1>8 DEF Holed
<1>10. EndOf(B, p) = lo /\ StartOf(B, B.list.next[p]) = hi
  BY <1>4, <1>7, <1>8 DEF Holed
<1>11. NoOverlap(B)
  BY <1>4, <1>5, <1>6 DEF Holed, NoOverlap
<1>12. \A w \in B.byAddr : vma_hi(B, w) <= lo \/ hi <= B.addr[w]
  BY <1>4, <1>5, <1>6 DEF Holed
<1>13. \A q \in Lo..(Hi - 1) :
          q < lo \/ hi <= q =>
             \E w \in B.byAddr : B.addr[w] <= q /\ q < vma_hi(B, w)
  BY <1>4, <1>5, <1>6 DEF Holed
<1>14. Holed(B, p, lo, hi)
  BY <1>4, <1>4a, <1>9, <1>10, <1>11, <1>12, <1>13 DEF Holed
<1> QED BY <1>4, <1>4a, <1>5, <1>14

(* The tiling, and a hole of it, is a matter of the list and the bounds. *)
LEMMA SameBounds ==
    ASSUME NEW A, NEW B, B.addr = A.addr, B.size = A.size
    PROVE  /\ \A x : vma_hi(B, x) = vma_hi(A, x)
           /\ \A x : EndOf(B, x) = EndOf(A, x) /\ StartOf(B, x) = StartOf(A, x)
<1>1. \A x : vma_hi(B, x) = vma_hi(A, x)
  BY DEF vma_hi
<1> QED BY <1>1 DEF EndOf, StartOf

LEMMA TiledSame ==
    ASSUME NEW A, Tiled(A), NEW B, B \in AllocatorType, Blamed(B), B.bySize \subseteq A.byAddr,
           B.list = A.list, B.byAddr = A.byAddr, B.addr = A.addr, B.size = A.size
    PROVE  Tiled(B)
<1>1. /\ \A x : vma_hi(B, x) = vma_hi(A, x)
      /\ \A x : EndOf(B, x) = EndOf(A, x) /\ StartOf(B, x) = StartOf(A, x)
  BY SameBounds
<1>2. Chained(B)
  BY <1>1 DEF Tiled, Chained
<1>3. NoOverlap(B)
  BY <1>1 DEF Tiled, NoOverlap
<1>4. Covered(B)
  BY <1>1 DEF Tiled, Covered
<1> QED BY <1>2, <1>3, <1>4 DEF Tiled

LEMMA HoledSame ==
    ASSUME NEW A, NEW p, NEW lo, NEW hi, Holed(A, p, lo, hi),
           NEW B, B \in AllocatorType, Blamed(B), B.bySize \subseteq A.byAddr,
           B.list = A.list, B.byAddr = A.byAddr, B.addr = A.addr, B.size = A.size
    PROVE  Holed(B, p, lo, hi)
<1>1. /\ \A x : vma_hi(B, x) = vma_hi(A, x)
      /\ \A x : EndOf(B, x) = EndOf(A, x) /\ StartOf(B, x) = StartOf(A, x)
  BY SameBounds
<1>2. NoOverlap(B)
  BY <1>1 DEF Holed, NoOverlap
<1> QED BY <1>1, <1>2 DEF Holed

(* The treap BY_SIZE plays no part in the tiling, nor in a hole of it. *)
LEMMA TiledInsert ==
    ASSUME NEW A, Tiled(A), NEW v \in A.byAddr,
           NEW B, B = treap_insert(A, v, "BY_SIZE")
    PROVE  /\ Tiled(B) /\ B.bySize = A.bySize \cup {v}
           /\ B.list = A.list /\ B.byAddr = A.byAddr /\ B.heap = A.heap
           /\ B.addr = A.addr /\ B.size = A.size
           /\ Later(A, B)
<1>1. A \in AllocatorType /\ v \in Vma /\ Blamed(A) /\ A.bySize \subseteq A.byAddr
  BY TiledFacts DEF Tiled
<1>2. /\ B \in AllocatorType
      /\ B.list = A.list /\ B.addr = A.addr /\ B.size = A.size
      /\ B.byAddr = A.byAddr /\ B.bySize = A.bySize \cup {v} /\ B.heap = A.heap
      /\ B.failed = A.failed
      /\ Later(A, B) /\ (Blamed(A) => Blamed(B))
  BY ONLY <1>1, B = treap_insert(A, v, "BY_SIZE"), InsertBySize
<1>2a. B.bySize \subseteq A.byAddr
  BY <1>1, <1>2
<1>3. Tiled(B)
  BY <1>1, <1>2, <1>2a, TiledSame
<1> QED BY <1>2, <1>3

LEMMA TiledRemove ==
    ASSUME NEW A, Tiled(A), NEW v \in A.byAddr,
           NEW B, B = treap_remove(A, v, "BY_SIZE")
    PROVE  /\ Tiled(B) /\ B.bySize = A.bySize \ {v}
           /\ B.list = A.list /\ B.byAddr = A.byAddr /\ B.heap = A.heap
           /\ B.addr = A.addr /\ B.size = A.size
           /\ Later(A, B)
<1>1. A \in AllocatorType /\ v \in Vma /\ Blamed(A) /\ A.bySize \subseteq A.byAddr
  BY TiledFacts DEF Tiled
<1>2. /\ B \in AllocatorType
      /\ B.list = A.list /\ B.addr = A.addr /\ B.size = A.size
      /\ B.byAddr = A.byAddr /\ B.bySize = A.bySize \ {v} /\ B.heap = A.heap
      /\ B.zero = A.zero /\ (<<"BY_SIZE", v>> \in A.zero => B.failed)
      /\ Later(A, B) /\ (Blamed(A) => Blamed(B))
  BY ONLY <1>1, B = treap_remove(A, v, "BY_SIZE"), RemoveBySize
<1>2a. B.bySize \subseteq A.byAddr
  BY <1>1, <1>2
<1>3. Tiled(B)
  BY <1>1, <1>2, <1>2a, TiledSame
<1> QED BY <1>2, <1>3

LEMMA HoledRemove ==
    ASSUME NEW A, NEW p, NEW lo, NEW hi, Holed(A, p, lo, hi), NEW v \in A.byAddr,
           NEW B, B = treap_remove(A, v, "BY_SIZE")
    PROVE  /\ Holed(B, p, lo, hi) /\ B.bySize = A.bySize \ {v}
           /\ B.list = A.list /\ B.byAddr = A.byAddr /\ B.heap = A.heap
           /\ B.addr = A.addr /\ B.size = A.size
           /\ Later(A, B)
<1>1. A \in AllocatorType /\ v \in Vma /\ Blamed(A) /\ A.bySize \subseteq A.byAddr
  BY FieldTypes DEF Holed
<1>2. /\ B \in AllocatorType
      /\ B.list = A.list /\ B.addr = A.addr /\ B.size = A.size
      /\ B.byAddr = A.byAddr /\ B.bySize = A.bySize \ {v} /\ B.heap = A.heap
      /\ B.zero = A.zero /\ (<<"BY_SIZE", v>> \in A.zero => B.failed)
      /\ Later(A, B) /\ (Blamed(A) => Blamed(B))
  BY ONLY <1>1, B = treap_remove(A, v, "BY_SIZE"), RemoveBySize
<1>2a. B.bySize \subseteq A.byAddr
  BY <1>1, <1>2
<1>3. Holed(B, p, lo, hi)
  BY <1>1, <1>2, <1>2a, HoledSame
<1> QED BY <1>2, <1>3

(* Nor do the asserts. *)
LEMMA TiledAsserted ==
    ASSUME NEW A, Tiled(A), NEW cond \in BOOLEAN, ~cond => A.zero # {},
           NEW B, B = asserted(A, cond)
    PROVE  /\ Tiled(B) /\ B.bySize = A.bySize
           /\ B.list = A.list /\ B.byAddr = A.byAddr /\ B.heap = A.heap
           /\ B.addr = A.addr /\ B.size = A.size
           /\ Later(A, B)
<1>1. A \in AllocatorType /\ Blamed(A) /\ A.bySize \subseteq A.byAddr
  BY DEF Tiled
<1>2. /\ B \in AllocatorType
      /\ B.list = A.list /\ B.addr = A.addr /\ B.size = A.size
      /\ B.byAddr = A.byAddr /\ B.bySize = A.bySize /\ B.heap = A.heap
      /\ B.zero = A.zero /\ B.draws = A.draws
      /\ B.failed = (A.failed \/ ~cond)
      /\ Later(A, B) /\ (Blamed(A) => Blamed(B))
  BY ONLY <1>1, cond \in BOOLEAN, ~cond => A.zero # {}, B = asserted(A, cond), AssertedLemma
<1>2a. B.bySize \subseteq A.byAddr
  BY <1>1, <1>2
<1>3. Tiled(B)
  BY <1>1, <1>2, <1>2a, TiledSame
<1> QED BY <1>2, <1>3

(* vma_merge keeps the tiling; the successor u of v leaves the allocator   *)
(* and the heap, and nothing else than v and u changes.                    *)
LEMMA MergeLemma ==
    ASSUME NEW A, Tiled(A), A.heap = A.byAddr,
           NEW v \in A.bySize, NEW u \in A.bySize, u = A.list.next[v],
           NEW B, B = vma_merge(A, v)
    PROVE  /\ Tiled(B) /\ B.heap = B.byAddr
           /\ B.byAddr = A.byAddr \ {u} /\ B.bySize = A.bySize \ {u}
           /\ \A w \in A.byAddr \ {v, u} : B.addr[w] = A.addr[w] /\ B.size[w] = A.size[w]
           /\ \A y \in Node \ {v, u} : B.list.next[y] = A.list.next[y]
           /\ B.list.next[v] = A.list.next[u]
           /\ Later(A, B)
<1> DEFINE cond == is_vma_free(A, v) /\ is_vma_free(A, u)
           G == asserted(A, cond)
           C == Unlink(G, u)
           D == StructFree(C, u)
           E == treap_remove(D, v, "BY_SIZE")
           F == SetBounds(E, v, D.addr[v], vma_hi(A, u))
           lo == A.addr[u]
           hi == vma_hi(A, u)
<1>0. B = treap_insert(F, v, "BY_SIZE")
  BY DEF vma_merge, Resize
<1>1. v \in A.byAddr /\ u \in A.byAddr /\ v # u /\ A.list.prev[u] = v /\ v \in Vma
  BY TiledFacts DEF Tiled
<1>1a. cond \in BOOLEAN /\ (~cond => A.zero # {})
  BY DEF is_vma_free
<1> HIDE DEF cond
<1>1b. /\ Tiled(G) /\ G.bySize = A.bySize
       /\ G.list = A.list /\ G.byAddr = A.byAddr /\ G.heap = A.heap
       /\ G.addr = A.addr /\ G.size = A.size
       /\ Later(A, G)
  BY <1>1a, TiledAsserted
<1> HIDE DEF G
<1>1c. vma_hi(G, u) = hi
  BY <1>1b DEF vma_hi
<1>2. /\ Holed(C, v, lo, hi)
      /\ C.byAddr = A.byAddr \ {u} /\ C.bySize = A.bySize \ {u}
      /\ C.heap = A.heap /\ C.addr = A.addr /\ C.size = A.size
      /\ \A y \in Node : C.list.next[y] =
            IF y = u THEN u ELSE IF y = v THEN A.list.next[u] ELSE A.list.next[y]
      /\ Later(G, C)
  BY <1>1, <1>1b, <1>1c, UnlinkLemma
<1>3. u \in Vma \ C.byAddr
  BY <1>1, <1>2, TiledFacts
<1> HIDE DEF C, lo, hi
<1>4. /\ Holed(D, v, lo, hi)
      /\ D.list = C.list /\ D.byAddr = C.byAddr /\ D.bySize = C.bySize
      /\ D.heap = C.heap \ {u}
      /\ \A w \in C.byAddr : D.addr[w] = C.addr[w] /\ D.size[w] = C.size[w]
      /\ Later(C, D)
  BY <1>2, <1>3, StructFreeLemma
<1>5. v \in D.byAddr /\ D.addr[v] = A.addr[v]
  BY <1>1, <1>2, <1>4
<1> HIDE DEF D
<1>6. /\ Holed(E, v, lo, hi) /\ E.bySize = D.bySize \ {v}
      /\ E.list = D.list /\ E.byAddr = D.byAddr /\ E.heap = D.heap
      /\ E.addr = D.addr /\ E.size = D.size
      /\ Later(D, E)
  BY <1>4, <1>5, HoledRemove
<1>6a. v \in E.byAddr /\ F = SetBounds(E, v, E.addr[v], hi)
  BY <1>5, <1>6 DEF hi
<1> HIDE DEF E, F
<1>7. /\ Tiled(F)
      /\ F.list = E.list /\ F.byAddr = E.byAddr /\ F.bySize = E.bySize
      /\ F.heap = E.heap /\ F.addr = E.addr
      /\ \A w \in Vma : w # v => F.size[w] = E.size[w]
      /\ Later(E, F)
  BY <1>6, <1>6a, GrowLemma
<1>7a. v \in F.byAddr
  BY <1>6a, <1>7
<1>7b. /\ Tiled(B) /\ B.bySize = F.bySize \cup {v}
       /\ B.list = F.list /\ B.byAddr = F.byAddr /\ B.heap = F.heap
       /\ B.addr = F.addr /\ B.size = F.size
       /\ Later(F, B)
  BY <1>0, <1>7, <1>7a, TiledInsert
<1>8. B.heap = B.byAddr /\ B.byAddr = A.byAddr \ {u} /\ B.bySize = A.bySize \ {u}
  <2>1. v \in A.bySize /\ v # u
    BY <1>1
  <2> QED BY <1>2, <1>4, <1>6, <1>7, <1>7b, <2>1
<1>9. A.byAddr \subseteq Vma /\ v \in Node
  BY TiledFacts, <1>1 DEF Node
<1>10. \A w \in A.byAddr \ {v, u} : B.addr[w] = A.addr[w] /\ B.size[w] = A.size[w]
  BY <1>2, <1>4, <1>6, <1>7, <1>7b, <1>9
<1>11. /\ \A y \in Node \ {v, u} : B.list.next[y] = A.list.next[y]
       /\ B.list.next[v] = A.list.next[u]
  BY <1>1, <1>2, <1>4, <1>6, <1>7, <1>7b, <1>9
<1>12. Later(A, B)
  BY <1>1b, <1>2, <1>4, <1>6, <1>7, <1>7b DEF Later
<1> QED BY <1>7b, <1>8, <1>10, <1>11, <1>12

(* The neighbours of a VMA are two different VMAs. *)
LEMMA NeighboursDiffer ==
    ASSUME NEW A, Tiled(A), NEW v \in A.byAddr, A.list.next[v] # Head
    PROVE  A.list.next[A.list.next[v]] # v
<1> DEFINE u == A.list.next[v]
<1>1. u \in A.byAddr
  BY TiledFacts
<1>2. SUFFICES ASSUME A.list.next[u] = v PROVE FALSE
  OBVIOUS
<1>3. StartOf(A, u) = vma_hi(A, v) /\ StartOf(A, v) = vma_hi(A, u) /\ v # Head /\ u # Head
  BY <1>1, <1>2, TiledFacts
<1> HIDE DEF u
<1> QED BY <1>1, <1>3, TiledFacts DEF StartOf, vma_hi

(* vma_free gives v back, merges it with the free VMAs around it, and      *)
(* changes no VMA that is still in use.                                    *)
LEMMA FreeLemma ==
    ASSUME NEW A, Sound(A), NEW v \in Used(A)
    PROVE  /\ Sound(vma_free(A, v))
           /\ Used(vma_free(A, v)) = Used(A) \ {v}
           /\ SameUsed(A, vma_free(A, v))
           /\ Later(A, vma_free(A, v))
<1> DEFINE p == A.list.prev[v]
           u == A.list.next[v]
           cond == ~is_vma_free(A, v)
           G == asserted(A, cond)
           B == treap_insert(G, v, "BY_SIZE")
           C == IF u # Head /\ is_vma_free(B, u) THEN vma_merge(B, v) ELSE B
           D == IF p # Head /\ is_vma_free(C, p) THEN vma_merge(C, p) ELSE C
<1>1. /\ v \in A.byAddr /\ v \notin A.bySize /\ Tiled(A) /\ A.bySize \subseteq A.byAddr
      /\ A \in AllocatorType /\ A.heap = A.byAddr
  BY DEF Used, Sound, Tiled
<1>2. /\ p \in A.byAddr \cup {Head} /\ u \in A.byAddr \cup {Head} /\ p # v /\ u # v
      /\ A.list.next[p] = v /\ v # Head
  BY <1>1, TiledFacts
<1>3. u # Head => A.list.next[u] # v
  BY <1>1, NeighboursDiffer
<1>4. \A x \in A.byAddr \cup {Head} :
         x # p => A.list.next[x] # v /\ A.list.next[x] \in A.byAddr \cup {Head}
  BY <1>1 DEF Tiled, Linked
<1>5. A.byAddr \cup {Head} \subseteq Node /\ Head \notin A.byAddr
  BY <1>1, TiledFacts
<1>6. D = vma_free(A, v)
  BY DEF vma_free
<1>6a. cond \in BOOLEAN /\ (~cond => A.zero # {})
  BY <1>1 DEF is_vma_free
<1> HIDE DEF cond
<1>6b. /\ Tiled(G) /\ G.bySize = A.bySize
       /\ G.list = A.list /\ G.byAddr = A.byAddr /\ G.heap = A.heap
       /\ G.addr = A.addr /\ G.size = A.size
       /\ Later(A, G)
  BY <1>1, <1>6a, TiledAsserted
<1> HIDE DEF G
<1>6c. v \in G.byAddr
  BY <1>1, <1>6b
<1>6d. /\ Tiled(B) /\ B.bySize = G.bySize \cup {v}
       /\ B.list = G.list /\ B.byAddr = G.byAddr /\ B.heap = G.heap
       /\ B.addr = G.addr /\ B.size = G.size
       /\ Later(G, B)
  BY <1>6b, <1>6c, TiledInsert
<1> HIDE DEF B
<1>7. /\ Tiled(B) /\ B.heap = B.byAddr /\ B.bySize = A.bySize \cup {v}
      /\ B.list = A.list /\ B.byAddr = A.byAddr /\ B.addr = A.addr /\ B.size = A.size
      /\ Later(A, B)
  BY <1>1, <1>6b, <1>6d DEF Later
<1> HIDE DEF p, u
<1>8. /\ Tiled(C) /\ C.heap = C.byAddr /\ v \in C.bySize
      /\ Used(C) = Used(A) \ {v}
      /\ SameUsed(A, C)
      /\ p # Head => C.list.next[p] = v
      /\ Later(A, C)
      /\ CoalescedIn(A) => /\ C.list.next[v] \notin FreeVmas(C)
                           /\ \A x \in FreeVmas(C) \ {p} : C.list.next[x] \notin FreeVmas(C)
  <2>1. CASE u # Head /\ u \in FreeVmas(B)
    <3>1. C = vma_merge(B, v)
      BY <2>1 DEF FreeVmas
    <3> HIDE DEF C
    <3>2. v \in B.bySize /\ u \in B.bySize /\ u = B.list.next[v] /\ u \in A.bySize
      BY <1>2, <1>7, <2>1 DEF u, FreeVmas
    <3>3. /\ Tiled(C) /\ C.heap = C.byAddr
          /\ C.byAddr = B.byAddr \ {u} /\ C.bySize = B.bySize \ {u}
          /\ \A w \in B.byAddr \ {v, u} : C.addr[w] = B.addr[w] /\ C.size[w] = B.size[w]
          /\ \A y \in Node \ {v, u} : C.list.next[y] = B.list.next[y]
          /\ C.list.next[v] = B.list.next[u]
          /\ Later(B, C)
      BY <1>7, <3>1, <3>2, MergeLemma
    <3>4. Used(C) = Used(A) \ {v} /\ v \in C.bySize
      BY <1>2, <1>7, <3>2, <3>3 DEF Used
    <3>5. SameUsed(A, C)
      BY <1>7, <3>2, <3>3, <3>4 DEF SameUsed, Used
    <3>6. p # u
      BY <1>2, <1>3, <2>1
    <3>7. p # Head => C.list.next[p] = v
      BY <1>2, <1>5, <1>7, <3>3, <3>6
    <3>8. Later(A, C)
      BY <1>7, <3>3 DEF Later
    <3>9. ASSUME CoalescedIn(A)
          PROVE  /\ C.list.next[v] \notin FreeVmas(C)
                 /\ \A x \in FreeVmas(C) \ {p} : C.list.next[x] \notin FreeVmas(C)
      <4>1. u \in FreeVmas(A)
        BY <1>7, <2>1, <3>2, FreeLater
      <4>2. \A x \in FreeVmas(C) : x \in A.bySize => x \in FreeVmas(A)
        BY <3>8, FreeLater
      <4>3. FreeVmas(C) \subseteq (A.bySize \cup {v}) \ {u}
        BY <1>7, <3>3 DEF FreeVmas
      <4>4. \A x \in FreeVmas(A) : A.list.next[x] \notin FreeVmas(A)
        BY <3>9, CoalescedFacts
      <4>5. C.list.next[v] \notin FreeVmas(C)
        <5>1. C.list.next[v] = A.list.next[u] /\ A.list.next[u] # v
          BY <1>3, <1>7, <2>1, <3>3
        <5>2. A.list.next[u] \notin FreeVmas(A)
          BY <4>1, <4>4
        <5> QED BY <4>2, <4>3, <5>1, <5>2
      <4>6. ASSUME NEW x \in FreeVmas(C), x # p, x # v
            PROVE  C.list.next[x] \notin FreeVmas(C)
        <5>1. x \in FreeVmas(A) /\ x # u /\ x \in A.byAddr
          BY <1>1, <4>2, <4>3, <4>6
        <5>2. C.list.next[x] = A.list.next[x] /\ A.list.next[x] # v
          BY <1>4, <1>5, <1>7, <3>3, <4>6, <5>1
        <5>3. A.list.next[x] \notin FreeVmas(A)
          BY <4>4, <5>1
        <5> QED BY <4>2, <4>3, <5>2, <5>3
      <4> QED BY <4>5, <4>6
    <3> QED BY <3>3, <3>4, <3>5, <3>7, <3>8, <3>9
  <2>2. CASE ~(u # Head /\ u \in FreeVmas(B))
    <3>1. C = B
      BY <2>2 DEF FreeVmas, is_vma_free
    <3> HIDE DEF C
    <3>2. u \notin FreeVmas(B)
      <4>1. CASE u = Head
        BY <1>1, <1>5, <1>7, <4>1, TiledFacts DEF Tiled, FreeVmas
      <4> QED BY <2>2, <4>1
    <3>3. Used(C) = Used(A) \ {v} /\ v \in C.bySize /\ SameUsed(A, C)
      BY <1>1, <1>7, <3>1 DEF Used, SameUsed
    <3>4. ASSUME CoalescedIn(A)
          PROVE  /\ C.list.next[v] \notin FreeVmas(C)
                 /\ \A x \in FreeVmas(C) \ {p} : C.list.next[x] \notin FreeVmas(C)
      <4>1. C.list.next[v] \notin FreeVmas(C)
        BY <1>7, <3>1, <3>2 DEF u
      <4>2. \A x \in FreeVmas(A) : A.list.next[x] \notin FreeVmas(A)
        BY <3>4, CoalescedFacts
      <4>3. \A x \in FreeVmas(B) : x # v => x \in FreeVmas(A) /\ x \in A.byAddr
        <5>1. \A x \in FreeVmas(B) : x \in A.bySize \cup {v}
          BY <1>7, FreeLater
        <5> QED BY <1>1, <1>7, <5>1, FreeLater
      <4>4. ASSUME NEW x \in FreeVmas(B), x # p, x # v
            PROVE  B.list.next[x] \notin FreeVmas(B)
        <5>1. x \in FreeVmas(A) /\ x \in A.byAddr
          BY <4>3, <4>4
        <5>2. B.list.next[x] = A.list.next[x] /\ A.list.next[x] # v
          BY <1>4, <1>7, <4>4, <5>1
        <5> QED BY <4>2, <4>3, <5>1, <5>2
      <4> QED BY <3>1, <4>1, <4>4
    <3> QED BY <1>2, <1>7, <3>1, <3>3, <3>4
  <2> QED BY <2>1, <2>2
<1> HIDE DEF C
<1>9. Sound(D) /\ Used(D) = Used(A) \ {v} /\ SameUsed(A, D) /\ Later(A, D)
  <2>1. CASE p # Head /\ p \in FreeVmas(C)
    <3>1. D = vma_merge(C, p)
      BY <2>1 DEF FreeVmas
    <3> HIDE DEF D
    <3>1a. p \in C.bySize
      BY <2>1 DEF FreeVmas
    <3>2. /\ Tiled(D) /\ D.heap = D.byAddr
          /\ D.byAddr = C.byAddr \ {v} /\ D.bySize = C.bySize \ {v}
          /\ \A w \in C.byAddr \ {p, v} : D.addr[w] = C.addr[w] /\ D.size[w] = C.size[w]
          /\ \A y \in Node \ {p, v} : D.list.next[y] = C.list.next[y]
          /\ D.list.next[p] = C.list.next[v]
          /\ Later(C, D)
      BY <1>8, <2>1, <3>1, <3>1a, MergeLemma
    <3>3. Used(D) = Used(C)
      BY <1>8, <3>2 DEF Used
    <3>4. SameUsed(A, D)
      BY <1>8, <3>1a, <3>2, <3>3 DEF SameUsed, Used
    <3>5. C.bySize \subseteq Node
      BY <1>8, FieldTypes DEF Tiled, Node
    <3>6. Later(A, D)
      BY <1>8, <3>2 DEF Later
    <3>7. ASSUME CoalescedIn(A) PROVE CoalescedIn(D)
      <4>1. FreeVmas(D) \subseteq FreeVmas(C) /\ FreeVmas(D) \subseteq C.bySize \ {v}
        BY <3>2, FreeLater
      <4>2. \A x \in FreeVmas(D) : D.list.next[x] \notin FreeVmas(D)
        BY <1>2, <1>8, <3>2, <3>5, <3>7, <4>1
      <4> QED BY <4>2, CoalescedFacts
    <3> QED BY <1>8, <3>2, <3>3, <3>4, <3>6, <3>7 DEF Sound, Later
  <2>2. CASE ~(p # Head /\ p \in FreeVmas(C))
    <3>1. D = C
      BY <2>2 DEF FreeVmas, is_vma_free
    <3> HIDE DEF D
    <3>2. Head \notin FreeVmas(C)
      BY <1>8, ConstantsAssumption, FieldTypes DEF Tiled, FreeVmas
    <3>3. ASSUME CoalescedIn(A) PROVE CoalescedIn(C)
      <4>1. \A x \in FreeVmas(C) : C.list.next[x] \notin FreeVmas(C)
        BY <1>8, <2>2, <3>2, <3>3
      <4> QED BY <4>1, CoalescedFacts
    <3> QED BY <1>8, <3>1, <3>3 DEF Sound, Later
  <2> QED BY <2>1, <2>2
<1> HIDE DEF D
<1> QED BY <1>6, <1>9

(* Filling a hole between VMAs in use makes no two free VMAs neighbours. *)
LEMMA InsertFreeCoalesced ==
    ASSUME NEW A, NEW p, NEW lo, NEW hi, Holed(A, p, lo, hi),
           NEW v \in Vma \ A.byAddr, NEW m \in Int, lo <= m, m < hi,
           NEW B, B = InsertFree(A, p, v, m, hi)
    PROVE  /\ CoalescedIn(A) /\ p \notin FreeVmas(A) /\ A.list.next[p] \notin FreeVmas(A)
           => CoalescedIn(B) /\ p \notin FreeVmas(B)
<1>1. /\ Holed(B, p, lo, m)
      /\ B.byAddr = A.byAddr \cup {v}
      /\ B.bySize = A.bySize \cup {v}
      /\ B.heap = A.heap
      /\ B.addr = [A.addr EXCEPT ![v] = m]
      /\ B.size = [A.size EXCEPT ![v] = hi - m]
      /\ \A y \in Node : B.list.next[y] =
            IF y = p THEN v ELSE IF y = v THEN A.list.next[p] ELSE A.list.next[y]
      /\ Later(A, B)
  BY InsertFreeLemma
<1>2. \A x \in A.byAddr \cup {Head} : A.list.next[x] \in A.byAddr \cup {Head}
  BY DEF Holed, Linked
<1>3. /\ A.byAddr \subseteq Node /\ v \in Node /\ A.bySize \subseteq A.byAddr
      /\ v \notin A.byAddr \cup {Head} /\ p \in A.byAddr \cup {Head}
  BY ConstantsAssumption, FieldTypes DEF Holed, Node
<1>4. \A x \in FreeVmas(B) : x # v => x \in FreeVmas(A) /\ x \in A.byAddr
  <2>1. \A x \in FreeVmas(B) : x \in A.bySize \cup {v}
    BY <1>1, FreeLater
  <2> QED BY <1>1, <1>3, <2>1, FreeLater
<1>5. SUFFICES ASSUME CoalescedIn(A), p \notin FreeVmas(A), A.list.next[p] \notin FreeVmas(A)
               PROVE  CoalescedIn(B) /\ p \notin FreeVmas(B)
  OBVIOUS
<1>6. p \notin FreeVmas(B)
  BY <1>3, <1>4, <1>5
<1>7. \A x \in FreeVmas(B) : B.list.next[x] \notin FreeVmas(B)
  <2> SUFFICES ASSUME NEW x \in FreeVmas(B) PROVE B.list.next[x] \notin FreeVmas(B)
    OBVIOUS
  <2>1. CASE x = v
    <3>1. B.list.next[x] = A.list.next[p] /\ A.list.next[p] # v
      BY <1>1, <1>2, <1>3, <2>1
    <3> QED BY <1>4, <1>5, <3>1
  <2>2. CASE x # v
    <3>1. x \in FreeVmas(A) /\ x \in A.byAddr /\ x # p
      BY <1>4, <1>6, <2>2
    <3>2. B.list.next[x] = A.list.next[x] /\ A.list.next[x] # v
      BY <1>1, <1>2, <1>3, <2>2, <3>1
    <3>3. A.list.next[x] \notin FreeVmas(A)
      BY <1>5, <3>1, CoalescedFacts
    <3> QED BY <1>4, <3>2, <3>3
  <2> QED BY <2>1, <2>2
<1>8. CoalescedIn(B)
  BY <1>7, CoalescedFacts
<1> QED BY <1>6, <1>8

LEMMA InsertUsedCoalesced ==
    ASSUME NEW A, NEW p, NEW lo, NEW hi, Holed(A, p, lo, hi),
           NEW v \in Vma \ A.byAddr, NEW m \in Int, lo <= m, m < hi,
           NEW B, B = InsertUsed(A, p, v, m, hi)
    PROVE  /\ CoalescedIn(A) /\ p \notin FreeVmas(A)
           => CoalescedIn(B) /\ p \notin FreeVmas(B) /\ B.list.next[p] \notin FreeVmas(B)
<1>1. /\ Holed(B, p, lo, m)
      /\ B.byAddr = A.byAddr \cup {v}
      /\ B.bySize = A.bySize
      /\ B.heap = A.heap
      /\ B.addr = [A.addr EXCEPT ![v] = m]
      /\ B.size = [A.size EXCEPT ![v] = hi - m]
      /\ \A y \in Node : B.list.next[y] =
            IF y = p THEN v ELSE IF y = v THEN A.list.next[p] ELSE A.list.next[y]
      /\ Later(A, B)
  BY InsertUsedLemma
<1>2. /\ A.byAddr \subseteq Node /\ v \in Node /\ A.bySize \subseteq A.byAddr
      /\ v \notin A.byAddr \cup {Head} /\ p \in Node
  BY ConstantsAssumption, FieldTypes DEF Holed, Node
<1>3. FreeVmas(B) \subseteq FreeVmas(A) /\ FreeVmas(A) \subseteq A.bySize
  <2>1. FreeVmas(B) \subseteq A.bySize
    BY <1>1, FreeLater
  <2> QED BY <1>1, <2>1, FreeLater DEF FreeVmas
<1>4. SUFFICES ASSUME CoalescedIn(A), p \notin FreeVmas(A)
               PROVE  /\ CoalescedIn(B) /\ p \notin FreeVmas(B)
                      /\ B.list.next[p] \notin FreeVmas(B)
  OBVIOUS
<1>5. \A x \in FreeVmas(A) : A.list.next[x] \notin FreeVmas(A)
  BY <1>4, CoalescedFacts
<1>6. p \notin FreeVmas(B) /\ B.list.next[p] \notin FreeVmas(B)
  BY <1>1, <1>2, <1>3, <1>4
<1>7. \A x \in FreeVmas(B) : B.list.next[x] = A.list.next[x]
  BY <1>1, <1>2, <1>3, <1>4
<1>8. CoalescedIn(B)
  BY <1>3, <1>5, <1>7, CoalescedFacts
<1> QED BY <1>6, <1>8

(* The structs new_lo and new_hi of vma_alloc_by_addr, without nullptr. *)
New(x) == {x} \ {NULL}

(* Carve takes v from the free VMAs and gives it the bounds asked for;     *)
(* what is left of it below and above goes to the two new structs.         *)
LEMMA CarveLemma ==
    ASSUME NEW A, Tiled(A), NEW v \in FreeVmas(A),
           NEW lo \in Int, NEW hi \in Int,
           A.addr[v] <= lo, lo < hi, hi <= vma_hi(A, v),
           NEW nl, IF A.addr[v] = lo THEN nl = NULL ELSE nl \in Vma \ A.byAddr,
           NEW nh, IF vma_hi(A, v) = hi THEN nh = NULL ELSE nh \in Vma \ A.byAddr,
           nl # nh \/ nl = NULL,
           NEW Z, Z = Carve(A, v, lo, hi, nl, nh)
    PROVE  /\ Tiled(Z) /\ Later(A, Z) /\ (CoalescedIn(A) => CoalescedIn(Z))
           /\ Z.byAddr = (A.byAddr \cup New(nl)) \cup New(nh)
           /\ Z.bySize = ((A.bySize \ {v}) \cup New(nl)) \cup New(nh)
           /\ Z.heap = A.heap
           /\ Z.addr[v] = lo /\ Z.size[v] = hi - lo
           /\ \A w \in A.byAddr \ {v} : Z.addr[w] = A.addr[w] /\ Z.size[w] = A.size[w]
<1> DEFINE vl == A.addr[v]
           vh == vma_hi(A, v)
           p  == A.list.prev[v]
           B  == Unlink(A, v)
           C  == IF nh = NULL THEN B ELSE InsertFree(B, p, nh, hi, vh)
           D  == InsertUsed(C, p, v, lo, hi)
<1>1. /\ v \in A.byAddr /\ v \in Vma /\ vl \in Int /\ vh \in Int /\ A \in AllocatorType
      /\ NULL \notin Vma /\ A.bySize \subseteq A.byAddr /\ A.byAddr \subseteq Vma
      /\ v \in A.bySize
  BY TiledFacts, ConstantsAssumption DEF Tiled, FreeVmas
<1>2. Z = IF nl = NULL THEN D ELSE InsertFree(D, p, nl, vl, lo)
  BY DEF Carve
<1>3. /\ Holed(B, p, vl, vh)
      /\ B.byAddr = A.byAddr \ {v} /\ B.bySize = A.bySize \ {v}
      /\ B.heap = A.heap /\ B.addr = A.addr /\ B.size = A.size
      /\ \A y \in Node : B.list.next[y] =
            IF y = v THEN v ELSE IF y = p THEN A.list.next[v] ELSE A.list.next[y]
      /\ Later(A, B)
  BY <1>1, UnlinkLemma
<1>4. CoalescedIn(A) =>
         CoalescedIn(B) /\ p \notin FreeVmas(B) /\ B.list.next[p] \notin FreeVmas(B)
  <2> SUFFICES ASSUME CoalescedIn(A)
               PROVE  /\ CoalescedIn(B) /\ p \notin FreeVmas(B)
                      /\ B.list.next[p] \notin FreeVmas(B)
    OBVIOUS
  <2>0. /\ FreeVmas(B) \subseteq FreeVmas(A) /\ v \notin FreeVmas(B)
        /\ \A x \in FreeVmas(A) : A.list.next[x] \notin FreeVmas(A)
        /\ FreeVmas(A) \subseteq A.byAddr
    <3>1. FreeVmas(B) \subseteq A.bySize \ {v}
      BY <1>3, FreeLater
    <3> QED BY <1>1, <1>3, <3>1, FreeLater, CoalescedFacts DEF FreeVmas
  <2>1. p # v /\ A.list.next[p] = v /\ p \in Node /\ A.byAddr \subseteq Node
    BY <1>1, TiledFacts
  <2>2. p \notin FreeVmas(A) /\ A.list.next[v] \notin FreeVmas(A)
    BY <2>0, <2>1
  <2>3. B.list.next[p] = A.list.next[v]
    BY <1>3, <2>1
  <2>4. \A x \in FreeVmas(B) : B.list.next[x] = A.list.next[x]
    BY <1>1, <1>3, <2>0, <2>1, <2>2
  <2>5. CoalescedIn(B)
    BY <2>0, <2>4, CoalescedFacts
  <2> QED BY <2>0, <2>2, <2>3, <2>5
<1> HIDE DEF B, p, vl, vh
<1>5. /\ Holed(C, p, vl, hi) /\ Later(B, C)
      /\ CoalescedIn(A) => CoalescedIn(C) /\ p \notin FreeVmas(C)
      /\ C.byAddr = (A.byAddr \ {v}) \cup New(nh)
      /\ C.bySize = (A.bySize \ {v}) \cup New(nh)
      /\ C.heap = A.heap
      /\ \A w \in A.byAddr \ {v} : C.addr[w] = A.addr[w] /\ C.size[w] = A.size[w]
  <2>1. CASE nh = NULL
    <3>1. C = B /\ vh = hi /\ New(nh) = {}
      BY <1>1, <2>1 DEF New, vh
    <3> QED BY <1>3, <1>4, <3>1 DEF Later
  <2>2. CASE nh # NULL
    <3>1. C = InsertFree(B, p, nh, hi, vh) /\ New(nh) = {nh}
      BY <2>2 DEF New
    <3>2. nh \in Vma \ A.byAddr /\ vh # hi /\ hi < vh /\ vl <= hi
      BY <1>1, <2>2 DEF vh, vl
    <3> HIDE DEF C
    <3>3. /\ Holed(C, p, vl, hi)
          /\ C.byAddr = B.byAddr \cup {nh} /\ C.bySize = B.bySize \cup {nh}
          /\ C.heap = B.heap
          /\ C.addr = [B.addr EXCEPT ![nh] = hi] /\ C.size = [B.size EXCEPT ![nh] = vh - hi]
          /\ Later(B, C)
      BY <1>3, <3>1, <3>2, InsertFreeLemma
    <3>4. CoalescedIn(A) => CoalescedIn(C) /\ p \notin FreeVmas(C)
      BY <1>3, <1>4, <3>1, <3>2, InsertFreeCoalesced
    <3>5. \A w \in A.byAddr \ {v} : C.addr[w] = A.addr[w] /\ C.size[w] = A.size[w]
      BY <1>1, <1>3, <3>2, <3>3, FieldTypes
    <3> QED BY <1>3, <3>1, <3>3, <3>4, <3>5
  <2> QED BY <2>1, <2>2
<1>6. v \in Vma \ C.byAddr /\ vl <= lo
  BY <1>1, <1>5 DEF New, vl
<1> HIDE DEF C
<1>7. /\ Holed(D, p, vl, lo) /\ Later(C, D)
      /\ CoalescedIn(A) =>
            CoalescedIn(D) /\ p \notin FreeVmas(D) /\ D.list.next[p] \notin FreeVmas(D)
      /\ D.byAddr = A.byAddr \cup New(nh)
      /\ D.bySize = (A.bySize \ {v}) \cup New(nh)
      /\ D.heap = A.heap /\ D.addr[v] = lo /\ D.size[v] = hi - lo
      /\ \A w \in A.byAddr \ {v} : D.addr[w] = A.addr[w] /\ D.size[w] = A.size[w]
  <2>1. /\ Holed(D, p, vl, lo)
        /\ D.byAddr = C.byAddr \cup {v} /\ D.bySize = C.bySize /\ D.heap = C.heap
        /\ D.addr = [C.addr EXCEPT ![v] = lo] /\ D.size = [C.size EXCEPT ![v] = hi - lo]
        /\ Later(C, D)
    BY <1>5, <1>6, InsertUsedLemma
  <2>2. CoalescedIn(A) =>
           CoalescedIn(D) /\ p \notin FreeVmas(D) /\ D.list.next[p] \notin FreeVmas(D)
    BY <1>5, <1>6, InsertUsedCoalesced
  <2>3. C \in AllocatorType
    BY <1>5 DEF Holed
  <2>4. /\ D.addr[v] = lo /\ D.size[v] = hi - lo
        /\ \A w \in A.byAddr \ {v} : D.addr[w] = A.addr[w] /\ D.size[w] = A.size[w]
    BY <1>1, <1>5, <2>1, <2>3, FieldTypes
  <2>5. (C.byAddr \cup {v}) = A.byAddr \cup New(nh)
    BY <1>1, <1>5
  <2> QED BY <1>5, <2>1, <2>2, <2>4, <2>5
<1> HIDE DEF D
<1>8. CASE nl = NULL
  <2>1. Z = D /\ vl = lo /\ New(nl) = {}
    BY <1>1, <1>2, <1>8 DEF New, vl
  <2>2. Tiled(Z)
    BY <1>7, <2>1, HoleClosed
  <2>3. Later(A, Z)
    BY <1>3, <1>5, <1>7, <2>1 DEF Later
  <2> QED BY <1>7, <2>1, <2>2, <2>3
<1>9. CASE nl # NULL
  <2>1. Z = InsertFree(D, p, nl, vl, lo) /\ New(nl) = {nl}
    BY <1>2, <1>9 DEF New
  <2>2. nl \in Vma \ A.byAddr /\ vl < lo /\ vl <= vl /\ nl # v
    BY <1>1, <1>9 DEF vl
  <2>3. nl \in Vma \ D.byAddr
    BY <1>7, <1>9, <2>2 DEF New
  <2>4. /\ Holed(Z, p, vl, vl)
        /\ Z.byAddr = D.byAddr \cup {nl} /\ Z.bySize = D.bySize \cup {nl}
        /\ Z.heap = D.heap
        /\ Z.addr = [D.addr EXCEPT ![nl] = vl] /\ Z.size = [D.size EXCEPT ![nl] = lo - vl]
        /\ Later(D, Z)
    BY <1>1, <1>7, <2>1, <2>2, <2>3, InsertFreeLemma
  <2>5. CoalescedIn(A) => CoalescedIn(Z)
    BY <1>1, <1>7, <2>1, <2>2, <2>3, InsertFreeCoalesced
  <2>6. Tiled(Z)
    BY <2>4, HoleClosed
  <2>7. D \in AllocatorType
    BY <1>7 DEF Holed
  <2>8. /\ Z.addr[v] = lo /\ Z.size[v] = hi - lo
        /\ \A w \in A.byAddr \ {v} : Z.addr[w] = A.addr[w] /\ Z.size[w] = A.size[w]
    BY <1>1, <1>7, <2>2, <2>4, <2>7, FieldTypes
  <2>9. /\ Z.byAddr = (A.byAddr \cup New(nl)) \cup New(nh)
        /\ Z.bySize = ((A.bySize \ {v}) \cup New(nl)) \cup New(nh)
    BY <1>7, <2>1, <2>4
  <2>10. Later(A, Z)
    BY <1>3, <1>5, <1>7, <2>4 DEF Later
  <2> QED BY <1>7, <2>4, <2>5, <2>6, <2>8, <2>9, <2>10
<1> QED BY <1>8, <1>9
-----------------------------------------------------------------------------
(* What every call that allocates promises, whatever its result. *)
Outcome(A, o) ==
    /\ Sound(o.a)
    /\ Used(o.a) = Used(A) \cup (({o.vma} \ {NULL}) \ {PANIC})
    /\ o.vma \notin Used(A)
    /\ o.vma \in Vma \cup {NULL, PANIC}
    /\ SameUsed(A, o.a) /\ Later(A, o.a)

(* A call that fails or panics without having changed anything. *)
LEMMA UnchangedOutcome ==
    ASSUME NEW A, Sound(A), NEW r \in {NULL, PANIC}
    PROVE  Outcome(A, [a |-> A, vma |-> r])
<1>1. Used(A) \subseteq Vma
  BY FieldTypes DEF Used, Sound, Tiled
<1> QED BY <1>1, ConstantsAssumption DEF Outcome, SameUsed, Later

(* What alloc(sizeof(struct vma)) returns. *)
LEMMA StructAllocLemma ==
    ASSUME NEW A \in AllocatorType, NEW s \in StructAlloc(A)
    PROVE  \/ s = [a |-> A, vma |-> NULL]
           \/ s.vma \in Vma \ A.heap /\ s.a = [A EXCEPT !.heap = @ \cup {s.vma}]
BY DEF StructAlloc

(* The tiling does not depend on the structs that are not in it yet. *)
LEMMA HeapLemma ==
    ASSUME NEW A, Tiled(A), NEW H \in SUBSET Vma,
           NEW B, B = [A EXCEPT !.heap = H]
    PROVE  /\ Tiled(B) /\ B.heap = H
           /\ B.list = A.list /\ B.byAddr = A.byAddr /\ B.bySize = A.bySize
           /\ B.addr = A.addr /\ B.size = A.size /\ B.zero = A.zero
           /\ Later(A, B)
           /\ CoalescedIn(A) => CoalescedIn(B)
           /\ FreeVmas(B) = FreeVmas(A)
<1>1. A \in AllocatorType /\ Blamed(A) /\ A.bySize \subseteq A.byAddr
  BY DEF Tiled
<1>2. /\ B.heap = H
      /\ B.list = A.list /\ B.byAddr = A.byAddr /\ B.bySize = A.bySize
      /\ B.addr = A.addr /\ B.size = A.size /\ B.zero = A.zero /\ B.failed = A.failed
  BY <1>1 DEF AllocatorType
<1>3. B \in AllocatorType
  BY <1>1 DEF AllocatorType
<1>4. Blamed(B) /\ Later(A, B)
  BY <1>1, <1>2 DEF Blamed, Later
<1>5. Tiled(B)
  BY <1>1, <1>2, <1>3, <1>4, TiledSame
<1>6. FreeVmas(B) = FreeVmas(A)
  BY <1>2 DEF FreeVmas, is_vma_free
<1>7. CoalescedIn(A) => CoalescedIn(B)
  BY <1>2, <1>6, CoalescedFacts
<1> QED BY <1>2, <1>4, <1>5, <1>6, <1>7

(* vma_alloc once it has chosen the VMA v. *)
LEMMA AllocFromLemma ==
    ASSUME NEW A, Sound(A), NEW n \in Int, 0 < n,
           NEW v \in A.bySize, n <= A.size[v], NEW o \in AllocFrom(A, v, n)
    PROVE  Outcome(A, o) /\ (o.vma \in {NULL, PANIC} \/ o.a.size[o.vma] = n)
<1>1. /\ Tiled(A) /\ A \in AllocatorType /\ A.bySize \subseteq A.byAddr /\ v \in A.byAddr
      /\ v \in Vma /\ A.size[v] \in Int /\ A.heap = A.byAddr
      /\ v \notin {NULL, PANIC} /\ A.byAddr \subseteq Vma
  BY TiledFacts, ConstantsAssumption DEF Sound, Tiled
<1>2. CASE A.size[v] = n
  <2> DEFINE B == treap_remove(A, v, "BY_SIZE")
  <2>1. o = [a |-> B, vma |-> v]
    BY <1>2 DEF AllocFrom
  <2>2. /\ Tiled(B) /\ B.bySize = A.bySize \ {v}
        /\ B.list = A.list /\ B.byAddr = A.byAddr /\ B.heap = A.heap
        /\ B.addr = A.addr /\ B.size = A.size
        /\ Later(A, B)
    BY <1>1, TiledRemove
  <2> HIDE DEF B
  <2>3. CoalescedIn(A) => CoalescedIn(B)
    <3>1. FreeVmas(B) \subseteq FreeVmas(A)
      BY <2>2, FreeLater
    <3> QED BY <2>2, <3>1, CoalescedFacts
  <2>4. Sound(B)
    BY <1>1, <2>2, <2>3 DEF Sound, Later
  <2>5. Used(B) = Used(A) \cup {v} /\ v \notin Used(A)
    BY <1>1, <2>2 DEF Used
  <2>6. SameUsed(A, B)
    BY <2>2 DEF SameUsed
  <2> QED BY <1>1, <1>2, <2>1, <2>2, <2>4, <2>5, <2>6 DEF Outcome
<1>3. CASE A.size[v] # n
  <2>1. PICK s \in StructAlloc(A) :
           o = IF s.vma = NULL THEN [a |-> A, vma |-> PANIC]
               ELSE [a |-> Split(s.a, v, n, s.vma), vma |-> v]
    BY <1>3 DEF AllocFrom
  <2>2. CASE s.vma = NULL
    BY <2>1, <2>2, UnchangedOutcome
  <2>3. CASE s.vma # NULL
    <3> DEFINE u == s.vma
               H == A.heap \cup {u}
               S == [A EXCEPT !.heap = H]
               B == Split(S, v, n, u)
    <3>1. u \in Vma \ A.byAddr /\ s.a = S
      BY <1>1, <2>3, StructAllocLemma
    <3>2. o = [a |-> B, vma |-> v]
      BY <2>1, <2>3, <3>1
    <3>3. H \in SUBSET Vma /\ H = A.byAddr \cup {u}
      BY <1>1, <3>1
    <3> HIDE DEF u, H
    <3>4. /\ Tiled(S) /\ S.heap = H /\ (CoalescedIn(A) => CoalescedIn(S))
          /\ S.list = A.list /\ S.byAddr = A.byAddr /\ S.bySize = A.bySize
          /\ S.addr = A.addr /\ S.size = A.size
          /\ Later(A, S)
      BY <1>1, <3>3, HeapLemma
    <3> HIDE DEF S
    <3>5. v \in S.bySize /\ n < S.size[v] /\ u \in Vma \ S.byAddr
      BY <1>1, <1>3, <3>1, <3>4
    <3>5a. B = Split(S, v, n, u) /\ n \in Int /\ 0 < n /\ Tiled(S)
      BY <3>4
    <3> HIDE DEF B
    <3>6. /\ Tiled(B)
          /\ B.byAddr = S.byAddr \cup {u} /\ B.bySize = (S.bySize \ {v}) \cup {u}
          /\ B.heap = S.heap
          /\ B.addr[v] = S.addr[v] /\ B.size[v] = n
          /\ \A w \in S.byAddr : w # v => B.addr[w] = S.addr[w] /\ B.size[w] = S.size[w]
          /\ \A y \in Node : B.list.next[y] =
                IF y = v THEN u ELSE IF y = u THEN S.list.next[v] ELSE S.list.next[y]
          /\ Later(S, B) /\ (<<"BY_SIZE", v>> \in S.zero => B.failed)
      BY ONLY <3>5, <3>5a, SplitLemma
    <3>7. CoalescedIn(S) => B.failed \/ CoalescedIn(B)
      BY ONLY <3>5, <3>5a, SplitCoalesced
    <3>7a. Later(A, B)
      BY <3>4, <3>6 DEF Later
    <3>8. Sound(B)
      BY <3>3, <3>4, <3>6, <3>7, <3>7a DEF Sound, Later
    <3>9. Used(B) = Used(A) \cup {v} /\ v \notin Used(A)
      BY <1>1, <3>1, <3>4, <3>6 DEF Used
    <3>10. SameUsed(A, B)
      BY <1>1, <3>4, <3>6 DEF SameUsed, Used
    <3> QED BY <1>1, <3>2, <3>6, <3>7a, <3>8, <3>9, <3>10 DEF Outcome
  <2> QED BY <2>2, <2>3
<1> QED BY <1>2, <1>3

LEMMA AllocLemma ==
    ASSUME NEW A, Sound(A), NEW n \in Int, 0 < n, NEW o \in vma_alloc(A, n)
    PROVE  Outcome(A, o) /\ (o.vma \in {NULL, PANIC} \/ o.a.size[o.vma] = n)
<1>1. CASE Fits(A, n) = {}
  <2>1. o = [a |-> A, vma |-> NULL]
    BY <1>1 DEF vma_alloc
  <2> QED BY <2>1, UnchangedOutcome
<1>2. CASE Fits(A, n) # {}
  <2>1. PICK v \in best_fit(A, n) : o \in AllocFrom(A, v, n)
    BY <1>2 DEF vma_alloc
  <2>2. v \in A.bySize /\ n <= A.size[v]
    BY DEF best_fit, Fits
  <2> QED BY <2>1, <2>2, AllocFromLemma
<1> QED BY <1>1, <1>2

(* vma_find finds a VMA for every address of the range: its assert holds. *)
LEMMA FindLemma ==
    ASSUME NEW A, Tiled(A), NEW addr \in Lo..(Hi - 1)
    PROVE  /\ vma_find(A, addr) \in A.byAddr
           /\ A.addr[vma_find(A, addr)] <= addr
           /\ addr < vma_hi(A, vma_find(A, addr))
<1>1. \E v \in A.byAddr : A.addr[v] <= addr /\ addr < vma_hi(A, v)
  BY DEF Tiled, Covered
<1> QED BY <1>1 DEF vma_find

(* Until a priority is zero, what is in the treap is free for is_vma_free, *)
(* and no assert has failed.                                               *)
LEMMA NoZero ==
    ASSUME NEW A, Sound(A), A.zero = {}
    PROVE  /\ \A v : is_vma_free(A, v) <=> v \in A.bySize
           /\ \A v \in A.bySize : A.list.next[v] \notin A.bySize
           /\ FreeVmas(A) = A.bySize
<1>1. \A v : is_vma_free(A, v) <=> v \in A.bySize
  BY DEF is_vma_free
<1>2. CoalescedIn(A)
  BY DEF Sound, Tiled, Blamed
<1> QED BY <1>1, <1>2 DEF CoalescedIn, FreeVmas

(* A range that no VMA in use has a page of is then in one free VMA: if    *)
(* that ended inside the range, the next one would be free too.            *)
LEMMA UnusedIsInOneVma ==
    ASSUME NEW A, Sound(A), A.zero = {},
           NEW lo \in Int, NEW hi \in Int, Lo <= lo, lo < hi, hi <= Hi,
           \A w \in Used(A) : vma_hi(A, w) <= lo \/ hi <= A.addr[w]
    PROVE  /\ vma_find(A, lo) \in A.bySize /\ hi <= vma_hi(A, vma_find(A, lo))
           /\ A.addr[vma_find(A, lo)] <= lo
<1> DEFINE v == vma_find(A, lo)
<1>1. lo \in Lo..(Hi - 1) /\ Tiled(A)
  BY ConstantsAssumption DEF Sound
<1>2. v \in A.byAddr /\ A.addr[v] <= lo /\ lo < vma_hi(A, v)
  BY <1>1, FindLemma
<1> HIDE DEF v
<1>3. \A w \in A.byAddr : A.addr[w] \in Int /\ vma_hi(A, w) \in Int
                          /\ A.addr[w] < vma_hi(A, w)
  BY <1>1, TiledFacts DEF vma_hi
<1>4. v \in A.bySize
  <2>1. CASE v \in Used(A)
    BY <1>2, <1>3, <2>1
  <2> QED BY <1>2, <2>1 DEF Used
<1>5. ASSUME vma_hi(A, v) < hi PROVE FALSE
  <2> DEFINE w == A.list.next[v]
  <2>1. w \in A.byAddr \cup {Head} /\ StartOf(A, w) = vma_hi(A, v)
    BY <1>1, <1>2, TiledFacts
  <2> HIDE DEF w
  <2>2. w # Head
    BY <1>2, <1>3, <1>5, <2>1, ConstantsAssumption DEF StartOf
  <2>3. w \in A.byAddr /\ A.addr[w] = vma_hi(A, v)
    BY <2>1, <2>2 DEF StartOf
  <2>4. w \notin Used(A)
    BY <1>2, <1>3, <1>5, <2>3
  <2>5. w \in A.bySize
    BY <2>3, <2>4 DEF Used
  <2> QED BY <1>4, <2>5, NoZero DEF w
<1>6. hi <= vma_hi(A, v)
  BY <1>2, <1>3, <1>5
<1> QED BY <1>2, <1>4, <1>6 DEF v

(* The two structs of a cut: neither, one or both are fresh, and the heap  *)
(* holds them when the cut is made.                                        *)
LEMMA CarveOutcomesLemma ==
    ASSUME NEW A, Sound(A), NEW v \in FreeVmas(A),
           NEW lo \in Int, NEW hi \in Int,
           A.addr[v] <= lo, lo < hi, hi <= vma_hi(A, v),
           NEW o \in CarveOutcomes(A, v, lo, hi)
    PROVE  /\ Outcome(A, o) /\ o.vma # PANIC
           /\ o.vma = NULL \/ (o.a.addr[o.vma] = lo /\ o.a.size[o.vma] = hi - lo)
<1> DEFINE needLo == A.addr[v] # lo
           needHi == vma_hi(A, v) # hi
<1>0. Tiled(A) /\ A.heap = A.byAddr /\ v \in A.bySize
  BY DEF Sound, FreeVmas
<1>1. /\ Tiled(A) /\ A \in AllocatorType /\ A.bySize \subseteq A.byAddr /\ v \in A.byAddr
      /\ v \in Vma /\ A.heap = A.byAddr /\ v \in A.bySize
      /\ v \notin {NULL, PANIC} /\ A.byAddr \subseteq Vma /\ NULL \notin Vma
      /\ NULL # PANIC
  BY <1>0, TiledFacts, ConstantsAssumption DEF Tiled
<1>2. PICK l \in StructAllocIf(needLo, A) : \E h \in StructAllocIf(needHi, l.a) :
         o = IF (needLo /\ l.vma = NULL) \/ (needHi /\ h.vma = NULL)
             THEN [a |-> A, vma |-> NULL]
             ELSE [a |-> Carve(h.a, v, lo, hi, l.vma, h.vma), vma |-> v]
  BY DEF CarveOutcomes
<1>3. PICK h \in StructAllocIf(needHi, l.a) :
         o = IF (needLo /\ l.vma = NULL) \/ (needHi /\ h.vma = NULL)
             THEN [a |-> A, vma |-> NULL]
             ELSE [a |-> Carve(h.a, v, lo, hi, l.vma, h.vma), vma |-> v]
  BY <1>2
<1>4. CASE (needLo /\ l.vma = NULL) \/ (needHi /\ h.vma = NULL)
  BY <1>1, <1>3, <1>4, UnchangedOutcome
<1>5. CASE ~((needLo /\ l.vma = NULL) \/ (needHi /\ h.vma = NULL))
  <2> DEFINE nl == l.vma
             nh == h.vma
             S1 == l.a
             S  == h.a
             Z  == Carve(S, v, lo, hi, nl, nh)
  <2>1. o = [a |-> Z, vma |-> v]
    BY <1>3, <1>5
  <2>2. /\ IF A.addr[v] = lo THEN nl = NULL ELSE nl \in Vma \ A.byAddr
        /\ Tiled(S1) /\ S1.heap = A.byAddr \cup New(nl)
        /\ S1.list = A.list /\ S1.byAddr = A.byAddr /\ S1.bySize = A.bySize
        /\ S1.addr = A.addr /\ S1.size = A.size
        /\ Later(A, S1) /\ (CoalescedIn(A) => CoalescedIn(S1)) /\ FreeVmas(S1) = FreeVmas(A)
    <3>1. CASE ~needLo
      <4>1. l = [a |-> A, vma |-> NULL]
        BY <1>2, <3>1 DEF StructAllocIf
      <4>2. New(nl) = {} /\ S1 = A /\ nl = NULL
        BY <4>1 DEF New
      <4> QED BY <1>1, <3>1, <4>2 DEF Later
    <3>2. CASE needLo
      <4>1. l \in StructAlloc(A) /\ nl # NULL
        BY <1>2, <1>5, <3>2 DEF StructAllocIf
      <4> DEFINE H == A.heap \cup {nl}
      <4>2. nl \in Vma \ A.byAddr /\ S1 = [A EXCEPT !.heap = H]
        BY <1>1, <4>1, StructAllocLemma
      <4>3. H \in SUBSET Vma /\ H = A.byAddr \cup New(nl)
        BY <1>1, <4>1, <4>2 DEF New
      <4> HIDE DEF H, S1, nl
      <4>4. /\ Tiled(S1) /\ S1.heap = H /\ (CoalescedIn(A) => CoalescedIn(S1))
            /\ S1.list = A.list /\ S1.byAddr = A.byAddr /\ S1.bySize = A.bySize
            /\ S1.addr = A.addr /\ S1.size = A.size
            /\ Later(A, S1) /\ FreeVmas(S1) = FreeVmas(A)
        BY <1>1, <4>2, <4>3, HeapLemma
      <4> QED BY <1>1, <3>2, <4>2, <4>3, <4>4
    <3> QED BY <3>1, <3>2
  <2>3. S1 \in AllocatorType
    BY <2>2 DEF Tiled
  <2>4. /\ IF vma_hi(A, v) = hi THEN nh = NULL ELSE nh \in Vma \ (A.byAddr \cup New(nl))
        /\ Tiled(S) /\ S.heap = (A.byAddr \cup New(nl)) \cup New(nh)
        /\ S.list = A.list /\ S.byAddr = A.byAddr /\ S.bySize = A.bySize
        /\ S.addr = A.addr /\ S.size = A.size
        /\ Later(S1, S) /\ (CoalescedIn(S1) => CoalescedIn(S)) /\ FreeVmas(S) = FreeVmas(S1)
    <3>1. CASE ~needHi
      <4>1. h = [a |-> S1, vma |-> NULL]
        BY <1>3, <3>1 DEF StructAllocIf
      <4>2. New(nh) = {} /\ S = S1 /\ nh = NULL
        BY <4>1 DEF New
      <4> HIDE DEF S1
      <4> QED BY <2>2, <3>1, <4>2 DEF Later
    <3>2. CASE needHi
      <4>1. h \in StructAlloc(S1) /\ nh # NULL
        BY <1>3, <1>5, <3>2 DEF StructAllocIf
      <4> DEFINE H == S1.heap \cup {nh}
      <4>2. nh \in Vma \ S1.heap /\ S = [S1 EXCEPT !.heap = H]
        BY <2>3, <4>1, StructAllocLemma
      <4>3. H \in SUBSET Vma /\ H = (A.byAddr \cup New(nl)) \cup New(nh)
        BY <2>2, <2>3, <4>1, <4>2, FieldTypes DEF New
      <4> HIDE DEF H, S1, S, nl, nh
      <4>4. /\ Tiled(S) /\ S.heap = H /\ (CoalescedIn(S1) => CoalescedIn(S))
            /\ S.list = S1.list /\ S.byAddr = S1.byAddr /\ S.bySize = S1.bySize
            /\ S.addr = S1.addr /\ S.size = S1.size
            /\ Later(S1, S) /\ FreeVmas(S) = FreeVmas(S1)
        BY <2>2, <4>2, <4>3, HeapLemma
      <4> QED BY <2>2, <3>2, <4>2, <4>3, <4>4
    <3> QED BY <3>1, <3>2
  <2> HIDE DEF S1, S, nl, nh
  <2>5. /\ v \in FreeVmas(S) /\ S.addr[v] = A.addr[v] /\ vma_hi(S, v) = vma_hi(A, v)
        /\ nl # nh \/ nl = NULL
        /\ IF S.addr[v] = lo THEN nl = NULL ELSE nl \in Vma \ S.byAddr
        /\ IF vma_hi(S, v) = hi THEN nh = NULL ELSE nh \in Vma \ S.byAddr
    BY <2>2, <2>4 DEF vma_hi, New
  <2>6. /\ Tiled(Z) /\ Later(S, Z) /\ (CoalescedIn(S) => CoalescedIn(Z))
        /\ Z.byAddr = (S.byAddr \cup New(nl)) \cup New(nh)
        /\ Z.bySize = ((S.bySize \ {v}) \cup New(nl)) \cup New(nh)
        /\ Z.heap = S.heap
        /\ Z.addr[v] = lo /\ Z.size[v] = hi - lo
        /\ \A w \in S.byAddr \ {v} : Z.addr[w] = S.addr[w] /\ Z.size[w] = S.size[w]
    BY <2>4, <2>5, CarveLemma
  <2> HIDE DEF Z
  <2>6a. Later(A, Z)
    BY <2>2, <2>4, <2>6 DEF Later
  <2>7. Sound(Z)
    BY <2>2, <2>4, <2>6, <2>6a DEF Sound, Later
  <2>8. v \notin New(nl) \cup New(nh) /\ (New(nl) \cup New(nh)) \cap A.byAddr = {}
    BY <1>1, <2>2, <2>4 DEF New
  <2>9. Used(Z) = Used(A) \cup {v} /\ v \notin Used(A)
    BY <1>1, <2>4, <2>6, <2>8 DEF Used
  <2>10. SameUsed(A, Z)
    BY <1>1, <2>4, <2>6 DEF SameUsed, Used
  <2> QED BY <1>1, <2>1, <2>6, <2>6a, <2>7, <2>9, <2>10 DEF Outcome
<1> QED BY <1>4, <1>5

LEMMA AllocByAddrLemma ==
    ASSUME NEW A, Sound(A), NEW lo \in Int, lo \in Lo..(Hi - 1), NEW hi \in Int, lo < hi,
           NEW o \in vma_alloc_by_addr(A, lo, hi)
    PROVE  /\ Outcome(A, o) /\ o.vma # PANIC
           /\ o.vma = NULL \/ (o.a.addr[o.vma] = lo /\ o.a.size[o.vma] = hi - lo)
<1> DEFINE v == vma_find(A, lo)
<1>1. v \in A.byAddr /\ A.addr[v] <= lo /\ lo < vma_hi(A, v) /\ vma_hi(A, v) \in Int
  BY FindLemma, TiledFacts DEF Sound
<1>2. o \in IF ~is_vma_free(A, v) \/ vma_hi(A, v) < hi
            THEN {[a |-> A, vma |-> NULL]} ELSE CarveOutcomes(A, v, lo, hi)
  BY DEF vma_alloc_by_addr
<1> HIDE DEF v
<1>3. CASE ~is_vma_free(A, v) \/ vma_hi(A, v) < hi
  <2>1. o = [a |-> A, vma |-> NULL]
    BY <1>2, <1>3
  <2> QED BY <2>1, UnchangedOutcome, ConstantsAssumption
<1>4. CASE ~(~is_vma_free(A, v) \/ vma_hi(A, v) < hi)
  <2>1. v \in FreeVmas(A) /\ hi <= vma_hi(A, v) /\ lo \in Int
    BY <1>1, <1>4, ConstantsAssumption DEF FreeVmas, is_vma_free
  <2>2. o \in CarveOutcomes(A, v, lo, hi)
    BY <1>2, <1>4
  <2>3. A.addr[v] <= lo /\ lo < hi
    BY <1>1
  <2> QED BY <2>1, <2>2, <2>3, CarveOutcomesLemma
<1> QED BY <1>3, <1>4

LEMMA MultipleIsAligned ==
    ASSUME NEW a \in Nat \ {0}, NEW k \in Nat
    PROVE  (a * k) % a = 0 /\ a * k \in Nat
<1>1. (a * k) % a = 0
  BY Z3
<1>2. a * k \in Nat
  BY Z3
<1> QED BY <1>1, <1>2

(* align_up rounds up to an aligned page, by less than the alignment. *)
LEMMA AlignUpLemma ==
    ASSUME NEW addr \in Nat
    PROVE  /\ align_up(addr) \in Int /\ addr <= align_up(addr)
           /\ align_up(addr) < addr + Align
           /\ align_up(addr) % Align = 0
<1> DEFINE x == addr + (Align - 1)
           r == x % Align
           k == x \div Align
<1>1. r \in 0..(Align - 1) /\ x \in Nat
  BY ConstantsAssumption
<1>2. align_up(addr) = x - r
  BY DEF align_up
<1>3. x = Align * k + r /\ k \in Nat
  <2> HIDE DEF x
  <2> QED BY <1>1, ConstantsAssumption
<1>4. (Align * k) % Align = 0 /\ Align * k \in Nat
  BY <1>3, MultipleIsAligned, ConstantsAssumption
<1>5. align_up(addr) = Align * k
  <2> DEFINE m == Align * k
  <2> HIDE DEF x, r, k, m
  <2>1. m \in Nat /\ x = m + r
    BY <1>3, <1>4 DEF m
  <2> QED BY <1>1, <1>2, <2>1 DEF m
<1>6. addr <= align_up(addr) /\ align_up(addr) < addr + Align
  <2> HIDE DEF r
  <2> QED BY <1>1, <1>2, ConstantsAssumption
<1> QED BY <1>4, <1>5, <1>6

(* Two calls one after the other. *)
LEMMA Sequel ==
    ASSUME NEW A, NEW B, NEW o, Used(B) = Used(A), SameUsed(A, B), Later(A, B), Outcome(B, o)
    PROVE  Outcome(A, o)
BY DEF Outcome, SameUsed, Later

(* What vma_alloc allocated can be given back at once. *)
LEMMA AllocThenFree ==
    ASSUME NEW A, NEW o, Outcome(A, o), o.vma \notin {NULL, PANIC}
    PROVE  /\ Sound(vma_free(o.a, o.vma)) /\ Used(vma_free(o.a, o.vma)) = Used(A)
           /\ SameUsed(A, vma_free(o.a, o.vma))
           /\ Later(A, vma_free(o.a, o.vma)) /\ Later(o.a, vma_free(o.a, o.vma))
<1> DEFINE B == vma_free(o.a, o.vma)
<1>1. /\ Sound(o.a) /\ o.vma \in Used(o.a) /\ Used(o.a) = Used(A) \cup {o.vma}
      /\ o.vma \notin Used(A) /\ SameUsed(A, o.a) /\ Later(A, o.a)
  BY DEF Outcome
<1>2. Sound(B) /\ Used(B) = Used(o.a) \ {o.vma} /\ SameUsed(o.a, B) /\ Later(o.a, B)
  BY <1>1, FreeLemma
<1> HIDE DEF B
<1>3. Sound(B) /\ Used(B) = Used(A) /\ SameUsed(A, B)
  BY <1>1, <1>2 DEF SameUsed
<1>4. Later(A, B)
  BY <1>1, <1>2 DEF Later
<1> QED BY <1>2, <1>3, <1>4 DEF B

LEMMA AlignedWithinLemma ==
    ASSUME NEW A, Sound(A), NEW n \in Int, 0 < n, NEW o \in AlignedWithin(A, n)
    PROVE  /\ Outcome(A, o)
           /\ o.vma \in {NULL, PANIC} \/ (o.a.addr[o.vma] % Align = 0 /\ o.a.size[o.vma] = n)
<1> DEFINE m == n + Align
<1>1. m \in Int /\ 0 < m
  BY ConstantsAssumption
<1>2. PICK q \in vma_alloc(A, m) :
         o \in IF q.vma \in {NULL, PANIC} THEN {q}
              ELSE LET addr == align_up(q.a.addr[q.vma])
                   IN  {IF r.vma = NULL THEN [a |-> r.a, vma |-> PANIC] ELSE r :
                          r \in vma_alloc_by_addr(vma_free(q.a, q.vma), addr, addr + n)}
  BY DEF AlignedWithin
<1> HIDE DEF m
<1>3. Outcome(A, q) /\ (q.vma \in {NULL, PANIC} \/ q.a.size[q.vma] = m)
  BY <1>1, AllocLemma
<1>4. CASE q.vma \in {NULL, PANIC}
  BY <1>2, <1>3, <1>4
<1>5. CASE q.vma \notin {NULL, PANIC}
  <2> DEFINE B == vma_free(q.a, q.vma)
             addr == align_up(q.a.addr[q.vma])
             hi == addr + n
  <2>1. Sound(B) /\ Used(B) = Used(A) /\ SameUsed(A, B) /\ Later(A, B)
    BY <1>3, <1>5, AllocThenFree
  <2>2. PICK r \in vma_alloc_by_addr(B, addr, hi) :
           o = IF r.vma = NULL THEN [a |-> r.a, vma |-> PANIC] ELSE r
    BY <1>2, <1>5
  <2>3. /\ Tiled(q.a) /\ q.vma \in q.a.byAddr
    BY <1>3, <1>5 DEF Outcome, Sound, Used
  <2>4. /\ q.a.addr[q.vma] \in Int /\ Lo <= q.a.addr[q.vma]
        /\ q.a.addr[q.vma] + m <= Hi
    BY <1>3, <1>5, <2>3, TiledFacts DEF vma_hi
  <2>5. /\ addr \in Lo..(Hi - 1) /\ hi \in Int /\ addr < hi
        /\ addr % Align = 0 /\ hi - addr = n
    <3>1. q.a.addr[q.vma] \in Nat
      BY <2>4, ConstantsAssumption
    <3>2. /\ addr \in Int /\ q.a.addr[q.vma] <= addr /\ addr < q.a.addr[q.vma] + Align
          /\ addr % Align = 0
      BY <3>1, AlignUpLemma
    <3> HIDE DEF addr
    <3> QED BY <2>4, <3>1, <3>2, ConstantsAssumption DEF m
  <2> HIDE DEF B, addr, hi
  <2>6. /\ Outcome(B, r)
        /\ r.vma = NULL \/ (r.a.addr[r.vma] = addr /\ r.a.size[r.vma] = hi - addr)
    BY <2>1, <2>2, <2>5, AllocByAddrLemma
  <2>7. Outcome(A, r)
    BY <2>1, <2>6, Sequel
  <2>8. CASE r.vma = NULL
    <3>1. o.a = r.a /\ o.vma = PANIC
      BY <2>2, <2>8
    <3>2. PANIC \notin Used(A)
      BY FieldTypes, ConstantsAssumption DEF Used, Sound, Tiled
    <3> QED BY <2>7, <2>8, <3>1, <3>2 DEF Outcome
  <2>9. CASE r.vma # NULL
    BY <2>2, <2>5, <2>6, <2>7, <2>9
  <2> QED BY <2>8, <2>9
<1> QED BY <1>4, <1>5

LEMMA AllocAlignedLemma ==
    ASSUME NEW A, Sound(A), NEW n \in Int, 0 < n, NEW o \in vma_alloc_aligned(A, n)
    PROVE  /\ Outcome(A, o)
           /\ o.vma \in {NULL, PANIC} \/ (o.a.addr[o.vma] % Align = 0 /\ o.a.size[o.vma] = n)
<1>1. PICK q \in vma_alloc(A, n) :
         o \in IF q.vma \in {NULL, PANIC} THEN {q}
              ELSE IF q.a.addr[q.vma] % Align = 0 THEN {q}
              ELSE AlignedWithin(vma_free(q.a, q.vma), n)
  BY DEF vma_alloc_aligned
<1>2. Outcome(A, q) /\ (q.vma \in {NULL, PANIC} \/ q.a.size[q.vma] = n)
  BY AllocLemma
<1>3. CASE o = q /\ (q.vma \in {NULL, PANIC} \/ q.a.addr[q.vma] % Align = 0)
  BY <1>2, <1>3
<1>4. CASE ~(o = q /\ (q.vma \in {NULL, PANIC} \/ q.a.addr[q.vma] % Align = 0))
  <2> DEFINE B == vma_free(q.a, q.vma)
  <2>1. q.vma \notin {NULL, PANIC} /\ o \in AlignedWithin(B, n)
    BY <1>1, <1>4
  <2>2. Sound(B) /\ Used(B) = Used(A) /\ SameUsed(A, B) /\ Later(A, B)
    BY <1>2, <2>1, AllocThenFree
  <2> HIDE DEF B
  <2>3. /\ Outcome(B, o)
        /\ o.vma \in {NULL, PANIC} \/ (o.a.addr[o.vma] % Align = 0 /\ o.a.size[o.vma] = n)
    BY <2>1, <2>2, AlignedWithinLemma
  <2> QED BY <2>2, <2>3, Sequel
<1> QED BY <1>3, <1>4

(* B differs from A in the priorities, the draws and the asserts only. *)
SameLayout(A, B) ==
    /\ B.list = A.list /\ B.addr = A.addr /\ B.size = A.size
    /\ B.byAddr = A.byAddr /\ B.bySize = A.bySize /\ B.heap = A.heap

LEMMA SoundSame ==
    ASSUME NEW A, NEW B, Sound(A), SameLayout(A, B), B \in AllocatorType, Blamed(B),
           Later(A, B)
    PROVE  Sound(B) /\ Used(B) = Used(A) /\ SameUsed(A, B)
<1>1. Tiled(B)
  BY TiledSame DEF SameLayout, Sound, Tiled
<1>2. B.failed \/ CoalescedIn(B)
  <2>1. FreeVmas(B) \subseteq FreeVmas(A)
    BY FreeLater DEF SameLayout
  <2> QED BY <2>1, CoalescedFacts DEF SameLayout, Sound, Later
<1> QED BY <1>1, <1>2 DEF Sound, SameLayout, Used, SameUsed

(* What follows the head is the only VMA. *)
LEMMA OneVma ==
    ASSUME NEW v \in Vma, NEW B, B \in AllocatorType, Blamed(B),
           B.list = list_push(EmptyAllocator.list, Head, v),
           B.byAddr = {v}, B.bySize = {v}, B.heap = {v},
           B.addr[v] = Lo, B.size[v] = Hi - Lo
    PROVE  Sound(B) /\ Used(B) = {}
<1> DEFINE id == [x \in Node |-> x]
<1>1. v \in Node /\ Head \in Node /\ v # Head
  BY ConstantsAssumption DEF Node
<1>2. EmptyAllocator.list = [prev |-> id, next |-> id]
  BY DEF EmptyAllocator
<1>7. /\ B.list.next = [[id EXCEPT ![v] = Head] EXCEPT ![Head] = v]
      /\ B.list.prev = [[id EXCEPT ![v] = Head] EXCEPT ![Head] = v]
  BY <1>1, <1>2 DEF list_push
<1>9. /\ B.list.next[v] = Head /\ B.list.next[Head] = v
      /\ B.list.prev[v] = Head /\ B.list.prev[Head] = v
      /\ \A x \in Node : x \notin {v, Head} => B.list.next[x] = x /\ B.list.prev[x] = x
      /\ DOMAIN B.list.next = Node
  BY <1>1, <1>7
<1>11. Linked(B.list, B.byAddr \cup {Head})
  BY <1>9 DEF Linked
<1>12. vma_hi(B, v) = Hi
  BY ConstantsAssumption DEF vma_hi
<1>13. Chained(B)
  BY <1>1, <1>9, <1>12 DEF Chained, StartOf, EndOf
<1>14. NoOverlap(B) /\ Covered(B)
  BY <1>12, ConstantsAssumption DEF NoOverlap, Covered
<1>15. CoalescedIn(B)
  BY <1>1, <1>9 DEF CoalescedIn, is_vma_free
<1> QED BY <1>11, <1>13, <1>14, <1>15 DEF Sound, Tiled, Used

(* vma_allocator_init leaves one free VMA that covers everything. *)
LEMMA InitLemma ==
    ASSUME NEW v \in Vma, NEW draws \in ZeroDraws,
           NEW R, R = [vma_allocator_init(v, draws) EXCEPT !.draws = {}]
    PROVE  Sound(R) /\ Used(R) = {} /\ R.draws = {} /\ ~R.failed
<1> DEFINE E == EmptyAllocator
           S == [E EXCEPT !.heap = {v}, !.draws = draws]
           A == vma_init(S, Lo, Hi, v)
           L == list_push(A.list, Head, v)
           P == [A EXCEPT !.list = L]
           Q == treap_insert(P, v, "BY_ADDR")
           B == treap_insert(Q, v, "BY_SIZE")
           id == [x \in Node |-> x]
<1>1. v \in Node /\ Head \in Node /\ v # Head
  BY ConstantsAssumption DEF Node
<1>2. /\ E.list = [prev |-> id, next |-> id] /\ E.list \in LinkType(Node)
      /\ E.list.next[v] = v /\ E.list.prev[v] = v
      /\ E.addr = [x \in Vma |-> Lo] /\ E.size = [x \in Vma |-> 1]
      /\ E.byAddr = {} /\ E.bySize = {} /\ E.zero = {} /\ ~E.failed /\ E \in AllocatorType
  BY <1>1, ConstantsAssumption DEF EmptyAllocator, AllocatorType, LinkType
<1>3. LIST_INIT(E.list, v) = E.list
  BY <1>1, <1>2, InitOfSelfLinked
<1>4. R = [B EXCEPT !.draws = {}]
  BY Zenon DEF vma_allocator_init
<1>5. draws \in SUBSET (Nat \ {0})
  BY ConstantsAssumption
<1>6. list_push(E.list, Head, v) \in LinkType(Node)
  BY <1>1, <1>2 DEF list_push, LinkType
<1> HIDE DEF E
<1>7. /\ S \in AllocatorType /\ S.list = E.list /\ S.addr = E.addr /\ S.size = E.size
      /\ S.byAddr = {} /\ S.bySize = {} /\ S.heap = {v} /\ S.zero = {} /\ ~S.failed
  BY <1>2, <1>5 DEF AllocatorType
<1> HIDE DEF S
<1>8. Lo \in Lo..(Hi - 1) /\ Hi - Lo \in 1..(Hi - Lo)
  BY ConstantsAssumption
<1>9. /\ A \in AllocatorType /\ A.list = E.list
      /\ A.addr = [E.addr EXCEPT ![v] = Lo] /\ A.size = [E.size EXCEPT ![v] = Hi - Lo]
      /\ A.byAddr = {} /\ A.bySize = {} /\ A.heap = {v} /\ A.zero = {} /\ ~A.failed
  BY <1>3, <1>7, <1>8 DEF vma_init, SetBounds, AllocatorType
<1>10. A.addr[v] = Lo /\ A.size[v] = Hi - Lo
  BY <1>2, <1>9
<1>11. L = list_push(E.list, Head, v) /\ L \in LinkType(Node)
  BY <1>6, <1>9
<1> HIDE DEF A, L
<1>12. /\ P \in AllocatorType /\ P.list = L /\ P.addr = A.addr /\ P.size = A.size
       /\ P.byAddr = {} /\ P.bySize = {} /\ P.heap = {v} /\ P.zero = {} /\ ~P.failed
  BY <1>9, <1>11 DEF AllocatorType
<1> HIDE DEF P
<1>13. Blamed(P) /\ Q = treap_insert(P, v, "BY_ADDR") /\ P \in AllocatorType
  BY <1>12 DEF Blamed
<1> HIDE DEF Q
<1>14. /\ Q \in AllocatorType
       /\ Q.list = P.list /\ Q.addr = P.addr /\ Q.size = P.size
       /\ Q.byAddr = P.byAddr \cup {v} /\ Q.bySize = P.bySize /\ Q.heap = P.heap
       /\ Q.failed = P.failed
       /\ Later(P, Q) /\ (Blamed(P) => Blamed(Q))
  BY ONLY <1>13, v \in Vma, InsertByAddr
<1>15. B = treap_insert(Q, v, "BY_SIZE") /\ Q \in AllocatorType
  BY <1>14
<1> HIDE DEF B
<1>16. /\ B \in AllocatorType
       /\ B.list = Q.list /\ B.addr = Q.addr /\ B.size = Q.size
       /\ B.byAddr = Q.byAddr /\ B.bySize = Q.bySize \cup {v} /\ B.heap = Q.heap
       /\ B.failed = Q.failed
       /\ Later(Q, B) /\ (Blamed(Q) => Blamed(B))
  BY ONLY <1>15, v \in Vma, InsertBySize
<1>17. {} \in SUBSET (Nat \ {0})
  OBVIOUS
<1>18. /\ R \in AllocatorType
       /\ R.list = B.list /\ R.addr = B.addr /\ R.size = B.size
       /\ R.byAddr = B.byAddr /\ R.bySize = B.bySize /\ R.heap = B.heap
       /\ R.failed = B.failed /\ R.draws = {}
  BY <1>4, <1>16, <1>17 DEF AllocatorType
<1>19. ~R.failed
  BY <1>12, <1>14, <1>16, <1>18
<1>20. /\ R.list = list_push(EmptyAllocator.list, Head, v)
       /\ R.byAddr = {v} /\ R.bySize = {v} /\ R.heap = {v}
       /\ R.addr[v] = Lo /\ R.size[v] = Hi - Lo
  BY <1>10, <1>11, <1>12, <1>14, <1>16, <1>18 DEF E
<1>21. Blamed(R)
  BY <1>19 DEF Blamed
<1> QED BY <1>18, <1>19, <1>20, <1>21, OneVma

(* A call begins with the allocator as it is, and some draws to come. *)
LEMMA StartLemma ==
    ASSUME IInv, NEW draws \in Chances, NEW A, A = Start(draws)
    PROVE  /\ Sound(A) /\ Used(A) = Used(kva) /\ SameLayout(kva, A)
           /\ A.zero = kva.zero /\ ~A.failed
<1>1. draws \in SUBSET (Nat \ {0})
  BY ConstantsAssumption DEF Chances
<1>2. kva \in AllocatorType /\ ~kva.failed /\ Sound(kva)
  BY DEF IInv, Sound, Tiled
<1>3. /\ A \in AllocatorType /\ A.list = kva.list /\ A.addr = kva.addr /\ A.size = kva.size
      /\ A.byAddr = kva.byAddr /\ A.bySize = kva.bySize /\ A.heap = kva.heap
      /\ A.zero = kva.zero /\ A.failed = kva.failed
  BY <1>1, <1>2 DEF Start, AllocatorType
<1>4. SameLayout(kva, A) /\ Later(kva, A) /\ Blamed(A)
  BY <1>2, <1>3 DEF SameLayout, Later, Blamed
<1> QED BY <1>2, <1>3, <1>4, SoundSame

(* A call leaves a sound allocator, whether it returns or stops. *)
LEMMA LeftLemma ==
    ASSUME IInv, NEW A, Sound(A), kva.zero \subseteq A.zero, NEW B, B = Left(A)
    PROVE  /\ Sound(B) /\ B.draws = {} /\ ~B.failed
           /\ B.zero = A.zero
           /\ A.failed => SameLayout(kva, B) /\ Used(B) = Used(kva)
           /\ ~A.failed => SameLayout(A, B) /\ Used(B) = Used(A)
<1>1. kva \in AllocatorType /\ ~kva.failed /\ Sound(kva) /\ kva.draws = {}
  BY DEF IInv, Sound, Tiled
<1>2. A \in AllocatorType
  BY DEF Sound, Tiled
<1>3. CASE A.failed
  <2> DEFINE Z == A.zero
  <2>1. Z \in SUBSET ({"BY_ADDR", "BY_SIZE"} \X Vma) /\ kva.zero \subseteq Z
    BY <1>2, FieldTypes
  <2>2. B = [kva EXCEPT !.zero = Z]
    BY <1>3 DEF Left
  <2> HIDE DEF Z
  <2>3. /\ B \in AllocatorType /\ B.list = kva.list /\ B.addr = kva.addr /\ B.size = kva.size
        /\ B.byAddr = kva.byAddr /\ B.bySize = kva.bySize /\ B.heap = kva.heap
        /\ B.zero = Z /\ B.failed = kva.failed /\ B.draws = kva.draws
    BY <1>1, <2>1, <2>2 DEF AllocatorType
  <2>4. SameLayout(kva, B) /\ Later(kva, B) /\ Blamed(B)
    BY <1>1, <2>1, <2>3 DEF SameLayout, Later, Blamed
  <2>5. Sound(B) /\ Used(B) = Used(kva) /\ SameUsed(kva, B)
    BY <1>1, <2>3, <2>4, SoundSame
  <2> QED BY <1>1, <1>3, <2>3, <2>4, <2>5 DEF Z
<1>4. CASE ~A.failed
  <2>1. B = [A EXCEPT !.draws = {}] /\ {} \in SUBSET (Nat \ {0})
    BY <1>4 DEF Left
  <2>3. /\ B \in AllocatorType /\ B.list = A.list /\ B.addr = A.addr /\ B.size = A.size
        /\ B.byAddr = A.byAddr /\ B.bySize = A.bySize /\ B.heap = A.heap
        /\ B.zero = A.zero /\ B.failed = A.failed /\ B.draws = {}
    BY <1>2, <2>1 DEF AllocatorType
  <2>4. SameLayout(A, B) /\ Later(A, B) /\ Blamed(B)
    BY <1>4, <2>3 DEF SameLayout, Later, Blamed
  <2>5. Sound(B) /\ Used(B) = Used(A) /\ SameUsed(A, B)
    BY <2>3, <2>4, SoundSame
  <2> QED BY <1>4, <2>3, <2>4, <2>5
<1> QED BY <1>3, <1>4

(* What SameUsed says does not depend on draws and asserts. *)
LEMMA SameUsedSame ==
    ASSUME NEW A, NEW B, NEW C, NEW D, SameUsed(A, B),
           SameLayout(A, C), SameLayout(B, D)
    PROVE  SameUsed(C, D)
BY DEF SameUsed, SameLayout, Used

(* One step of an allocating call that began with A. *)
LEMMA FinishLemma ==
    ASSUME IInv, NEW draws \in Chances, NEW o, Outcome(Start(draws), o),
           NEW call, NEW n, Finish(o, call, n)
    PROVE  IInv' /\ SameUsed(kva, kva')
<1> DEFINE A == Start(draws)
           Q == o.a
           r == o.vma
           D == Left(Q)
<1>1. /\ Sound(A) /\ Used(A) = Used(kva) /\ SameLayout(kva, A)
      /\ A.zero = kva.zero /\ ~A.failed
  BY StartLemma
<1>2. /\ Sound(Q) /\ Used(Q) = Used(A) \cup (({r} \ {NULL}) \ {PANIC})
      /\ SameUsed(A, Q) /\ Later(A, Q)
  BY DEF Outcome
<1>3. /\ kva' = D /\ scarce' = scarce
      /\ (Q.failed \/ r = PANIC) => panicked' = TRUE /\ held' = held
      /\ ~(Q.failed \/ r = PANIC) =>
            panicked' = panicked /\ held' = IF r = NULL THEN held ELSE held \cup {r}
  BY DEF Finish
<1>4. D = Left(Q) /\ kva.zero \subseteq Q.zero
  BY <1>1, <1>2 DEF Later
<1> HIDE DEF A, Q, r, D
<1>5. /\ Sound(D) /\ D.draws = {} /\ ~D.failed
      /\ D.zero = Q.zero
      /\ Q.failed => SameLayout(kva, D) /\ Used(D) = Used(kva)
      /\ ~Q.failed => SameLayout(Q, D) /\ Used(D) = Used(Q)
  BY ONLY <1>2, <1>4, IInv, LeftLemma
<1>6. SameLayout(A, kva)
  BY <1>1 DEF SameLayout
<1>7. held = Used(kva) /\ panicked \in BOOLEAN /\ scarce \in BOOLEAN
  BY DEF IInv
<1>8. CASE Q.failed
  <2>1. held' = Used(D) /\ panicked' = TRUE
    BY <1>3, <1>5, <1>7, <1>8
  <2>2. SameUsed(kva, D)
    BY <1>5, <1>8 DEF SameLayout, SameUsed
  <2> QED BY <1>3, <1>5, <1>7, <2>1, <2>2 DEF IInv
<1>9. CASE ~Q.failed
  <2>1. held' = Used(D) /\ panicked' \in BOOLEAN
    BY <1>1, <1>2, <1>3, <1>5, <1>7, <1>9
  <2>2. SameUsed(kva, D)
    BY <1>2, <1>5, <1>6, <1>9, SameUsedSame
  <2> QED BY <1>3, <1>5, <1>7, <2>1, <2>2 DEF IInv
<1> QED BY <1>8, <1>9

(* One step of vma_free. *)
LEMMA FreeStep ==
    ASSUME IInv, NEW draws \in Chances, NEW v \in held, Free(v, draws)
    PROVE  IInv' /\ SameUsed(kva, kva')
<1> DEFINE A == Start(draws)
           Q == vma_free(A, v)
           D == Left(Q)
<1>1. /\ Sound(A) /\ Used(A) = Used(kva) /\ SameLayout(kva, A)
      /\ A.zero = kva.zero /\ ~A.failed
  BY StartLemma
<1>2. held = Used(kva) /\ panicked \in BOOLEAN /\ scarce \in BOOLEAN
  BY DEF IInv
<1>3. Sound(Q) /\ Used(Q) = Used(A) \ {v} /\ SameUsed(A, Q) /\ Later(A, Q)
  <2> HIDE DEF A
  <2> QED BY <1>1, <1>2, FreeLemma
<1>4. /\ kva' = D /\ scarce' = scarce
      /\ Q.failed => panicked' = TRUE /\ held' = held
      /\ ~Q.failed => panicked' = panicked /\ held' = held \ {v}
  BY DEF Free
<1>5. D = Left(Q) /\ kva.zero \subseteq Q.zero
  BY <1>1, <1>3 DEF Later
<1> HIDE DEF A, Q, D
<1>6. /\ Sound(D) /\ D.draws = {} /\ ~D.failed
      /\ D.zero = Q.zero
      /\ Q.failed => SameLayout(kva, D) /\ Used(D) = Used(kva)
      /\ ~Q.failed => SameLayout(Q, D) /\ Used(D) = Used(Q)
  BY ONLY <1>3, <1>5, IInv, LeftLemma
<1>7. SameLayout(A, kva)
  BY <1>1 DEF SameLayout
<1>8. CASE Q.failed
  <2>1. held' = Used(D) /\ panicked' = TRUE
    BY <1>2, <1>4, <1>6, <1>8
  <2>2. SameUsed(kva, D)
    BY <1>6, <1>8 DEF SameLayout, SameUsed
  <2> QED BY <1>2, <1>4, <1>6, <2>1, <2>2 DEF IInv
<1>9. CASE ~Q.failed
  <2>1. held' = Used(D) /\ panicked' \in BOOLEAN
    BY <1>1, <1>2, <1>3, <1>4, <1>6, <1>9
  <2>2. SameUsed(kva, D)
    BY <1>3, <1>6, <1>7, <1>9, SameUsedSame
  <2> QED BY <1>2, <1>4, <1>6, <2>1, <2>2 DEF IInv
<1> QED BY <1>8, <1>9

(* Every step keeps the inductive invariant, and what is in use before and *)
(* after a step keeps its bounds.                                          *)
LEMMA NextLemma ==
    ASSUME IInv, Next
    PROVE  IInv' /\ SameUsed(kva, kva')
<1>1. ASSUME NEW draws \in Chances PROVE Sound(Start(draws))
  BY StartLemma
<1>2. ASSUME NEW draws \in Chances, NEW n \in 1..(Hi - Lo), Alloc(n, draws)
      PROVE  IInv' /\ SameUsed(kva, kva')
  <2>1. PICK o \in vma_alloc(Start(draws), n) : Finish(o, "vma_alloc", n)
    BY <1>2 DEF Alloc
  <2>2. Outcome(Start(draws), o)
    BY <1>1, AllocLemma
  <2> QED BY <2>1, <2>2, FinishLemma
<1>3. ASSUME NEW draws \in Chances, NEW n \in 1..(Hi - Lo), AllocAligned(n, draws)
      PROVE  IInv' /\ SameUsed(kva, kva')
  <2>1. PICK o \in vma_alloc_aligned(Start(draws), n) : Finish(o, "vma_alloc_aligned", n)
    BY <1>3 DEF AllocAligned
  <2>2. Outcome(Start(draws), o)
    BY <1>1, AllocAlignedLemma
  <2> QED BY <2>1, <2>2, FinishLemma
<1>4. ASSUME NEW draws \in Chances, NEW lo \in Lo..(Hi - 1), NEW hi \in (lo + 1)..(Hi + 1),
             AllocByAddr(lo, hi, draws)
      PROVE  IInv' /\ SameUsed(kva, kva')
  <2>1. PICK o \in vma_alloc_by_addr(Start(draws), lo, hi) :
                Finish(o, "vma_alloc_by_addr", hi - lo)
    BY <1>4 DEF AllocByAddr
  <2>2. lo \in Int /\ hi \in Int /\ lo < hi
    BY ConstantsAssumption
  <2>3. Outcome(Start(draws), o)
    BY <1>1, <2>2, AllocByAddrLemma
  <2> QED BY <2>1, <2>3, FinishLemma
<1>5. ASSUME NEW draws \in Chances, NEW v \in held, Free(v, draws)
      PROVE  IInv' /\ SameUsed(kva, kva')
  BY <1>5, FreeStep
<1>6. ASSUME Halt PROVE IInv' /\ SameUsed(kva, kva')
  BY <1>6 DEF Halt, vars, IInv, SameUsed
<1> QED BY <1>2, <1>3, <1>4, <1>5, <1>6 DEF Next
-----------------------------------------------------------------------------
(* The inductive invariant holds in every reachable state. *)
THEOREM Invariance == Spec => []IInv
<1>1. ASSUME Init PROVE IInv
  <2>1. PICK v \in Vma, draws \in ZeroDraws :
           kva = [vma_allocator_init(v, draws) EXCEPT !.draws = {}]
    BY <1>1 DEF Init
  <2>2. Sound(kva) /\ Used(kva) = {} /\ kva.draws = {} /\ ~kva.failed
    BY <2>1, InitLemma
  <2> QED BY <1>1, <2>2 DEF Init, IInv
<1>2. IInv /\ [Next]_vars => IInv'
  <2>1. ASSUME IInv, UNCHANGED vars PROVE IInv'
    BY <2>1 DEF vars, IInv
  <2> QED BY <2>1, NextLemma
<1> QED BY <1>1, <1>2, PTL DEF Spec

(* The allocator's fields stay within their types and no VMA ends beyond   *)
(* hi_address, so that the asserts of vma_init hold.                       *)
THEOREM TypeCorrectness == Spec => []TypeOK
<1>1. ASSUME IInv PROVE TypeOK
  <2>1. kva \in AllocatorType /\ Tiled(kva) /\ Used(kva) \subseteq Vma
    BY <1>1, FieldTypes DEF IInv, Sound, Tiled, Used
  <2>2. \A v \in kva.byAddr : vma_hi(kva, v) <= Hi
    BY <2>1, TiledFacts
  <2> QED BY <1>1, <2>1, <2>2 DEF IInv, TypeOK
<1> QED BY <1>1, Invariance, PTL

(* "No two VMAs in the allocator overlap" and "All operations preserve the *)
(* total area covered by VMAs" (virtual_alloc.c:40-41).                    *)
THEOREM PartitionTheorem == Spec => []Partition
<1>1. IInv => Partition
  BY DEF IInv, Sound, Tiled, Partition
<1> QED BY <1>1, Invariance, PTL

(* No two VMAs that is_vma_free takes for free are ever left side by side. *)
THEOREM CoalescedTheorem == Spec => []Coalesced
<1>1. IInv => Coalesced
  BY DEF IInv, Sound, Coalesced
<1> QED BY <1>1, Invariance, PTL

(* List, address treap, size treap, heap and callers agree. *)
THEOREM StructuresAgreeTheorem == Spec => []StructuresAgree
<1>1. IInv => StructuresAgree
  BY DEF IInv, Sound, Tiled, StructuresAgree, Agree, Used
<1> QED BY <1>1, Invariance, PTL

(* No call moves or resizes a VMA that a caller holds across it. *)
THEOREM HeldIsStableTheorem == Spec => HeldIsStable
<1> DEFINE Stable == \A v \in held \cap held' :
                        kva'.addr[v] = kva.addr[v] /\ kva'.size[v] = kva.size[v]
<1>1. IInv /\ IInv' /\ [Next]_vars => [Stable]_vars
  <2>1. ASSUME IInv, IInv', Next PROVE Stable
    <3>1. SameUsed(kva, kva') /\ held = Used(kva) /\ held' = Used(kva')
      BY <2>1, NextLemma DEF IInv
    <3> QED BY <3>1 DEF SameUsed
  <2> QED BY <2>1
<1> QED BY <1>1, Invariance, PTL DEF Spec, HeldIsStable
-----------------------------------------------------------------------------
(* No call panics while the kernel heap has memory, until a draw has left  *)
(* a priority of zero: neither for want of a struct, nor in an assert.     *)
(*                                                                         *)
(* There are never more VMAs than pages.  A call asks for a struct only to *)
(* cut up a VMA of several pages, and then there are fewer VMAs than       *)
(* pages; that vma_alloc_aligned finds its range free again follows from   *)
(* the tiling: no VMA in use is in it, and free neighbours are merged.     *)

(* The heap has a struct for every page of the range. *)
EnoughStructs == IsFiniteSet(Vma) => Hi - Lo <= Cardinality(Vma)

(* The structs cannot all be at different pages and leave one page out. *)
LEMMA PageLeftOut ==
    ASSUME EnoughStructs, NEW f \in [Vma -> Lo..(Hi - 1)],
           \A x, y \in Vma : f[x] = f[y] => x = y,
           NEW p \in Lo..(Hi - 1), \A x \in Vma : f[x] # p
    PROVE  FALSE
<1> DEFINE P == Lo..(Hi - 1)
           T == P \ {p}
<1>1. Lo \in Int /\ Hi - 1 \in Int /\ ~(Lo > Hi - 1) /\ (Hi - 1) - Lo + 1 = Hi - Lo
      /\ Hi - Lo \in Int
  BY ConstantsAssumption
<1>2. IsFiniteSet(P) /\ Cardinality(P) = Hi - Lo
  BY <1>1, FS_Interval
<1>3. IsFiniteSet(T) /\ Cardinality(T) = (Hi - Lo) - 1
  <2> HIDE DEF P
  <2>1. p \in P
    BY DEF P
  <2> QED BY <1>2, <2>1, FS_RemoveElement
<1>4. f \in Injection(Vma, T)
  <2>1. f \in [Vma -> T]
    OBVIOUS
  <2>2. IsInjective(f)
    BY DEF IsInjective
  <2> QED BY <2>1, <2>2 DEF Injection
<1> HIDE DEF T
<1>5. IsFiniteSet(Vma) /\ Cardinality(Vma) <= Cardinality(T)
  BY <1>3, <1>4, FS_Injection
<1>6. Cardinality(Vma) \in Int
  BY <1>5, FS_CardinalityType
<1> QED BY <1>1, <1>3, <1>5, <1>6 DEF EnoughStructs

(* While a VMA has two pages there is a struct left, *)
LEMMA RoomForOne ==
    ASSUME EnoughStructs, NEW A, Tiled(A), NEW v \in A.byAddr, 1 < A.size[v]
    PROVE  ~(Vma \subseteq A.byAddr)
<1> SUFFICES ASSUME Vma \subseteq A.byAddr PROVE FALSE
  OBVIOUS
<1> DEFINE p == A.addr[v] + 1
<1>1. A.addr \in [Vma -> Lo..(Hi - 1)] /\ A.byAddr = Vma
  BY FieldTypes DEF Tiled
<1>2. \A w \in Vma : /\ A.addr[w] \in Int /\ A.size[w] \in Int /\ 1 <= A.size[w]
                     /\ Lo <= A.addr[w] /\ vma_hi(A, w) <= Hi
  BY <1>1, TiledFacts
<1>3. \A x, y \in Vma : x # y => \/ A.addr[x] + A.size[x] <= A.addr[y]
                                 \/ A.addr[y] + A.size[y] <= A.addr[x]
  BY <1>1 DEF Tiled, NoOverlap, vma_hi
<1>4. \A x, y \in Vma : A.addr[x] = A.addr[y] => x = y
  BY <1>2, <1>3
<1>5. p \in Lo..(Hi - 1)
  BY <1>1, <1>2, ConstantsAssumption DEF vma_hi
<1>6. \A x \in Vma : A.addr[x] # p
  BY <1>1, <1>2, <1>3
<1> HIDE DEF p
<1> QED BY <1>1, <1>4, <1>5, <1>6, PageLeftOut

(* and while one has three, there are two. *)
LEMMA RoomForTwo ==
    ASSUME EnoughStructs, NEW A, Tiled(A), NEW v \in A.byAddr, 2 < A.size[v],
           NEW u \in Vma \ A.byAddr
    PROVE  ~(Vma \subseteq A.byAddr \cup {u})
<1> SUFFICES ASSUME Vma \subseteq A.byAddr \cup {u} PROVE FALSE
  OBVIOUS
<1> DEFINE p == A.addr[v] + 1
           q == A.addr[v] + 2
           f == [A.addr EXCEPT ![u] = p]
<1>1. A.addr \in [Vma -> Lo..(Hi - 1)] /\ A.byAddr = Vma \ {u} /\ v \in Vma /\ v # u
  BY FieldTypes DEF Tiled
<1>2. \A w \in Vma \ {u} : /\ A.addr[w] \in Int /\ A.size[w] \in Int /\ 1 <= A.size[w]
                           /\ Lo <= A.addr[w] /\ vma_hi(A, w) <= Hi
  BY <1>1, TiledFacts
<1>3. \A x, y \in Vma \ {u} : x # y => \/ A.addr[x] + A.size[x] <= A.addr[y]
                                       \/ A.addr[y] + A.size[y] <= A.addr[x]
  BY <1>1 DEF Tiled, NoOverlap, vma_hi
<1>4. p \in Lo..(Hi - 1) /\ q \in Lo..(Hi - 1) /\ p # q
  BY <1>1, <1>2, ConstantsAssumption DEF vma_hi
<1>5. \A x, y \in Vma \ {u} : A.addr[x] = A.addr[y] => x = y
  BY <1>2, <1>3
<1>6. \A x \in Vma \ {u} : A.addr[x] # p /\ A.addr[x] # q
  BY <1>1, <1>2, <1>3
<1> HIDE DEF p, q
<1>7. /\ f \in [Vma -> Lo..(Hi - 1)] /\ f[u] = p
      /\ \A x \in Vma \ {u} : f[x] = A.addr[x]
  BY <1>1, <1>4
<1> HIDE DEF f
<1>8. \A x, y \in Vma : f[x] = f[y] => x = y
  BY <1>5, <1>6, <1>7
<1>9. \A x \in Vma : f[x] # q
  BY <1>4, <1>6, <1>7
<1> QED BY <1>4, <1>7, <1>8, <1>9, PageLeftOut
-----------------------------------------------------------------------------
(* The heap never refuses, and has a struct for every page. *)
HeapSuffices == ~scarce /\ EnoughStructs

(* alloc returns a struct as long as there is one. *)
LEMMA StructIsHad ==
    ASSUME HeapSuffices, NEW A, ~(Vma \subseteq A.heap), NEW s \in StructAlloc(A)
    PROVE  s.vma # NULL
BY ConstantsAssumption DEF HeapSuffices, StructAlloc

(* vma_alloc has a struct for the remainder. *)
LEMMA AllocDoesNotPanic ==
    ASSUME HeapSuffices, NEW A, Sound(A), NEW n \in Int, 0 < n, NEW o \in vma_alloc(A, n)
    PROVE  o.vma # PANIC
<1>1. CASE Fits(A, n) = {}
  <2>1. o = [a |-> A, vma |-> NULL]
    BY <1>1 DEF vma_alloc
  <2> QED BY <2>1, ConstantsAssumption
<1>2. CASE Fits(A, n) # {}
  <2>1. PICK v \in best_fit(A, n) : o \in AllocFrom(A, v, n)
    BY <1>2 DEF vma_alloc
  <2>2. v \in A.bySize /\ n <= A.size[v]
    BY DEF best_fit, Fits
  <2>3. Tiled(A) /\ v \in A.byAddr /\ A.heap = A.byAddr
    BY <2>2 DEF Sound, Tiled
  <2>4. v \in Vma /\ A.size[v] \in Int
    BY <2>3, TiledFacts
  <2>5. CASE A.size[v] = n
    <3>1. o.vma = v
      BY <2>1, <2>5 DEF AllocFrom
    <3> QED BY <2>4, <3>1, ConstantsAssumption
  <2>6. CASE A.size[v] # n
    <3>1. ~(Vma \subseteq A.heap)
      <4>1. 1 < A.size[v]
        BY <2>2, <2>4, <2>6
      <4> QED BY <2>3, <4>1, RoomForOne DEF HeapSuffices
    <3>2. PICK s \in StructAlloc(A) :
             o = IF s.vma = NULL THEN [a |-> A, vma |-> PANIC]
                 ELSE [a |-> Split(s.a, v, n, s.vma), vma |-> v]
      BY <2>1, <2>6 DEF AllocFrom
    <3>3. s.vma # NULL
      BY <3>1, StructIsHad
    <3> QED BY <2>4, <3>2, <3>3, ConstantsAssumption
  <2> QED BY <2>5, <2>6
<1> QED BY <1>1, <1>2

(* Cutting a range out of a free VMA does not fail: the VMA has a page for *)
(* the range and one for each side that needs a struct.                    *)
LEMMA CarveIsGranted ==
    ASSUME HeapSuffices, NEW A, Sound(A), NEW v \in A.bySize,
           NEW lo \in Int, NEW hi \in Int,
           A.addr[v] <= lo, lo < hi, hi <= vma_hi(A, v),
           NEW o \in CarveOutcomes(A, v, lo, hi)
    PROVE  o.vma = v
<1> DEFINE needLo == A.addr[v] # lo
           needHi == vma_hi(A, v) # hi
<1>1. Tiled(A) /\ A \in AllocatorType /\ v \in A.byAddr /\ A.heap = A.byAddr
  BY DEF Sound, Tiled
<1>2. v \in Vma /\ A.addr[v] \in Int /\ A.size[v] \in Int
  BY <1>1, TiledFacts
<1>3. PICK l \in StructAllocIf(needLo, A) : \E h \in StructAllocIf(needHi, l.a) :
         o = IF (needLo /\ l.vma = NULL) \/ (needHi /\ h.vma = NULL)
             THEN [a |-> A, vma |-> NULL]
             ELSE [a |-> Carve(h.a, v, lo, hi, l.vma, h.vma), vma |-> v]
  BY DEF CarveOutcomes
<1>4. PICK h \in StructAllocIf(needHi, l.a) :
         o = IF (needLo /\ l.vma = NULL) \/ (needHi /\ h.vma = NULL)
             THEN [a |-> A, vma |-> NULL]
             ELSE [a |-> Carve(h.a, v, lo, hi, l.vma, h.vma), vma |-> v]
  BY <1>3
<1>5. ASSUME needLo
      PROVE  /\ l.vma # NULL /\ l.vma \in Vma \ A.byAddr
             /\ l.a.heap = A.byAddr \cup {l.vma}
  <2>1. l \in StructAlloc(A)
    BY <1>3, <1>5 DEF StructAllocIf
  <2>2. 1 < A.size[v]
    BY <1>2, <1>5 DEF vma_hi
  <2>3. l.vma # NULL
    BY <1>1, <2>1, <2>2, RoomForOne, StructIsHad DEF HeapSuffices
  <2>4. l.vma \in Vma \ A.heap /\ l.a = [A EXCEPT !.heap = @ \cup {l.vma}]
    BY <1>1, <2>1, <2>3, StructAllocLemma
  <2> QED BY <1>1, <2>3, <2>4 DEF AllocatorType
<1>6. ASSUME needHi PROVE h.vma # NULL
  <2>1. h \in StructAlloc(l.a)
    BY <1>4, <1>6 DEF StructAllocIf
  <2>2. CASE needLo
    <3>1. 2 < A.size[v]
      BY <1>2, <1>6, <2>2 DEF vma_hi
    <3>2. ~(Vma \subseteq l.a.heap)
      BY <1>1, <1>5, <2>2, <3>1, RoomForTwo DEF HeapSuffices
    <3> QED BY <2>1, <3>2, StructIsHad
  <2>3. CASE ~needLo
    <3>1. l.a = A
      BY <1>3, <2>3 DEF StructAllocIf
    <3>2. 1 < A.size[v]
      BY <1>2, <1>6 DEF vma_hi
    <3>3. ~(Vma \subseteq l.a.heap)
      BY <1>1, <3>1, <3>2, RoomForOne DEF HeapSuffices
    <3> QED BY <2>1, <3>3, StructIsHad
  <2> QED BY <2>2, <2>3
<1> QED BY <1>4, <1>5, <1>6

(* What vma_alloc gave, once it is given back, is free for the VMA that is *)
(* carved out of it: the assert of vma_alloc_aligned (line 523) holds.     *)
LEMMA AlignedWithinDoesNotPanic ==
    ASSUME HeapSuffices, NEW A, Sound(A), NEW n \in Int, 0 < n, NEW o \in AlignedWithin(A, n),
           o.a.zero = {}
    PROVE  o.vma # PANIC
<1> DEFINE m == n + Align
<1>1. m \in Int /\ 0 < m
  BY ConstantsAssumption
<1>2. PICK q \in vma_alloc(A, m) :
         o \in IF q.vma \in {NULL, PANIC} THEN {q}
              ELSE LET addr == align_up(q.a.addr[q.vma])
                   IN  {IF r.vma = NULL THEN [a |-> r.a, vma |-> PANIC] ELSE r :
                          r \in vma_alloc_by_addr(vma_free(q.a, q.vma), addr, addr + n)}
  BY DEF AlignedWithin
<1> HIDE DEF m
<1>3. /\ Outcome(A, q) /\ (q.vma \in {NULL, PANIC} \/ q.a.size[q.vma] = m)
      /\ q.vma # PANIC
  BY <1>1, AllocLemma, AllocDoesNotPanic
<1>4. CASE q.vma \in {NULL, PANIC}
  BY <1>2, <1>3, <1>4
<1>5. CASE q.vma \notin {NULL, PANIC}
  <2> DEFINE u == q.vma
             B == vma_free(q.a, u)
             addr == align_up(q.a.addr[u])
             hi == addr + n
             v == vma_find(B, addr)
  <2>1. PICK r \in vma_alloc_by_addr(B, addr, hi) :
           o = IF r.vma = NULL THEN [a |-> r.a, vma |-> PANIC] ELSE r
    BY <1>2, <1>5
  <2>2. /\ Sound(q.a) /\ Tiled(q.a) /\ u \in Used(q.a) /\ u \in q.a.byAddr
    BY <1>3, <1>5 DEF Outcome, Sound, Used
  <2>3. Sound(B) /\ Used(B) = Used(q.a) \ {u} /\ SameUsed(q.a, B)
    BY <2>2, FreeLemma
  <2>4. /\ q.a.addr[u] \in Int /\ Lo <= q.a.addr[u] /\ vma_hi(q.a, u) <= Hi
        /\ vma_hi(q.a, u) = q.a.addr[u] + m
    BY <1>3, <1>5, <2>2, TiledFacts DEF vma_hi
  <2>5. /\ addr \in Int /\ hi \in Int /\ addr < hi
        /\ q.a.addr[u] <= addr /\ hi <= vma_hi(q.a, u)
    <3>1. q.a.addr[u] \in Nat
      BY <2>4, ConstantsAssumption
    <3>2. addr \in Int /\ q.a.addr[u] <= addr /\ addr < q.a.addr[u] + Align
      BY <3>1, AlignUpLemma
    <3> HIDE DEF addr, u
    <3> QED BY <2>4, <3>1, <3>2, ConstantsAssumption DEF m
  <2> HIDE DEF u, B, addr, hi
  <2>6. \A w \in Used(B) : vma_hi(B, w) <= addr \/ hi <= B.addr[w]
    <3> SUFFICES ASSUME NEW w \in Used(B) PROVE vma_hi(B, w) <= addr \/ hi <= B.addr[w]
      OBVIOUS
    <3>1. w \in Used(q.a) /\ w # u /\ w \in q.a.byAddr
      BY <2>3 DEF Used
    <3>2. B.addr[w] = q.a.addr[w] /\ vma_hi(B, w) = vma_hi(q.a, w)
      BY <2>3, <3>1 DEF SameUsed, vma_hi
    <3>3. vma_hi(q.a, w) <= q.a.addr[u] \/ vma_hi(q.a, u) <= q.a.addr[w]
      BY <2>2, <3>1 DEF Tiled, NoOverlap
    <3>4. q.a.addr[w] \in Int /\ vma_hi(q.a, w) \in Int /\ vma_hi(q.a, u) \in Int
      BY <2>2, <3>1, TiledFacts
    <3> QED BY <2>4, <2>5, <3>2, <3>3, <3>4
  <2>7. Lo <= addr /\ hi <= Hi
    BY <2>2, <2>4, <2>5, TiledFacts, ConstantsAssumption
  <2>7a. B.zero = {}
    <3>1. addr \in Lo..(Hi - 1)
      BY <2>5, <2>7, ConstantsAssumption
    <3>2. Outcome(B, r)
      BY <2>1, <2>3, <2>5, <3>1, AllocByAddrLemma
    <3>3. r.a = o.a
      BY <2>1
    <3> QED BY <3>2, <3>3 DEF Outcome, Later
  <2>8. v \in B.bySize /\ hi <= vma_hi(B, v) /\ B.addr[v] <= addr
    BY <2>3, <2>5, <2>6, <2>7, <2>7a, UnusedIsInOneVma
  <2>9. Tiled(B) /\ v \in B.byAddr
    BY <2>3, <2>8 DEF Sound, Tiled
  <2>9a. is_vma_free(B, v)
    BY <2>3, <2>7a, <2>8, NoZero
  <2>10. r \in CarveOutcomes(B, v, addr, hi)
    <3>1. vma_hi(B, v) \in Int
      BY <2>9, TiledFacts
    <3>2. ~(vma_hi(B, v) < hi)
      BY <2>5, <2>8, <3>1
    <3> QED BY <2>1, <2>9a, <3>2 DEF vma_alloc_by_addr
  <2> HIDE DEF v
  <2>11. r.vma = v
    BY <2>3, <2>5, <2>8, <2>10, CarveIsGranted
  <2>12. r.vma # NULL /\ r.vma # PANIC
    BY <2>9, <2>11, TiledFacts, ConstantsAssumption
  <2> QED BY <2>1, <2>12
<1> QED BY <1>4, <1>5

LEMMA AllocAlignedDoesNotPanic ==
    ASSUME HeapSuffices, NEW A, Sound(A), NEW n \in Int, 0 < n,
           NEW o \in vma_alloc_aligned(A, n), o.a.zero = {}
    PROVE  o.vma # PANIC
<1>1. PICK q \in vma_alloc(A, n) :
         o \in IF q.vma \in {NULL, PANIC} THEN {q}
              ELSE IF q.a.addr[q.vma] % Align = 0 THEN {q}
              ELSE AlignedWithin(vma_free(q.a, q.vma), n)
  BY DEF vma_alloc_aligned
<1>2. Outcome(A, q) /\ q.vma # PANIC
  BY AllocLemma, AllocDoesNotPanic
<1>3. CASE o = q
  BY <1>2, <1>3
<1>4. CASE o # q
  <2> DEFINE B == vma_free(q.a, q.vma)
  <2>1. q.vma \notin {NULL, PANIC} /\ o \in AlignedWithin(B, n)
    BY <1>1, <1>4
  <2>2. Sound(B)
    BY <1>2, <2>1, AllocThenFree
  <2> HIDE DEF B
  <2> QED BY <2>1, <2>2, AlignedWithinDoesNotPanic
<1> QED BY <1>3, <1>4

(* What the kernel is left with by a call that allocates. *)
LEMMA FinishFacts ==
    ASSUME IInv, NEW draws \in Chances, NEW o, Outcome(Start(draws), o),
           NEW call, NEW n, Finish(o, call, n)
    PROVE  /\ scarce' = scarce
           /\ kva'.zero = o.a.zero /\ kva.zero \subseteq o.a.zero
           /\ o.a.failed => o.a.zero # {} /\ SameLayout(kva, kva')
           /\ ~o.a.failed => SameLayout(o.a, kva')
<1> DEFINE Q == o.a
           D == Left(Q)
<1>1. Start(draws).zero = kva.zero
  BY StartLemma
<1>2. Sound(Q) /\ kva.zero \subseteq Q.zero /\ (Q.failed => Q.zero # {})
  BY <1>1 DEF Outcome, Later, Sound, Tiled, Blamed
<1>3. D = Left(Q) /\ kva' = D /\ scarce' = scarce
  BY DEF Finish
<1> HIDE DEF Q, D
<1>4. /\ Sound(D) /\ D.draws = {} /\ ~D.failed
      /\ D.zero = Q.zero
      /\ Q.failed => SameLayout(kva, D) /\ Used(D) = Used(kva)
      /\ ~Q.failed => SameLayout(Q, D) /\ Used(D) = Used(Q)
  BY ONLY <1>2, <1>3, IInv, LeftLemma
<1> QED BY <1>2, <1>3, <1>4 DEF Q

(* The same of vma_free. *)
LEMMA FreeFacts ==
    ASSUME IInv, NEW draws \in Chances, NEW v \in held, Free(v, draws),
           NEW Q, Q = vma_free(Start(draws), v)
    PROVE  /\ scarce' = scarce
           /\ kva'.zero = Q.zero /\ kva.zero \subseteq Q.zero
           /\ Q.failed => Q.zero # {} /\ SameLayout(kva, kva')
           /\ ~Q.failed => SameLayout(Q, kva')
<1> DEFINE A == Start(draws)
           D == Left(Q)
<1>1. Sound(A) /\ A.zero = kva.zero /\ v \in Used(A)
  BY StartLemma DEF IInv
<1>2. Sound(Q) /\ kva.zero \subseteq Q.zero /\ (Q.failed => Q.zero # {})
  <2> HIDE DEF A
  <2>1. Sound(Q) /\ Later(A, Q)
    BY <1>1, FreeLemma DEF A
  <2> QED BY <1>1, <2>1 DEF Later, Sound, Tiled, Blamed
<1>3. D = Left(Q) /\ kva' = D /\ scarce' = scarce
  BY DEF Free
<1> HIDE DEF D
<1>4. /\ Sound(D) /\ D.draws = {} /\ ~D.failed
      /\ D.zero = Q.zero
      /\ Q.failed => SameLayout(kva, D) /\ Used(D) = Used(kva)
      /\ ~Q.failed => SameLayout(Q, D) /\ Used(D) = Used(Q)
  BY ONLY <1>2, <1>3, IInv, LeftLemma
<1> QED BY <1>2, <1>3, <1>4

(* No step of the kernel panics, and none undoes a priority of zero. *)
LEMMA NextDoesNotPanic ==
    ASSUME EnoughStructs, IInv, Next
    PROVE  /\ scarce' = scarce /\ kva.zero \subseteq kva'.zero
           /\ ~scarce /\ ~panicked /\ kva'.zero = {} => ~panicked'
<1> DEFINE Goal == /\ scarce' = scarce /\ kva.zero \subseteq kva'.zero
                   /\ ~scarce /\ ~panicked /\ kva'.zero = {} => ~panicked'
<1>1. ASSUME NEW draws \in Chances PROVE Sound(Start(draws)) /\ held = Used(Start(draws))
  BY <1>1, StartLemma DEF IInv
<1>2. ASSUME NEW draws \in Chances, NEW o, Outcome(Start(draws), o),
             ~scarce /\ o.a.zero = {} => o.vma # PANIC,
             NEW call, NEW n, Finish(o, call, n)
      PROVE  Goal
  <2>1. /\ scarce' = scarce
        /\ kva'.zero = o.a.zero /\ kva.zero \subseteq o.a.zero
        /\ o.a.failed => o.a.zero # {} /\ SameLayout(kva, kva')
        /\ ~o.a.failed => SameLayout(o.a, kva')
    BY <1>2, FinishFacts
  <2>2. o.a.failed \/ o.vma = PANIC \/ panicked' = panicked
    BY <1>2 DEF Finish
  <2> QED BY <1>2, <2>1, <2>2
<1>3. ASSUME NEW draws \in Chances, NEW n \in 1..(Hi - Lo), Alloc(n, draws) PROVE Goal
  <2>1. PICK o \in vma_alloc(Start(draws), n) : Finish(o, "vma_alloc", n)
    BY <1>3 DEF Alloc
  <2>2. Outcome(Start(draws), o)
    BY <1>1, AllocLemma
  <2>3. ~scarce => o.vma # PANIC
    BY <1>1, AllocDoesNotPanic DEF HeapSuffices
  <2> HIDE DEF Goal
  <2> QED BY <1>2, <2>1, <2>2, <2>3
<1>4. ASSUME NEW draws \in Chances, NEW n \in 1..(Hi - Lo), AllocAligned(n, draws) PROVE Goal
  <2>1. PICK o \in vma_alloc_aligned(Start(draws), n) : Finish(o, "vma_alloc_aligned", n)
    BY <1>4 DEF AllocAligned
  <2>2. Outcome(Start(draws), o)
    BY <1>1, AllocAlignedLemma
  <2>3. ~scarce /\ o.a.zero = {} => o.vma # PANIC
    BY <1>1, AllocAlignedDoesNotPanic DEF HeapSuffices
  <2> HIDE DEF Goal
  <2> QED BY <1>2, <2>1, <2>2, <2>3
<1>5. ASSUME NEW draws \in Chances, NEW lo \in Lo..(Hi - 1), NEW hi \in (lo + 1)..(Hi + 1),
             AllocByAddr(lo, hi, draws)
      PROVE  Goal
  <2>1. PICK o \in vma_alloc_by_addr(Start(draws), lo, hi) :
                Finish(o, "vma_alloc_by_addr", hi - lo)
    BY <1>5 DEF AllocByAddr
  <2>2. lo \in Int /\ hi \in Int /\ lo < hi
    BY ConstantsAssumption
  <2>3. Outcome(Start(draws), o) /\ o.vma # PANIC
    BY <1>1, <2>2, AllocByAddrLemma
  <2> HIDE DEF Goal
  <2> QED BY <1>2, <2>1, <2>3
<1>6. ASSUME NEW draws \in Chances, NEW v \in held, Free(v, draws) PROVE Goal
  <2> DEFINE Q == vma_free(Start(draws), v)
  <2>1. Q.failed \/ panicked' = panicked
    BY <1>6 DEF Free
  <2>2. Q = vma_free(Start(draws), v)
    OBVIOUS
  <2> HIDE DEF Q
  <2>3. /\ scarce' = scarce
        /\ kva'.zero = Q.zero /\ kva.zero \subseteq Q.zero
        /\ Q.failed => Q.zero # {} /\ SameLayout(kva, kva')
        /\ ~Q.failed => SameLayout(Q, kva')
    BY <1>6, <2>2, FreeFacts
  <2> QED BY <2>1, <2>3
<1>7. ASSUME Halt PROVE Goal
  BY <1>7 DEF Halt, vars
<1> HIDE DEF Goal
<1>8. Goal
  BY <1>3, <1>4, <1>5, <1>6, <1>7 DEF Next
<1> QED BY <1>8 DEF Goal

(* While the heap has memory for structs, and until a draw has left a      *)
(* priority of zero, no call panics: neither vma_alloc for want of a       *)
(* struct (virtual_alloc.c:463) nor an assert, of treap_remove (270), of   *)
(* vma_alloc_aligned (523), of vma_merge (608-609) or of vma_free (632).   *)
THEOREM NoPanicTheorem ==
    ASSUME EnoughStructs PROVE Spec => []NoPanic
<1>1. Init => NoPanic
  BY DEF Init, NoPanic
<1>2. ASSUME IInv, NoPanic, [Next]_vars PROVE NoPanic'
  <2>1. ASSUME Next PROVE NoPanic'
    <3>1. /\ scarce' = scarce /\ kva.zero \subseteq kva'.zero
          /\ ~scarce /\ ~panicked /\ kva'.zero = {} => ~panicked'
      BY <1>2, <2>1, NextDoesNotPanic
    <3>2. kva'.zero = {} => kva.zero = {}
      BY <3>1
    <3> QED BY <1>2, <3>1, <3>2 DEF NoPanic
  <2>2. ASSUME UNCHANGED vars PROVE NoPanic'
    BY <1>2, <2>2 DEF vars, NoPanic
  <2> QED BY <1>2, <2>1, <2>2
<1> QED BY <1>1, <1>2, Invariance, PTL DEF Spec
-----------------------------------------------------------------------------
(***************************************************************************)
(* mm/virtual_alloc.c implements AddressSpace: what include/               *)
(* mm/virtual_alloc.h promises, without any of the data structures.        *)
(*                                                                         *)
(* The mapping takes the VMAs in use to the ranges they cover.  A call     *)
(* that is granted adds one range, which overlaps no other because the     *)
(* VMAs tile the address space; a call that is refused has found no free   *)
(* VMA of the size, and since free neighbours are merged there is no gap   *)
(* of that size either (UnusedIsInOneVma).                                 *)
(***************************************************************************)

(* The ranges in use. *)
RangeOf(A, v) == <<A.addr[v], vma_hi(A, v)>>
UsedRanges(A) == {RangeOf(A, v) : v \in Used(A)}

(* Nobody has a page of [lo, hi). *)
Vacant(A, lo, hi) == /\ Lo <= lo /\ lo < hi /\ hi <= Hi
                     /\ \A r \in UsedRanges(A) : hi <= r[1] \/ r[2] <= lo

(* What is used determines the ranges. *)
LEMMA SameRanges ==
    ASSUME NEW A, NEW B, Used(B) = Used(A), SameUsed(A, B)
    PROVE  UsedRanges(B) = UsedRanges(A)
<1>1. \A v \in Used(A) : RangeOf(B, v) = RangeOf(A, v)
  BY DEF SameUsed, RangeOf, vma_hi
<1> QED BY <1>1 DEF UsedRanges

(* A call that fails or panics leaves the ranges as they are, *)
LEMMA RefusedRanges ==
    ASSUME NEW A, NEW o, Outcome(A, o), o.vma \in {NULL, PANIC}
    PROVE  UsedRanges(o.a) = UsedRanges(A)
BY SameRanges DEF Outcome

(* and one that is granted adds a range that nobody had. *)
LEMMA GrantedRanges ==
    ASSUME NEW A, Sound(A), NEW o, Outcome(A, o), o.vma \notin {NULL, PANIC}
    PROVE  /\ UsedRanges(o.a) = UsedRanges(A) \cup {RangeOf(o.a, o.vma)}
           /\ Vacant(A, o.a.addr[o.vma], vma_hi(o.a, o.vma))
           /\ o.a.addr[o.vma] \in Lo..(Hi - 1)
           /\ vma_hi(o.a, o.vma) = o.a.addr[o.vma] + o.a.size[o.vma]
<1> DEFINE B == o.a
           v == o.vma
<1>1. /\ Sound(B) /\ Tiled(B) /\ Used(B) = Used(A) \cup {v} /\ v \notin Used(A)
      /\ SameUsed(A, B) /\ v \in B.byAddr
  BY DEF Outcome, Sound, Used
<1> HIDE DEF B, v
<1>2. \A w \in Used(A) : RangeOf(B, w) = RangeOf(A, w)
  BY <1>1 DEF SameUsed, RangeOf, vma_hi
<1>3. UsedRanges(B) = UsedRanges(A) \cup {RangeOf(B, v)}
  BY <1>1, <1>2 DEF UsedRanges
<1>4. /\ B.addr[v] \in Int /\ B.size[v] \in Int /\ 1 <= B.size[v] /\ Lo <= B.addr[v]
      /\ vma_hi(B, v) <= Hi /\ vma_hi(B, v) = B.addr[v] + B.size[v]
  BY <1>1, TiledFacts DEF vma_hi
<1>5. ASSUME NEW w \in Used(A)
      PROVE  vma_hi(B, v) <= RangeOf(A, w)[1] \/ RangeOf(A, w)[2] <= B.addr[v]
  <2>1. w \in B.byAddr /\ w # v /\ RangeOf(A, w) = RangeOf(B, w)
    BY <1>1, <1>2 DEF Used
  <2>2. vma_hi(B, v) <= B.addr[w] \/ vma_hi(B, w) <= B.addr[v]
    BY <1>1, <2>1 DEF Tiled, NoOverlap
  <2> QED BY <2>1, <2>2 DEF RangeOf
<1>6. Vacant(A, B.addr[v], vma_hi(B, v))
  <2>1. \A r \in UsedRanges(A) : vma_hi(B, v) <= r[1] \/ r[2] <= B.addr[v]
    BY <1>5 DEF UsedRanges
  <2>2. B.addr[v] < vma_hi(B, v)
    BY <1>4
  <2> QED BY <1>4, <2>1, <2>2 DEF Vacant
<1>7. B.addr[v] \in Lo..(Hi - 1)
  BY <1>4, ConstantsAssumption
<1> QED BY <1>3, <1>4, <1>6, <1>7 DEF B, v

(* vma_free takes one range out: no other VMA has the same. *)
LEMMA FreedRanges ==
    ASSUME NEW A, Sound(A), NEW v \in Used(A)
    PROVE  /\ UsedRanges(vma_free(A, v)) = UsedRanges(A) \ {RangeOf(A, v)}
           /\ RangeOf(A, v) \in UsedRanges(A)
           /\ RangeOf(A, v)[2] - RangeOf(A, v)[1] = A.size[v]
           /\ RangeOf(A, v)[1] = A.addr[v]
<1> DEFINE B == vma_free(A, v)
<1>1. Used(B) = Used(A) \ {v} /\ SameUsed(A, B)
  BY FreeLemma
<1> HIDE DEF B
<1>2. \A w \in Used(B) : RangeOf(B, w) = RangeOf(A, w)
  BY <1>1 DEF SameUsed, RangeOf, vma_hi
<1>3. Tiled(A) /\ \A w \in Used(A) : w \in A.byAddr
  BY DEF Sound, Used
<1>4. \A w \in Used(A) : /\ A.addr[w] \in Int /\ A.size[w] \in Int /\ 1 <= A.size[w]
                         /\ vma_hi(A, w) = A.addr[w] + A.size[w]
  BY <1>3, TiledFacts DEF vma_hi
<1>5. \A w \in Used(A) : w # v => RangeOf(A, w) # RangeOf(A, v)
  <2> SUFFICES ASSUME NEW w \in Used(A), w # v PROVE A.addr[w] # A.addr[v]
    BY DEF RangeOf
  <2>1. vma_hi(A, w) <= A.addr[v] \/ vma_hi(A, v) <= A.addr[w]
    BY <1>3 DEF Tiled, NoOverlap
  <2> QED BY <1>4, <2>1
<1>6. UsedRanges(B) = UsedRanges(A) \ {RangeOf(A, v)}
  BY <1>1, <1>2, <1>5 DEF UsedRanges
<1>7. RangeOf(A, v) \in UsedRanges(A)
  BY DEF UsedRanges
<1>8. RangeOf(A, v)[1] = A.addr[v] /\ RangeOf(A, v)[2] = A.addr[v] + A.size[v]
  BY <1>4 DEF RangeOf
<1> QED BY <1>4, <1>6, <1>7, <1>8 DEF B

(* A range that is vacant is in one free VMA. *)
LEMMA VacantIsInOneVma ==
    ASSUME NEW A, Sound(A), A.zero = {}, NEW lo \in Int, NEW hi \in Int, Vacant(A, lo, hi)
    PROVE  /\ vma_find(A, lo) \in A.bySize /\ hi <= vma_hi(A, vma_find(A, lo))
           /\ A.addr[vma_find(A, lo)] <= lo
<1>1. \A w \in Used(A) : vma_hi(A, w) <= lo \/ hi <= A.addr[w]
  <2> SUFFICES ASSUME NEW w \in Used(A) PROVE vma_hi(A, w) <= lo \/ hi <= A.addr[w]
    OBVIOUS
  <2>1. RangeOf(A, w) \in UsedRanges(A)
    BY DEF UsedRanges
  <2> QED BY <2>1 DEF Vacant, RangeOf
<1> QED BY <1>1, UnusedIsInOneVma DEF Vacant

(* When no free VMA has n pages there is no gap of n pages. *)
LEMMA NoFitNoGap ==
    ASSUME NEW A, Sound(A), A.zero = {}, NEW n \in Int, Fits(A, n) = {},
           NEW lo \in Lo..(Hi - 1)
    PROVE  ~Vacant(A, lo, lo + n)
<1> SUFFICES ASSUME Vacant(A, lo, lo + n) PROVE FALSE
  OBVIOUS
<1> DEFINE v == vma_find(A, lo)
           hi == lo + n
<1>1. lo \in Int /\ hi \in Int
  BY ConstantsAssumption
<1>2. v \in A.bySize /\ hi <= vma_hi(A, v) /\ A.addr[v] <= lo
  BY <1>1, VacantIsInOneVma
<1> HIDE DEF v
<1>3. Tiled(A) /\ v \in A.byAddr
  BY <1>2 DEF Sound, Tiled
<1>4. A.addr[v] \in Int /\ A.size[v] \in Int /\ vma_hi(A, v) = A.addr[v] + A.size[v]
  BY <1>3, TiledFacts DEF vma_hi
<1>5. n <= A.size[v]
  BY <1>1, <1>2, <1>4
<1> QED BY <1>2, <1>5 DEF Fits

(* vma_alloc returns nullptr only when there is no gap. *)
LEMMA AllocRefused ==
    ASSUME NEW A, Sound(A), NEW n \in Int, 0 < n, NEW o \in vma_alloc(A, n), o.vma = NULL
    PROVE  Fits(A, n) = {}
<1> SUFFICES ASSUME Fits(A, n) # {} PROVE FALSE
  OBVIOUS
<1>1. PICK v \in best_fit(A, n) : o \in AllocFrom(A, v, n)
  BY DEF vma_alloc
<1>2. v \in Vma
  BY TiledFacts DEF best_fit, Fits, Sound, Tiled
<1>3. o.vma \in {v, PANIC}
  BY <1>1 DEF AllocFrom
<1> QED BY <1>2, <1>3, ConstantsAssumption

(* Nor does vma_alloc_aligned, for a gap that an alignment fits in. *)
LEMMA AllocAlignedRefused ==
    ASSUME NEW A, Sound(A), NEW n \in Int, 0 < n, NEW o \in vma_alloc_aligned(A, n),
           o.vma = NULL, o.a.zero = {}, NEW lo \in Lo..(Hi - 1)
    PROVE  ~Vacant(A, lo, lo + (n + Align))
<1> DEFINE m == n + Align
<1>1. m \in Int /\ 0 < m /\ n <= m
  BY ConstantsAssumption
<1>2. PICK q \in vma_alloc(A, n) :
         o \in IF q.vma \in {NULL, PANIC} THEN {q}
              ELSE IF q.a.addr[q.vma] % Align = 0 THEN {q}
              ELSE AlignedWithin(vma_free(q.a, q.vma), n)
  BY DEF vma_alloc_aligned
<1>3. Outcome(A, q)
  BY AllocLemma
<1>4. CASE q.vma \in {NULL, PANIC}
  <2>1. q.vma = NULL /\ o = q
    BY <1>2, <1>4, ConstantsAssumption
  <2>1a. A.zero = {}
    BY <1>3, <2>1 DEF Outcome, Later
  <2>2. Fits(A, n) = {}
    BY <2>1, AllocRefused
  <2>3. \A v \in A.bySize : A.size[v] \in Int
    BY TiledFacts DEF Sound, Tiled
  <2>4. Fits(A, m) = {}
    <3> HIDE DEF m
    <3> QED BY <1>1, <2>2, <2>3 DEF Fits
  <2> HIDE DEF m
  <2>5. ~Vacant(A, lo, lo + m)
    BY <1>1, <2>1a, <2>4, NoFitNoGap
  <2> QED BY <2>5 DEF m
<1>5. CASE q.vma \notin {NULL, PANIC}
  <2> DEFINE B == vma_free(q.a, q.vma)
  <2>1. Sound(B) /\ UsedRanges(B) = UsedRanges(A)
    BY <1>3, <1>5, AllocThenFree, SameRanges
  <2>2. o \in AlignedWithin(B, n)
    BY <1>2, <1>5
  <2> HIDE DEF B
  <2>3. PICK p \in vma_alloc(B, m) :
           o \in IF p.vma \in {NULL, PANIC} THEN {p}
                ELSE LET addr == align_up(p.a.addr[p.vma])
                     IN  {IF r.vma = NULL THEN [a |-> r.a, vma |-> PANIC] ELSE r :
                            r \in vma_alloc_by_addr(vma_free(p.a, p.vma), addr, addr + n)}
    BY <2>2 DEF AlignedWithin
  <2>4. p.vma = NULL /\ o = p
    BY <2>3, ConstantsAssumption
  <2> HIDE DEF m
  <2>4a. B.zero = {}
    <3>1. Outcome(B, p)
      BY <1>1, <2>1, <2>3, AllocLemma
    <3> QED BY <2>4, <3>1 DEF Outcome, Later
  <2>5. ~Vacant(B, lo, lo + m)
    BY <1>1, <2>1, <2>3, <2>4, <2>4a, AllocRefused, NoFitNoGap
  <2> QED BY <2>1, <2>5 DEF Vacant, m
<1> QED BY <1>4, <1>5

(* While the heap has memory vma_alloc_by_addr grants every vacant range. *)
LEMMA AllocByAddrRefused ==
    ASSUME HeapSuffices, NEW A, Sound(A), A.zero = {}, NEW lo \in Int, NEW hi \in Int,
           NEW o \in vma_alloc_by_addr(A, lo, hi), o.vma = NULL
    PROVE  ~Vacant(A, lo, hi)
<1> SUFFICES ASSUME Vacant(A, lo, hi) PROVE FALSE
  OBVIOUS
<1> DEFINE v == vma_find(A, lo)
<1>1. v \in A.bySize /\ hi <= vma_hi(A, v) /\ A.addr[v] <= lo
  BY VacantIsInOneVma
<1>2. vma_hi(A, v) \in Int
  BY <1>1, TiledFacts DEF Sound, Tiled
<1>3. o \in CarveOutcomes(A, v, lo, hi)
  <2>1. is_vma_free(A, v) /\ ~(vma_hi(A, v) < hi)
    BY <1>1, <1>2, NoZero
  <2> QED BY <2>1 DEF vma_alloc_by_addr
<1>4. v \in Vma
  BY <1>1, TiledFacts DEF Sound, Tiled
<1> HIDE DEF v
<1>5. o.vma = v
  BY <1>1, <1>3, CarveIsGranted DEF Vacant
<1> QED BY <1>4, <1>5, ConstantsAssumption
-----------------------------------------------------------------------------
(* The terms of AddressSpace, on the state of the allocator. *)
LEMMA MappedTerms ==
    ASSUME held = Used(kva)
    PROVE  \A lo, hi : Abstract!Unused(lo, hi) <=> Vacant(kva, lo, hi)
<1>1. {<<kva.addr[v], vma_hi(kva, v)>> : v \in held} = UsedRanges(kva)
  BY DEF UsedRanges, RangeOf
<1> QED BY <1>1 DEF Abstract!Unused, Vacant

(* The ranges do not depend on priorities, draws and asserts. *)
LEMMA LayoutRanges ==
    ASSUME NEW A, NEW B, SameLayout(A, B)
    PROVE  UsedRanges(B) = UsedRanges(A)
<1>1. Used(B) = Used(A) /\ \A v : RangeOf(B, v) = RangeOf(A, v)
  BY DEF SameLayout, Used, RangeOf, vma_hi
<1> QED BY <1>1 DEF UsedRanges

(* The ranges as the mapping has them. *)
Ranges == {<<kva.addr[v], vma_hi(kva, v)>> : v \in held}

(* What one of the calls that allocate may do, seen from outside: it       *)
(* panics for want of a struct or for a priority of zero, or it grants a   *)
(* range, or it refuses.                                                   *)
LEMMA FinishIsAbstract ==
    ASSUME IInv, IInv', ~panicked, NEW draws \in Chances, NEW o, Outcome(Start(draws), o),
           NEW call, NEW n, Finish(o, call, n),
           o.vma = PANIC => scarce \/ o.a.zero # {}
    PROVE  /\ scarce' = scarce /\ kva'.zero = o.a.zero /\ kva.zero \subseteq o.a.zero
           /\ Sound(Start(draws)) /\ Start(draws).zero = kva.zero
           /\ UsedRanges(Start(draws)) = UsedRanges(kva)
           /\ \/ Abstract!Panic
              \/ /\ o.vma = NULL /\ ret' = <<call, n, NULL>> /\ UNCHANGED panicked
                 /\ Ranges' = Ranges
              \/ /\ o.vma \notin {NULL, PANIC}
                 /\ ret' = <<call, n, o.a.addr[o.vma]>> /\ UNCHANGED panicked
                 /\ Abstract!Grant(o.a.addr[o.vma], o.a.addr[o.vma] + o.a.size[o.vma])
                 /\ o.a.addr[o.vma] \in Lo..(Hi - 1)
<1> DEFINE A == Start(draws)
<1>1. Ranges = UsedRanges(kva) /\ held = Used(kva) /\ Sound(kva)
  BY DEF IInv, UsedRanges, RangeOf, Ranges
<1>2. Ranges' = UsedRanges(kva')
  BY DEF IInv, UsedRanges, RangeOf, Used, Ranges
<1>3. /\ scarce' = scarce
      /\ kva'.zero = o.a.zero /\ kva.zero \subseteq o.a.zero
      /\ o.a.failed => o.a.zero # {} /\ SameLayout(kva, kva')
      /\ ~o.a.failed => SameLayout(o.a, kva')
  BY FinishFacts
<1>4. /\ Sound(A) /\ A.zero = kva.zero
      /\ UsedRanges(A) = UsedRanges(kva)
  BY StartLemma, LayoutRanges
<1>5. CASE o.a.failed
  <2>1. Ranges' = Ranges
    BY <1>1, <1>2, <1>3, <1>5, LayoutRanges
  <2>2. panicked' = TRUE /\ UNCHANGED ret
    BY <1>5 DEF Finish
  <2> QED BY <1>3, <1>4, <1>5, <2>1, <2>2 DEF Abstract!Panic, Ranges, vma_hi
<1>6. CASE ~o.a.failed
  <2> HIDE DEF A
  <2>1. UsedRanges(kva') = UsedRanges(o.a)
    BY <1>3, <1>6, LayoutRanges
  <2>2. Outcome(A, o)
    BY DEF A
  <2>3. CASE o.vma = PANIC
    <3>1. Ranges' = Ranges
      BY <1>1, <1>2, <1>4, <2>1, <2>2, <2>3, RefusedRanges
    <3>2. panicked' = TRUE /\ UNCHANGED ret
      BY <2>3 DEF Finish
    <3> QED BY <1>3, <1>4, <2>3, <3>1, <3>2 DEF Abstract!Panic, Ranges, vma_hi, A
  <2>4. CASE o.vma = NULL
    <3>1. Ranges' = Ranges
      BY <1>1, <1>2, <1>4, <2>1, <2>2, <2>4, RefusedRanges
    <3>2. ret' = <<call, n, NULL>> /\ UNCHANGED panicked
      BY <1>6, <2>4, ConstantsAssumption DEF Finish
    <3> QED BY <1>3, <1>4, <2>4, <3>1, <3>2 DEF A
  <2>5. CASE o.vma \notin {NULL, PANIC}
    <3> DEFINE lo == o.a.addr[o.vma]
               hi == lo + o.a.size[o.vma]
    <3>1. /\ UsedRanges(o.a) = UsedRanges(A) \cup {<<lo, hi>>}
          /\ Vacant(A, lo, hi) /\ lo \in Lo..(Hi - 1)
      BY <1>4, <2>2, <2>5, GrantedRanges DEF RangeOf
    <3>2. ret' = <<call, n, lo>> /\ UNCHANGED panicked
      BY <1>6, <2>5 DEF Finish
    <3> HIDE DEF lo, hi
    <3>3. Vacant(kva, lo, hi)
      BY <1>4, <3>1 DEF Vacant
    <3>4. Abstract!Unused(lo, hi)
      BY <1>1, <3>3, MappedTerms
    <3>5. Ranges' = Ranges \cup {<<lo, hi>>}
      BY <1>1, <1>2, <1>4, <2>1, <3>1
    <3>6. Abstract!Grant(lo, hi)
      BY <3>4, <3>5 DEF Abstract!Grant, Ranges, vma_hi
    <3> QED BY <1>3, <1>4, <2>5, <3>1, <3>2, <3>6 DEF lo, hi, A
  <2> QED BY <2>3, <2>4, <2>5
<1> QED BY <1>5, <1>6

(* A step of AddressSpace: a call or a panic. *)
LEMMA StepIsAbstract ==
    ASSUME ~panicked, scarce' = scarce, kva.zero \subseteq kva'.zero,
           Abstract!Panic \/ (Abstract!Call /\ UNCHANGED panicked)
    PROVE  Abstract!Next
BY DEF Abstract!Next

LEMMA AllocIsAbstract ==
    ASSUME EnoughStructs, IInv, IInv', NEW draws \in Chances, NEW n \in 1..(Hi - Lo),
           Alloc(n, draws)
    PROVE  Abstract!Next
<1> DEFINE A == Start(draws)
<1>1. n \in Int /\ 0 < n /\ Sound(A)
  BY StartLemma, ConstantsAssumption
<1>2. PICK o \in vma_alloc(A, n) : Finish(o, "vma_alloc", n)
  BY DEF Alloc
<1>3. /\ Outcome(A, o) /\ (o.vma \in {NULL, PANIC} \/ o.a.size[o.vma] = n) /\ ~panicked
      /\ o.vma = PANIC => scarce
  <2> HIDE DEF A
  <2> QED BY <1>1, <1>2, AllocLemma, AllocDoesNotPanic DEF Alloc, HeapSuffices
<1>4. /\ scarce' = scarce /\ kva'.zero = o.a.zero /\ kva.zero \subseteq o.a.zero
      /\ Sound(Start(draws)) /\ Start(draws).zero = kva.zero
      /\ UsedRanges(Start(draws)) = UsedRanges(kva)
      /\ \/ Abstract!Panic
         \/ /\ o.vma = NULL /\ ret' = <<"vma_alloc", n, NULL>> /\ UNCHANGED panicked
            /\ Ranges' = Ranges
         \/ /\ o.vma \notin {NULL, PANIC}
            /\ ret' = <<"vma_alloc", n, o.a.addr[o.vma]>> /\ UNCHANGED panicked
            /\ Abstract!Grant(o.a.addr[o.vma], o.a.addr[o.vma] + o.a.size[o.vma])
            /\ o.a.addr[o.vma] \in Lo..(Hi - 1)
  BY <1>2, <1>3, FinishIsAbstract
<1>5. CASE Abstract!Panic
  BY <1>3, <1>4, <1>5, StepIsAbstract
<1>6. CASE /\ o.vma = NULL /\ ret' = <<"vma_alloc", n, NULL>> /\ UNCHANGED panicked
           /\ Ranges' = Ranges
  <2>1. ASSUME kva'.zero = {}, NEW lo \in Lo..(Hi - 1) PROVE ~Vacant(kva, lo, lo + n)
    <3>1. A.zero = {} /\ UsedRanges(A) = UsedRanges(kva)
      BY <1>4, <2>1
    <3> HIDE DEF A
    <3>2. ~Vacant(A, lo, lo + n)
      BY <1>1, <1>2, <1>6, <3>1, AllocRefused, NoFitNoGap
    <3> QED BY <3>1, <3>2 DEF Vacant
  <2>2. ~Abstract!Gap(n) \/ kva'.zero # {}
    BY <2>1, MappedTerms DEF Abstract!Gap, IInv
  <2>3. Abstract!Allocate(n)
    BY <1>6, <2>2 DEF Abstract!Allocate, Ranges, vma_hi
  <2>4. Abstract!Call
    BY <2>3 DEF Abstract!Call
  <2> QED BY <1>3, <1>4, <1>6, <2>4, StepIsAbstract
<1>7. CASE /\ o.vma \notin {NULL, PANIC}
           /\ ret' = <<"vma_alloc", n, o.a.addr[o.vma]>> /\ UNCHANGED panicked
           /\ Abstract!Grant(o.a.addr[o.vma], o.a.addr[o.vma] + o.a.size[o.vma])
           /\ o.a.addr[o.vma] \in Lo..(Hi - 1)
  <2>1. Abstract!Allocate(n)
    BY <1>3, <1>7 DEF Abstract!Allocate
  <2>2. Abstract!Call
    BY <2>1 DEF Abstract!Call
  <2> QED BY <1>3, <1>4, <1>7, <2>2, StepIsAbstract
<1> QED BY <1>4, <1>5, <1>6, <1>7

LEMMA AllocAlignedIsAbstract ==
    ASSUME EnoughStructs, IInv, IInv', NEW draws \in Chances, NEW n \in 1..(Hi - Lo),
           AllocAligned(n, draws)
    PROVE  Abstract!Next
<1> DEFINE A == Start(draws)
<1>1. n \in Int /\ 0 < n /\ Sound(A)
  BY StartLemma, ConstantsAssumption
<1>2. PICK o \in vma_alloc_aligned(A, n) : Finish(o, "vma_alloc_aligned", n)
  BY DEF AllocAligned
<1>3. /\ Outcome(A, o) /\ ~panicked
      /\ o.vma \in {NULL, PANIC} \/ (o.a.addr[o.vma] % Align = 0 /\ o.a.size[o.vma] = n)
      /\ o.vma = PANIC => scarce \/ o.a.zero # {}
  <2> HIDE DEF A
  <2> QED BY <1>1, <1>2, AllocAlignedLemma, AllocAlignedDoesNotPanic
          DEF AllocAligned, HeapSuffices
<1>4. /\ scarce' = scarce /\ kva'.zero = o.a.zero /\ kva.zero \subseteq o.a.zero
      /\ Sound(Start(draws)) /\ Start(draws).zero = kva.zero
      /\ UsedRanges(Start(draws)) = UsedRanges(kva)
      /\ \/ Abstract!Panic
         \/ /\ o.vma = NULL /\ ret' = <<"vma_alloc_aligned", n, NULL>> /\ UNCHANGED panicked
            /\ Ranges' = Ranges
         \/ /\ o.vma \notin {NULL, PANIC}
            /\ ret' = <<"vma_alloc_aligned", n, o.a.addr[o.vma]>> /\ UNCHANGED panicked
            /\ Abstract!Grant(o.a.addr[o.vma], o.a.addr[o.vma] + o.a.size[o.vma])
            /\ o.a.addr[o.vma] \in Lo..(Hi - 1)
  BY <1>2, <1>3, FinishIsAbstract
<1>5. CASE Abstract!Panic
  BY <1>3, <1>4, <1>5, StepIsAbstract
<1>6. CASE /\ o.vma = NULL /\ ret' = <<"vma_alloc_aligned", n, NULL>> /\ UNCHANGED panicked
           /\ Ranges' = Ranges
  <2>1. ASSUME kva'.zero = {}, NEW lo \in Lo..(Hi - 1)
        PROVE  ~Vacant(kva, lo, lo + (n + Align))
    <3>1. o.a.zero = {} /\ UsedRanges(A) = UsedRanges(kva)
      BY <1>4, <2>1
    <3> HIDE DEF A
    <3>2. ~Vacant(A, lo, lo + (n + Align))
      BY <1>1, <1>2, <1>6, <3>1, AllocAlignedRefused
    <3> QED BY <3>1, <3>2 DEF Vacant
  <2>2. ~Abstract!Gap(n + Align) \/ kva'.zero # {}
    BY <2>1, MappedTerms DEF Abstract!Gap, IInv
  <2>3. Abstract!AllocateAligned(n)
    BY <1>6, <2>2 DEF Abstract!AllocateAligned, Ranges, vma_hi
  <2>4. Abstract!Call
    BY <2>3 DEF Abstract!Call
  <2> QED BY <1>3, <1>4, <1>6, <2>4, StepIsAbstract
<1>7. CASE /\ o.vma \notin {NULL, PANIC}
           /\ ret' = <<"vma_alloc_aligned", n, o.a.addr[o.vma]>> /\ UNCHANGED panicked
           /\ Abstract!Grant(o.a.addr[o.vma], o.a.addr[o.vma] + o.a.size[o.vma])
           /\ o.a.addr[o.vma] \in Lo..(Hi - 1)
  <2>1. Abstract!AllocateAligned(n)
    BY <1>3, <1>7 DEF Abstract!AllocateAligned
  <2>2. Abstract!Call
    BY <2>1 DEF Abstract!Call
  <2> QED BY <1>3, <1>4, <1>7, <2>2, StepIsAbstract
<1> QED BY <1>4, <1>5, <1>6, <1>7

LEMMA AllocByAddrIsAbstract ==
    ASSUME EnoughStructs, IInv, IInv', NEW draws \in Chances,
           NEW lo \in Lo..(Hi - 1), NEW hi \in (lo + 1)..(Hi + 1), AllocByAddr(lo, hi, draws)
    PROVE  Abstract!Next
<1> DEFINE A == Start(draws)
<1>1. lo \in Int /\ hi \in Int /\ lo < hi /\ Sound(A) /\ lo + (hi - lo) = hi
  BY StartLemma, ConstantsAssumption
<1>2. PICK o \in vma_alloc_by_addr(A, lo, hi) : Finish(o, "vma_alloc_by_addr", hi - lo)
  BY DEF AllocByAddr
<1>3. /\ Outcome(A, o) /\ ~panicked /\ o.vma # PANIC
      /\ o.vma = NULL \/ (o.a.addr[o.vma] = lo /\ o.a.size[o.vma] = hi - lo)
  <2> HIDE DEF A
  <2> QED BY <1>1, <1>2, AllocByAddrLemma DEF AllocByAddr
<1>4. /\ scarce' = scarce /\ kva'.zero = o.a.zero /\ kva.zero \subseteq o.a.zero
      /\ Sound(Start(draws)) /\ Start(draws).zero = kva.zero
      /\ UsedRanges(Start(draws)) = UsedRanges(kva)
      /\ \/ Abstract!Panic
         \/ /\ o.vma = NULL /\ ret' = <<"vma_alloc_by_addr", hi - lo, NULL>>
            /\ UNCHANGED panicked /\ Ranges' = Ranges
         \/ /\ o.vma \notin {NULL, PANIC}
            /\ ret' = <<"vma_alloc_by_addr", hi - lo, o.a.addr[o.vma]>> /\ UNCHANGED panicked
            /\ Abstract!Grant(o.a.addr[o.vma], o.a.addr[o.vma] + o.a.size[o.vma])
            /\ o.a.addr[o.vma] \in Lo..(Hi - 1)
  BY <1>2, <1>3, FinishIsAbstract
<1>5. CASE Abstract!Panic
  BY <1>3, <1>4, <1>5, StepIsAbstract
<1>6. CASE /\ o.vma = NULL /\ ret' = <<"vma_alloc_by_addr", hi - lo, NULL>>
           /\ UNCHANGED panicked /\ Ranges' = Ranges
  <2>1. ASSUME kva'.zero = {}, ~scarce PROVE ~Vacant(kva, lo, hi)
    <3>1. A.zero = {} /\ UsedRanges(A) = UsedRanges(kva)
      BY <1>4, <2>1
    <3> HIDE DEF A
    <3>2. ~Vacant(A, lo, hi)
      BY <1>1, <1>2, <1>6, <2>1, <3>1, AllocByAddrRefused DEF HeapSuffices
    <3> QED BY <3>1, <3>2 DEF Vacant
  <2>2. scarce \/ ~Abstract!Unused(lo, hi) \/ kva'.zero # {}
    BY <2>1, MappedTerms DEF IInv
  <2>3. Abstract!AllocateAt(lo, hi)
    BY <1>6, <2>2 DEF Abstract!AllocateAt, Ranges, vma_hi
  <2>4. Abstract!Call
    BY <2>3 DEF Abstract!Call
  <2> QED BY <1>3, <1>4, <1>6, <2>4, StepIsAbstract
<1>7. CASE /\ o.vma \notin {NULL, PANIC}
           /\ ret' = <<"vma_alloc_by_addr", hi - lo, o.a.addr[o.vma]>> /\ UNCHANGED panicked
           /\ Abstract!Grant(o.a.addr[o.vma], o.a.addr[o.vma] + o.a.size[o.vma])
           /\ o.a.addr[o.vma] \in Lo..(Hi - 1)
  <2>1. Abstract!AllocateAt(lo, hi)
    BY <1>1, <1>3, <1>7 DEF Abstract!AllocateAt
  <2>2. Abstract!Call
    BY <2>1 DEF Abstract!Call
  <2> QED BY <1>3, <1>4, <1>7, <2>2, StepIsAbstract
<1> QED BY <1>4, <1>5, <1>6, <1>7

LEMMA FreeIsAbstract ==
    ASSUME IInv, IInv', NEW draws \in Chances, NEW v \in held, Free(v, draws)
    PROVE  Abstract!Next
<1> SUFFICES ASSUME NEW r, r = RangeOf(kva, v),
                    NEW Q, Q = vma_free(Start(draws), v)
             PROVE  Abstract!Next
  OBVIOUS
<1>1. Ranges = UsedRanges(kva) /\ held = Used(kva)
  BY DEF IInv, UsedRanges, RangeOf, Ranges
<1>2. Ranges' = UsedRanges(kva')
  BY DEF IInv, UsedRanges, RangeOf, Used, Ranges
<1>3. /\ scarce' = scarce
      /\ kva'.zero = Q.zero /\ kva.zero \subseteq Q.zero
      /\ Q.failed => Q.zero # {} /\ SameLayout(kva, kva')
      /\ ~Q.failed => SameLayout(Q, kva')
  BY FreeFacts
<1>4. CASE Q.failed
  <2>1. Ranges' = Ranges
    BY <1>1, <1>2, <1>3, <1>4, LayoutRanges
  <2>2. panicked' = TRUE /\ UNCHANGED ret /\ ~panicked
    BY <1>4 DEF Free
  <2>3. Abstract!Panic
    BY <1>3, <1>4, <2>1, <2>2 DEF Abstract!Panic, Ranges, vma_hi
  <2> QED BY <1>3, <2>2, <2>3, StepIsAbstract
<1>5. CASE ~Q.failed
  <2> DEFINE A == Start(draws)
  <2>1. Sound(A) /\ v \in Used(A) /\ SameLayout(kva, A) /\ Q = vma_free(A, v)
    BY <1>1, StartLemma
  <2> HIDE DEF A
  <2>2. RangeOf(A, v) = r /\ A.addr = kva.addr /\ A.size = kva.size
        /\ UsedRanges(A) = UsedRanges(kva)
    BY <2>1, LayoutRanges DEF SameLayout, RangeOf, vma_hi
  <2>3. /\ UsedRanges(Q) = UsedRanges(kva) \ {r} /\ r \in UsedRanges(kva)
        /\ r[2] - r[1] = kva.size[v] /\ r[1] = kva.addr[v]
    BY <2>1, <2>2, FreedRanges
  <2>4. Ranges' = Ranges \ {r} /\ r \in Ranges
    BY <1>1, <1>2, <1>3, <1>5, <2>3, LayoutRanges
  <2>5. /\ ~panicked /\ UNCHANGED panicked
        /\ ret' = <<"vma_free", kva.size[v], kva.addr[v]>>
    BY <1>5 DEF Free
  <2>6. Abstract!Release(r)
    BY <2>3, <2>4, <2>5 DEF Abstract!Release, Ranges, vma_hi
  <2>7. Abstract!Call
    BY <2>4, <2>6 DEF Abstract!Call, Ranges
  <2> QED BY <1>3, <2>5, <2>7, StepIsAbstract
<1> QED BY <1>4, <1>5

(* The allocator implements AddressSpace, as long as the kernel heap,      *)
(* where it is said not to refuse, has a struct for every page.            *)
THEOREM Refinement ==
    ASSUME EnoughStructs PROVE Spec => ImplementsAddressSpace
<1>1. ASSUME Init PROVE Abstract!Init
  BY <1>1 DEF Init, Abstract!Init
<1>2. IInv /\ IInv' /\ [Next]_vars => [Abstract!Next]_(Abstract!vars)
  <2> SUFFICES ASSUME IInv, IInv', [Next]_vars
               PROVE  Abstract!Next \/ UNCHANGED Abstract!vars
    OBVIOUS
  <2>1. CASE UNCHANGED vars
    BY <2>1 DEF vars, Abstract!vars, vma_hi
  <2>2. ASSUME Halt PROVE UNCHANGED Abstract!vars
    BY <2>2 DEF Halt, vars, Abstract!vars, vma_hi
  <2>3. ASSUME NEW draws \in Chances, NEW n \in 1..(Hi - Lo),
               Alloc(n, draws) \/ AllocAligned(n, draws)
        PROVE  Abstract!Next
    BY <2>3, AllocIsAbstract, AllocAlignedIsAbstract
  <2>4. ASSUME NEW draws \in Chances, NEW lo \in Lo..(Hi - 1), NEW hi \in (lo + 1)..(Hi + 1),
               AllocByAddr(lo, hi, draws)
        PROVE  Abstract!Next
    BY <2>4, AllocByAddrIsAbstract
  <2>5. ASSUME NEW draws \in Chances, NEW v \in held, Free(v, draws) PROVE Abstract!Next
    BY <2>5, FreeIsAbstract
  <2> QED BY <2>1, <2>2, <2>3, <2>4, <2>5 DEF Next
<1> QED BY <1>1, <1>2, Invariance, PTL DEF Spec, ImplementsAddressSpace, Abstract!Spec
=============================================================================
