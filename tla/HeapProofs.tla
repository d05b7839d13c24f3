----------------------------- MODULE HeapProofs -----------------------------
(***************************************************************************)
(* The kernel heap never hands out a block twice and loses none: for every *)
(* number of segments, pages and blocks, whatever calls are under way and  *)
(* whatever the virtual memory allocator calls back, the invariants that   *)
(* MCHeap checks on small heaps hold.                                      *)
(*                                                                         *)
(* First what the operations on one page do to the heap, then those on     *)
(* segments, loops over their pages included, then page_free and free, and *)
(* at last the actions.                                                    *)
(*                                                                         *)
(* A page is in use, unused, or (within an operation) neither.  Sound      *)
(* says what the links, the blocks and the counters of a heap h have to do *)
(* with the pages I in use, U unused, X in neither state; k is what the    *)
(* segments are used for, and T the blocks that are taken.  There is a     *)
(* lemma for each operation on what it does to a sound heap.               *)
(***************************************************************************)
EXTENDS Heap, ListHeadProofs, FiniteSetTheorems, NaturalsInduction

HeapType ==
    [list : LinkType(Heads \cup Page),
     free : [Page -> SUBSET AnyBlock], local : [Page -> SUBSET AnyBlock],
     used : [Page -> Nat], class : [Page -> Class], full : [Page -> BOOLEAN],
     direct : [0..(NDirect - 1) -> Page],
     kind : [Seg -> {"none", "small", "large", "huge"}],
     usedPages : [Seg -> Nat]]

(* The pages that each list is to have. *)
Home(h, p) ==
    IF h.full[p] THEN FullHead ELSE PagesHead(h.class[p])

Homes(h, I, U) ==
    [d \in Heads |-> {p \in Page : \/ p \in U /\ d = UnusedHead
                                   \/ p \in I /\ d = Home(h, p)}]

(* The pages that a segment has, by what it is used for. *)
IsPage(k, p) == \/ k[SegOf(p)] = "small"
                \/ k[SegOf(p)] \in {"large", "huge"} /\ p[2] = 0

Members(k, I, U, X) ==
    /\ I \in SUBSET Page /\ U \in SUBSET Page /\ X \in SUBSET Page
    /\ I \cap U = {} /\ I \cap X = {} /\ U \cap X = {}
    /\ \A p \in Page : p \in I \cup U \cup X <=> IsPage(k, p)
    /\ \A p \in U : k[SegOf(p)] = "small"

TakenOf(T, p) == {b \in AnyBlock : <<p, b>> \in T}

BlocksIn(h, p) == IF h.class[p] = HUGE THEN {HugeBlock} ELSE Block

PageOK(h, T, p) ==
    /\ h.free[p] \cap h.local[p] = {}
    /\ TakenOf(T, p) \cap (h.free[p] \cup h.local[p]) = {}
    /\ TakenOf(T, p) \cup h.free[p] \cup h.local[p] = BlocksIn(h, p)
    /\ h.used[p] = Cardinality(TakenOf(T, p))

PagesIn(I, s) == {p \in I : SegOf(p) = s}

Counted(h, k, I) ==
    \A s \in Seg : k[s] # "none" => h.usedPages[s] = Cardinality(PagesIn(I, s))

Sound(h, k, T, I, U, X) ==
    /\ h \in HeapType
    /\ Lists(h.list, Heads, Page, Homes(h, I, U))
    /\ Members(k, I, U, X)
    /\ T \in SUBSET (I \X AnyBlock)
    /\ \A p \in I : PageOK(h, T, p)
    /\ Counted(h, k, I)

(* The metadata of page q are the same in g and h, except for its links.   *)
Same(g, h, q) ==
    /\ g.free[q] = h.free[q] /\ g.local[q] = h.local[q] /\ g.used[q] = h.used[q]
    /\ g.class[q] = h.class[q] /\ g.full[q] = h.full[q]

(* The pages of S that are marked full have no free block. *)
FullOK(h, S) == \A p \in S : h.full[p] => h.free[p] = {} /\ h.local[p] = {}

(* The entries of pages_direct below n. *)
DirectOK(h, I, n) == \A c \in 0..(n - 1) : h.direct[c] \in I /\ h.class[h.direct[c]] = c
-----------------------------------------------------------------------------
(* Pages and the heads of lists are different things. *)
LEMMA HeadFacts ==
    /\ UnusedHead \in Heads /\ FullHead \in Heads /\ UnusedHead # FullHead
    /\ \A c \in Class : /\ PagesHead(c) \in Heads
                        /\ PagesHead(c) # UnusedHead /\ PagesHead(c) # FullHead
    /\ \A c1, c2 \in Class : PagesHead(c1) = PagesHead(c2) => c1 = c2
    /\ Heads \cap Page = {}
<1>1. "pages" # "unused_pages" /\ "pages" # "full_pages" /\ "unused_pages" # "full_pages"
  OBVIOUS
<1>2. UnusedHead \in Heads /\ FullHead \in Heads /\ UnusedHead # FullHead
  BY <1>1 DEF Heads, UnusedHead, FullHead
<1>3. \A c \in Class : /\ PagesHead(c) \in Heads
                       /\ PagesHead(c) # UnusedHead /\ PagesHead(c) # FullHead
  BY <1>1 DEF Heads, UnusedHead, FullHead, PagesHead
<1>4. \A c1, c2 \in Class : PagesHead(c1) = PagesHead(c2) => c1 = c2
  BY DEF PagesHead
<1>5. ASSUME NEW x \in Heads PROVE x[1] \in {"pages", "unused_pages", "full_pages"}
  BY DEF Heads, UnusedHead, FullHead, PagesHead
<1>6. ASSUME NEW x \in Page PROVE x[1] \in Seg
  BY DEF Page
<1>7. Heads \cap Page = {}
  BY <1>5, <1>6, HeapConstants
<1> QED BY <1>2, <1>3, <1>4, <1>7

(* The numbers of the classes are in order. *)
LEMMA ClassFacts ==
    /\ NDirect \in Nat /\ NSmall \in Nat /\ NClasses \in Nat /\ PagesPer \in Nat
    /\ HUGE \in Class /\ HUGE \in Nat /\ 0 \in Class
    /\ 0..(NDirect - 1) \subseteq Class /\ NDirect <= HUGE /\ NDirect <= PagesPer
    /\ 0 < NDirect /\ NSmall <= HUGE
    /\ VmaClass \in Class /\ VmaClass < NDirect /\ VmaClass # HUGE
    /\ \A c \in Class : c \in Nat
BY HeapConstants DEF Class, HUGE

LEMMA BlockFacts ==
    /\ IsFiniteSet(AnyBlock) /\ Block \subseteq AnyBlock /\ HugeBlock \in AnyBlock
    /\ Cardinality(Block) \in Nat /\ Cardinality(Block) > 1
    /\ HugeBlock \notin Block /\ Block # {}
<1>1. IsFiniteSet(Block) /\ Cardinality(Block) > 1 /\ HugeBlock \notin Block
  BY HeapConstants
<1>2. IsFiniteSet(AnyBlock)
  BY <1>1, FS_AddElement DEF AnyBlock
<1>3. Cardinality(Block) \in Nat
  BY <1>1, FS_CardinalityType
<1>4. Block # {}
  BY <1>1, FS_EmptySet
<1> QED BY <1>1, <1>2, <1>3, <1>4 DEF AnyBlock

(* There are finitely many pages. *)
LEMMA PageFacts ==
    /\ IsFiniteSet(Page)
    /\ \A p \in Page : SegOf(p) \in Seg /\ p = <<SegOf(p), p[2]>> /\ p[2] \in 0..(PagesPer - 1)
    /\ \A s \in Seg, i \in 0..(PagesPer - 1) :
          <<s, i>> \in Page /\ SegOf(<<s, i>>) = s /\ <<s, i>>[2] = i
<1>1. IsFiniteSet(Seg) /\ IsFiniteSet(0..(PagesPer - 1))
  BY HeapConstants, FS_Interval, ClassFacts
<1>2. IsFiniteSet(Page)
  BY <1>1, FS_Product DEF Page
<1> QED BY <1>2 DEF Page, SegOf

LEMMA Fields ==
    ASSUME NEW h \in HeapType
    PROVE  /\ h.list \in LinkType(Heads \cup Page)
           /\ h.free \in [Page -> SUBSET AnyBlock] /\ h.local \in [Page -> SUBSET AnyBlock]
           /\ h.used \in [Page -> Nat] /\ h.class \in [Page -> Class]
           /\ h.full \in [Page -> BOOLEAN] /\ h.direct \in [0..(NDirect - 1) -> Page]
           /\ h.kind \in [Seg -> {"none", "small", "large", "huge"}]
           /\ h.usedPages \in [Seg -> Nat]
BY DEF HeapType

(* What is on the list that a page belongs to. *)
LEMMA HomeFacts ==
    ASSUME NEW h, NEW I, NEW U,
           h \in HeapType, I \in SUBSET Page, U \in SUBSET Page
    PROVE  /\ \A p \in Page : Home(h, p) \in Heads /\ Home(h, p) # UnusedHead
           /\ Homes(h, I, U) \in [Heads -> SUBSET Page]
           /\ Homes(h, I, U)[UnusedHead] = U
           /\ \A d \in Heads, p \in Page :
                 p \in Homes(h, I, U)[d] <=> \/ p \in U /\ d = UnusedHead
                                             \/ p \in I /\ d = Home(h, p)
<1>1. ASSUME NEW p \in Page
      PROVE  Home(h, p) \in Heads /\ Home(h, p) # UnusedHead
  BY HeadFacts, Fields DEF Home
<1>2. Homes(h, I, U) \in [Heads -> SUBSET Page]
  BY DEF Homes
<1>3. ASSUME NEW d \in Heads
      PROVE  Homes(h, I, U)[d] = {p \in Page : \/ p \in U /\ d = UnusedHead
                                               \/ p \in I /\ d = Home(h, p)}
  BY DEF Homes
<1>4. Homes(h, I, U)[UnusedHead] = U
  BY <1>1, <1>3, HeadFacts
<1> QED BY <1>1, <1>2, <1>3, <1>4

(* The lists of two heaps are to have the same pages if no page in use has *)
(* changed its class or its mark.                                          *)
LEMMA SameHomes ==
    ASSUME NEW g, NEW h, NEW I, NEW U,
           h \in HeapType, g \in HeapType, I \in SUBSET Page, U \in SUBSET Page,
           \A p \in I : Same(g, h, p)
    PROVE  Homes(g, I, U) = Homes(h, I, U)
<1>1. \A p \in I : Home(g, p) = Home(h, p)
  BY DEF Home, Same
<1> QED BY <1>1 DEF Homes

(* A page in use or unused is on its list, another is on none. *)
LEMMA WhichList ==
    ASSUME NEW h, NEW I, NEW U,
           h \in HeapType, I \in SUBSET Page, U \in SUBSET Page, I \cap U = {}
    PROVE  /\ \A p \in I : p \in Homes(h, I, U)[Home(h, p)]
           /\ \A p \in Page \ (I \cup U) : \A d \in Heads : p \notin Homes(h, I, U)[d]
BY HomeFacts

(* A page that is pushed is on the list of d, one that is removed on none, *)
(* and the others are where they were.                                     *)
LEMMA PushPage ==
    ASSUME NEW L, NEW P, NEW Q, NEW d, NEW p,
           Lists(L, Heads, Page, P), d \in Heads, p \in Page,
           \A c \in Heads : p \notin P[c],
           Q \in [Heads -> SUBSET Page],
           \A c \in Heads, q \in Page : q \in Q[c] <=> q \in P[c] \/ (c = d /\ q = p)
    PROVE  Lists(list_push(L, d, p), Heads, Page, Q)
<1>1. P \in [Heads -> SUBSET Page]
  BY DEF Lists
<1>2. Q[d] = P[d] \cup {p} /\ \A c \in Heads \ {d} : Q[c] = P[c]
  BY <1>1
<1>3. /\ Lists(L, Heads, Page, P) /\ d \in Heads /\ p \in Page
      /\ \A c \in Heads : p \notin P[c]
      /\ Q \in [Heads -> SUBSET Page]
  OBVIOUS
<1> QED BY ONLY <1>2, <1>3, PushLemma

LEMMA RemovePage ==
    ASSUME NEW L, NEW P, NEW Q, NEW d, NEW p,
           Lists(L, Heads, Page, P), d \in Heads, p \in P[d],
           Q \in [Heads -> SUBSET Page],
           \A c \in Heads, q \in Page : q \in Q[c] <=> q \in P[c] /\ q # p
    PROVE  Lists(list_remove(L, p), Heads, Page, Q)
<1>1. /\ P \in [Heads -> SUBSET Page]
      /\ \A c \in Heads : c # d => P[c] \cap P[d] = {}
  BY DEF Lists
<1>2. Q[d] = P[d] \ {p} /\ \A c \in Heads \ {d} : Q[c] = P[c]
  BY <1>1
<1>3. /\ Lists(L, Heads, Page, P) /\ d \in Heads /\ p \in P[d]
      /\ Q \in [Heads -> SUBSET Page]
  OBVIOUS
<1> QED BY ONLY <1>2, <1>3, RemoveFromLists

(* The blocks that are taken are finitely many; another one adds to them.  *)
LEMMA TakenFinite ==
    ASSUME NEW T, NEW p
    PROVE  IsFiniteSet(TakenOf(T, p)) /\ Cardinality(TakenOf(T, p)) \in Nat
<1>1. TakenOf(T, p) \subseteq AnyBlock
  BY DEF TakenOf
<1>2. IsFiniteSet(TakenOf(T, p))
  BY <1>1, BlockFacts, FS_Subset
<1> QED BY <1>2, FS_CardinalityType

LEMMA TakeOne ==
    ASSUME NEW T, NEW V, NEW p, NEW b \in AnyBlock, <<p, b>> \notin T, V = T \cup {<<p, b>>}
    PROVE  /\ TakenOf(V, p) = TakenOf(T, p) \cup {b} /\ b \notin TakenOf(T, p)
           /\ Cardinality(TakenOf(V, p)) = Cardinality(TakenOf(T, p)) + 1
           /\ \A q : q # p => TakenOf(V, q) = TakenOf(T, q)
<1>1. TakenOf(V, p) = TakenOf(T, p) \cup {b} /\ b \notin TakenOf(T, p)
  BY DEF TakenOf
<1>2. Cardinality(TakenOf(T, p) \cup {b}) = Cardinality(TakenOf(T, p)) + 1
  BY <1>1, TakenFinite, FS_AddElement
<1>3. \A q : q # p => TakenOf(V, q) = TakenOf(T, q)
  BY DEF TakenOf
<1> QED BY <1>1, <1>2, <1>3

Gives(T, V, p, b) == b \in AnyBlock /\ <<p, b>> \in T /\ V = T \ {<<p, b>>}

LEMMA GiveOne ==
    ASSUME NEW T, NEW V, NEW p, NEW b, Gives(T, V, p, b)
    PROVE  /\ TakenOf(V, p) = TakenOf(T, p) \ {b} /\ b \in TakenOf(T, p)
           /\ Cardinality(TakenOf(V, p)) = Cardinality(TakenOf(T, p)) - 1
           /\ \A q : q # p => TakenOf(V, q) = TakenOf(T, q)
<1> b \in AnyBlock /\ <<p, b>> \in T /\ V = T \ {<<p, b>>}
  BY DEF Gives
<1>1. TakenOf(V, p) = TakenOf(T, p) \ {b} /\ b \in TakenOf(T, p)
  BY DEF TakenOf
<1>2. Cardinality(TakenOf(T, p) \ {b}) = Cardinality(TakenOf(T, p)) - 1
  BY <1>1, TakenFinite, FS_RemoveElement
<1>3. \A q : q # p => TakenOf(V, q) = TakenOf(T, q)
  BY DEF TakenOf
<1> QED BY <1>1, <1>2, <1>3

(* Likewise for the pages of a segment that are in use. *)
LEMMA PagesInFinite ==
    ASSUME NEW I, NEW s, I \in SUBSET Page
    PROVE  /\ IsFiniteSet(PagesIn(I, s)) /\ Cardinality(PagesIn(I, s)) \in Nat
           /\ Cardinality(PagesIn(I, s)) = 0 => PagesIn(I, s) = {}
<1>1. PagesIn(I, s) \subseteq Page
  BY DEF PagesIn
<1>2. IsFiniteSet(PagesIn(I, s))
  BY <1>1, PageFacts, FS_Subset
<1> QED BY <1>2, FS_CardinalityType, FS_EmptySet

LEMMA AddToPages ==
    ASSUME NEW I, NEW J, NEW p, I \in SUBSET Page, p \in Page, p \notin I, J = I \cup {p}
    PROVE  /\ Cardinality(PagesIn(J, SegOf(p))) = Cardinality(PagesIn(I, SegOf(p))) + 1
           /\ \A s : s # SegOf(p) => PagesIn(J, s) = PagesIn(I, s)
<1>1. PagesIn(J, SegOf(p)) = PagesIn(I, SegOf(p)) \cup {p} /\ p \notin PagesIn(I, SegOf(p))
  BY DEF PagesIn
<1>2. Cardinality(PagesIn(I, SegOf(p)) \cup {p}) = Cardinality(PagesIn(I, SegOf(p))) + 1
  BY <1>1, PagesInFinite, FS_AddElement
<1>3. \A s : s # SegOf(p) => PagesIn(J, s) = PagesIn(I, s)
  BY DEF PagesIn
<1> QED BY <1>1, <1>2, <1>3

LEMMA RemoveFromPages ==
    ASSUME NEW I, NEW J, NEW p, I \in SUBSET Page, p \in I, J = I \ {p}
    PROVE  /\ Cardinality(PagesIn(J, SegOf(p))) = Cardinality(PagesIn(I, SegOf(p))) - 1
           /\ \A s : s # SegOf(p) => PagesIn(J, s) = PagesIn(I, s)
<1>1. PagesIn(J, SegOf(p)) = PagesIn(I, SegOf(p)) \ {p} /\ p \in PagesIn(I, SegOf(p))
  BY DEF PagesIn
<1>2. Cardinality(PagesIn(I, SegOf(p)) \ {p}) = Cardinality(PagesIn(I, SegOf(p))) - 1
  BY <1>1, PagesInFinite, FS_RemoveElement
<1>3. \A s : s # SegOf(p) => PagesIn(J, s) = PagesIn(I, s)
  BY DEF PagesIn
<1> QED BY <1>1, <1>2, <1>3
-----------------------------------------------------------------------------
(* The operations.                                                         *)

(* A block that is popped was not taken, and now it is. *)
LEMMA PopLemma ==
    ASSUME NEW h, NEW k, NEW T, NEW I, NEW U, NEW X, Sound(h, k, T, I, U, X),
           NEW p \in I, NEW b \in h.free[p], NEW g, g = Pop(h, p, b),
           NEW V, V = T \cup {<<p, b>>}
    PROVE  /\ <<p, b>> \notin T /\ b \in BlocksIn(h, p) /\ b \in AnyBlock
           /\ Sound(g, k, V, I, U, X)
           /\ FullOK(h, I) => FullOK(g, I)
           /\ g.direct = h.direct /\ g.class = h.class /\ g.kind = h.kind
<1>1. /\ h \in HeapType /\ p \in Page /\ I \in SUBSET Page /\ U \in SUBSET Page
      /\ \A q \in I : PageOK(h, T, q)
  BY DEF Sound, Members
<1>2. b \in AnyBlock
  BY <1>1, Fields
<1>3. PageOK(h, T, p)
  BY <1>1
<1>4. <<p, b>> \notin T /\ b \notin TakenOf(T, p) /\ b \in BlocksIn(h, p)
  BY <1>2, <1>3 DEF PageOK, TakenOf
<1>5. /\ g \in HeapType
      /\ g.list = h.list /\ g.local = h.local /\ g.class = h.class /\ g.full = h.full
      /\ g.direct = h.direct /\ g.kind = h.kind /\ g.usedPages = h.usedPages
      /\ g.free = [h.free EXCEPT ![p] = @ \ {b}] /\ g.used = [h.used EXCEPT ![p] = @ + 1]
  <2>1. /\ g.list = h.list /\ g.local = h.local /\ g.class = h.class /\ g.full = h.full
        /\ g.direct = h.direct /\ g.kind = h.kind /\ g.usedPages = h.usedPages
        /\ g.free = [h.free EXCEPT ![p] = @ \ {b}] /\ g.used = [h.used EXCEPT ![p] = @ + 1]
    BY <1>1 DEF Pop, HeapType
  <2>2. g.free \in [Page -> SUBSET AnyBlock] /\ g.used \in [Page -> Nat]
    BY <1>1, <2>1, Fields
  <2>3. g \in HeapType
    BY <1>1, <2>1, <2>2 DEF Pop, HeapType
  <2> QED BY <2>1, <2>3
<1>6. Lists(g.list, Heads, Page, Homes(g, I, U))
  <2>1. Homes(g, I, U) = Homes(h, I, U)
    BY <1>5 DEF Homes, Home
  <2> QED BY <1>5, <2>1 DEF Sound
<1>7. V \in SUBSET (I \X AnyBlock)
  BY <1>2 DEF Sound
<1>8. ASSUME NEW q \in I PROVE PageOK(g, V, q)
  <2>1. PageOK(h, T, q) /\ q \in Page
    BY <1>1
  <2>2. BlocksIn(g, q) = BlocksIn(h, q)
    BY <1>5 DEF BlocksIn
  <2>3. CASE q = p
    <3>1. g.free[p] = h.free[p] \ {b} /\ g.used[p] = h.used[p] + 1 /\ g.local[p] = h.local[p]
      BY <1>1, <1>5, Fields
    <3>2. /\ TakenOf(V, p) = TakenOf(T, p) \cup {b}
          /\ Cardinality(TakenOf(V, p)) = Cardinality(TakenOf(T, p)) + 1
      BY <1>2, <1>4, TakeOne
    <3> QED BY <1>3, <2>2, <2>3, <3>1, <3>2 DEF PageOK
  <2>4. CASE q # p
    <3>1. g.free[q] = h.free[q] /\ g.used[q] = h.used[q] /\ g.local[q] = h.local[q]
      BY <1>1, <1>5, <2>1, <2>4, Fields
    <3>2. TakenOf(V, q) = TakenOf(T, q)
      BY <1>2, <1>4, <2>4, TakeOne
    <3> QED BY <2>1, <2>2, <3>1, <3>2 DEF PageOK
  <2> QED BY <2>3, <2>4
<1>9. Counted(g, k, I)
  BY <1>5 DEF Sound, Counted
<1>10. Members(k, I, U, X)
  BY DEF Sound
<1>11. Sound(g, k, V, I, U, X)
  BY <1>5, <1>6, <1>7, <1>8, <1>9, <1>10 DEF Sound
<1>12. FullOK(h, I) => FullOK(g, I)
  <2>1. \A q \in I : g.free[q] \subseteq h.free[q]
    BY <1>1, <1>5, Fields
  <2> QED BY <1>5, <2>1 DEF FullOK
<1> QED BY <1>2, <1>4, <1>5, <1>11, <1>12

(* page_collect moves blocks from one free list to the other. *)
LEMMA CollectLemma ==
    ASSUME NEW h, NEW k, NEW T, NEW I, NEW U, NEW X, Sound(h, k, T, I, U, X),
           NEW p \in I, NEW g, g = page_collect(h, p)
    PROVE  /\ Sound(g, k, T, I, U, X)
           /\ FullOK(h, I) => FullOK(g, I)
           /\ g.direct = h.direct /\ g.class = h.class /\ g.kind = h.kind
           /\ g.used = h.used /\ g.full = h.full /\ g.list = h.list
           /\ g.free[p] = {} => g.local[p] = {}
<1>1. /\ h \in HeapType /\ p \in Page /\ I \in SUBSET Page /\ U \in SUBSET Page
      /\ \A q \in I : PageOK(h, T, q)
  BY DEF Sound, Members
<1>2. CASE h.free[p] # {}
  BY <1>2 DEF page_collect
<1>3. CASE h.free[p] = {}
  <2>1. /\ g \in HeapType
        /\ g.list = h.list /\ g.used = h.used /\ g.class = h.class /\ g.full = h.full
        /\ g.direct = h.direct /\ g.kind = h.kind /\ g.usedPages = h.usedPages
        /\ g.free = [h.free EXCEPT ![p] = h.local[p]]
        /\ g.local = [h.local EXCEPT ![p] = {}]
    BY <1>1, <1>3 DEF page_collect, HeapType
  <2>2. Lists(g.list, Heads, Page, Homes(g, I, U))
    <3>1. Homes(g, I, U) = Homes(h, I, U)
      BY <2>1 DEF Homes, Home
    <3> QED BY <2>1, <3>1 DEF Sound
  <2>3. ASSUME NEW q \in I
        PROVE  /\ PageOK(g, T, q)
               /\ q # p => g.free[q] = h.free[q] /\ g.local[q] = h.local[q]
               /\ q = p => g.free[q] = h.local[p] /\ g.local[q] = {}
    <3>1. PageOK(h, T, q) /\ q \in Page
      BY <1>1
    <3>2. BlocksIn(g, q) = BlocksIn(h, q)
      BY <2>1 DEF BlocksIn
    <3>3. g.used[q] = h.used[q]
      BY <2>1
    <3>4. CASE q = p
      <4>1. g.free[p] = h.local[p] /\ g.local[p] = {}
        BY <1>1, <2>1, Fields
      <4> QED BY <1>3, <3>1, <3>2, <3>3, <3>4, <4>1 DEF PageOK
    <3>5. CASE q # p
      <4>1. g.free[q] = h.free[q] /\ g.local[q] = h.local[q]
        BY <1>1, <2>1, <3>1, <3>5, Fields
      <4> QED BY <3>1, <3>2, <3>3, <3>5, <4>1 DEF PageOK
    <3> QED BY <3>4, <3>5
  <2>4. Counted(g, k, I)
    BY <2>1 DEF Sound, Counted
  <2>5. Sound(g, k, T, I, U, X)
    BY <2>1, <2>2, <2>3, <2>4 DEF Sound
  <2>6. FullOK(h, I) => FullOK(g, I)
    BY <2>1, <2>3 DEF FullOK
  <2> QED BY <2>1, <2>3, <2>5, <2>6
<1> QED BY <1>2, <1>3

(* Pages that are left alone stay as they should be. *)
LEMMA SamePages ==
    ASSUME NEW g, NEW h, NEW T, NEW I, \A q \in I : Same(g, h, q)
    PROVE  /\ (\A q \in I : PageOK(h, T, q)) => \A q \in I : PageOK(g, T, q)
           /\ FullOK(h, I) => FullOK(g, I)
           /\ \A n : g.direct = h.direct /\ DirectOK(h, I, n) => DirectOK(g, I, n)
<1>1. ASSUME NEW q \in I, PageOK(h, T, q) PROVE PageOK(g, T, q)
  BY <1>1 DEF Same, PageOK, BlocksIn
<1>2. FullOK(h, I) => FullOK(g, I)
  BY DEF Same, FullOK
<1>3. \A n : g.direct = h.direct /\ DirectOK(h, I, n) => DirectOK(g, I, n)
  BY DEF Same, DirectOK
<1> QED BY <1>1, <1>2, <1>3

(* bzero of the metadata of a page that is on no list. *)
LEMMA ZeroLemma ==
    ASSUME NEW h, NEW k, NEW T, NEW I, NEW U, NEW X, Sound(h, k, T, I, U, X),
           NEW p \in Page, p \notin I \cup U, NEW g, g = Zero(h, p)
    PROVE  /\ Sound(g, k, T, I, U, X)
           /\ g.list = h.list /\ g.direct = h.direct /\ g.kind = h.kind
           /\ g.usedPages = h.usedPages
           /\ \A q \in I : Same(g, h, q)
<1>1. /\ h \in HeapType /\ I \in SUBSET Page /\ U \in SUBSET Page /\ I \cap U = {}
      /\ Lists(h.list, Heads, Page, Homes(h, I, U))
      /\ \A q \in I : PageOK(h, T, q)
  BY DEF Sound, Members
<1>2. \A d \in Heads : p \notin Homes(h, I, U)[d]
  BY <1>1, WhichList
<1>3. LIST_INIT(h.list, p) = h.list
  BY <1>1, <1>2, ListInitLemma
<1>4. /\ g.list = h.list /\ g.direct = h.direct /\ g.kind = h.kind
      /\ g.usedPages = h.usedPages
      /\ g.free = [h.free EXCEPT ![p] = {}] /\ g.local = [h.local EXCEPT ![p] = {}]
      /\ g.used = [h.used EXCEPT ![p] = 0] /\ g.class = [h.class EXCEPT ![p] = 0]
      /\ g.full = [h.full EXCEPT ![p] = FALSE]
  BY <1>1, <1>3 DEF Zero, HeapType
<1>5. /\ g.free \in [Page -> SUBSET AnyBlock] /\ g.local \in [Page -> SUBSET AnyBlock]
      /\ g.used \in [Page -> Nat] /\ g.class \in [Page -> Class] /\ g.full \in [Page -> BOOLEAN]
  BY <1>1, <1>4, Fields, ClassFacts
<1>6. g \in HeapType
  BY <1>1, <1>4, <1>5 DEF Zero, HeapType
<1>7. \A q \in I : Same(g, h, q)
  BY <1>1, <1>4, Fields DEF Same
<1>8. Lists(g.list, Heads, Page, Homes(g, I, U))
  <2>1. Homes(g, I, U) = Homes(h, I, U)
    BY <1>1, <1>6, <1>7, SameHomes
  <2> QED BY <1>1, <1>4, <2>1
<1>9. \A q \in I : PageOK(g, T, q)
  BY <1>1, <1>7, SamePages
<1>10. Counted(g, k, I)
  BY <1>4 DEF Sound, Counted
<1>11. Sound(g, k, T, I, U, X)
  BY <1>6, <1>8, <1>9, <1>10 DEF Sound
<1> QED BY <1>4, <1>7, <1>11

(* heap_push_unused_page makes a page unused. *)
LEMMA PushUnusedLemma ==
    ASSUME NEW h, NEW k, NEW T, NEW I, NEW U, NEW X, Sound(h, k, T, I, U, X),
           NEW p \in X, k[SegOf(p)] = "small",
           NEW g, g = heap_push_unused_page(h, p),
           NEW W, W = U \cup {p}, NEW Y, Y = X \ {p}
    PROVE  /\ Sound(g, k, T, I, W, Y)
           /\ g.direct = h.direct /\ g.kind = h.kind /\ g.usedPages = h.usedPages
           /\ \A q \in I : Same(g, h, q)
<1>1. /\ Members(k, I, U, X) /\ I \in SUBSET Page /\ U \in SUBSET Page /\ I \cap U = {}
      /\ p \in Page /\ p \notin I \cup U /\ W \in SUBSET Page
  BY DEF Sound, Members
<1>2. PICK z : z = Zero(h, p)
  OBVIOUS
<1>3. /\ Sound(z, k, T, I, U, X)
      /\ z.list = h.list /\ z.direct = h.direct /\ z.kind = h.kind
      /\ z.usedPages = h.usedPages
      /\ \A q \in I : Same(z, h, q)
  BY <1>1, <1>2, ZeroLemma
<1>4. z \in HeapType /\ Lists(z.list, Heads, Page, Homes(z, I, U))
      /\ \A q \in I : PageOK(z, T, q)
  BY <1>3 DEF Sound
<1>5. g = [z EXCEPT !.list = list_push(z.list, UnusedHead, p)]
  BY <1>2 DEF heap_push_unused_page
<1>6. /\ g.list = list_push(z.list, UnusedHead, p)
      /\ g.free = z.free /\ g.local = z.local /\ g.used = z.used /\ g.class = z.class
      /\ g.full = z.full /\ g.direct = z.direct /\ g.kind = z.kind
      /\ g.usedPages = z.usedPages
  BY <1>4, <1>5 DEF HeapType
<1>7. Homes(z, I, W) = Homes(g, I, W)
  BY <1>6 DEF Homes, Home
<1>8. Lists(g.list, Heads, Page, Homes(g, I, W))
  <2>1. \A d \in Heads : p \notin Homes(z, I, U)[d]
    BY <1>1, <1>4, WhichList
  <2>4. ASSUME NEW P, NEW Q, P = Homes(z, I, U), Q = Homes(z, I, W)
        PROVE  Lists(list_push(z.list, UnusedHead, p), Heads, Page, Q)
    <3>1. Lists(z.list, Heads, Page, P) /\ UnusedHead \in Heads /\ p \in Page
      BY <1>1, <1>4, <2>4, HeadFacts
    <3>2. /\ \A d \in Heads : p \notin P[d]
          /\ Q \in [Heads -> SUBSET Page]
          /\ \A c \in Heads, q \in Page : q \in Q[c] <=> q \in P[c] \/ (c = UnusedHead /\ q = p)
      BY <1>1, <1>4, <2>1, <2>4, HomeFacts
    <3> QED BY ONLY <3>1, <3>2, PushPage
  <2> QED BY <1>6, <1>7, <2>4
<1>9. g \in HeapType
  <2>1. g.list \in LinkType(Heads \cup Page)
    BY <1>8 DEF Lists
  <2> QED BY <1>4, <1>5, <1>6, <2>1 DEF HeapType
<1>10. Members(k, I, W, Y)
  BY <1>1 DEF Members
<1>11. \A q \in I : Same(g, z, q) /\ Same(g, h, q)
  BY <1>3, <1>6 DEF Same
<1>12. \A q \in I : PageOK(g, T, q)
  BY <1>4, <1>11, SamePages
<1>13. Counted(g, k, I) /\ T \in SUBSET (I \X AnyBlock)
  BY <1>3, <1>6 DEF Sound, Counted
<1>14. Sound(g, k, T, I, W, Y)
  BY <1>8, <1>9, <1>10, <1>12, <1>13 DEF Sound
<1> QED BY <1>3, <1>6, <1>11, <1>14

(* Page p leaves the set X, and what remains is Y; it joins I to make J.   *)
Moves(p, X, Y, I, J) == p \in X /\ Y = X \ {p} /\ J = I \cup {p}

(* A page without a taken block is taken out of use. *)
Retires(h, g, p) ==
    /\ h.used[p] = 0
    /\ g = [h EXCEPT !.list = list_remove(@, p), !.usedPages[SegOf(p)] = @ - 1]

LEMMA RetireLemma ==
    ASSUME NEW h, NEW k, NEW T, NEW I, NEW U, NEW X, NEW p, NEW g, NEW J, NEW Y,
           Sound(h, k, T, I, U, X), Retires(h, g, p), Moves(p, I, J, X, Y)
    PROVE  /\ Sound(g, k, T, J, U, Y)
           /\ g.direct = h.direct /\ g.kind = h.kind /\ g.list = list_remove(h.list, p)
           /\ g.usedPages[SegOf(p)] = h.usedPages[SegOf(p)] - 1
           /\ \A q \in Page : Same(g, h, q)
<1> /\ p \in I /\ J = I \ {p} /\ Y = X \cup {p} /\ h.used[p] = 0
    /\ g = [h EXCEPT !.list = list_remove(@, p), !.usedPages[SegOf(p)] = @ - 1]
  BY DEF Moves, Retires
<1>1. /\ h \in HeapType /\ Members(k, I, U, X) /\ I \in SUBSET Page /\ U \in SUBSET Page
      /\ I \cap U = {} /\ p \in Page /\ p \notin U /\ p \notin J /\ J \in SUBSET Page
      /\ Lists(h.list, Heads, Page, Homes(h, I, U))
      /\ \A q \in I : PageOK(h, T, q)
  BY DEF Sound, Members
<1>2. SegOf(p) \in Seg /\ k[SegOf(p)] # "none"
  BY <1>1, PageFacts DEF Members, IsPage
<1>3. /\ h.usedPages[SegOf(p)] = Cardinality(PagesIn(I, SegOf(p)))
      /\ Cardinality(PagesIn(J, SegOf(p))) \in Nat
      /\ Cardinality(PagesIn(J, SegOf(p))) = Cardinality(PagesIn(I, SegOf(p))) - 1
      /\ \A s : s # SegOf(p) => PagesIn(J, s) = PagesIn(I, s)
  <2>1. h.usedPages[SegOf(p)] = Cardinality(PagesIn(I, SegOf(p)))
    BY <1>2 DEF Sound, Counted
  <2>2. Cardinality(PagesIn(J, SegOf(p))) \in Nat
    BY <1>1, PagesInFinite
  <2>3. /\ Cardinality(PagesIn(J, SegOf(p))) = Cardinality(PagesIn(I, SegOf(p))) - 1
        /\ \A s : s # SegOf(p) => PagesIn(J, s) = PagesIn(I, s)
    <3>1. I \in SUBSET Page /\ p \in I /\ J = I \ {p}
      BY <1>1
    <3> QED BY ONLY <3>1, RemoveFromPages
  <2> QED BY <2>1, <2>2, <2>3
<1>4. /\ g.list = list_remove(h.list, p)
      /\ g.free = h.free /\ g.local = h.local /\ g.used = h.used /\ g.class = h.class
      /\ g.full = h.full /\ g.direct = h.direct /\ g.kind = h.kind
      /\ g.usedPages = [h.usedPages EXCEPT ![SegOf(p)] = @ - 1]
  BY <1>1 DEF HeapType
<1>5. \A q \in Page : Same(g, h, q)
  BY <1>4 DEF Same
<1>6. Lists(g.list, Heads, Page, Homes(g, J, U))
  <2>1. Homes(g, J, U) = Homes(h, J, U)
    BY <1>4 DEF Homes, Home
  <2>2. ASSUME NEW P, NEW Q, P = Homes(h, I, U), Q = Homes(h, J, U)
        PROVE  Lists(list_remove(h.list, p), Heads, Page, Q)
    <3>1. Lists(h.list, Heads, Page, P) /\ Home(h, p) \in Heads /\ p \in P[Home(h, p)]
      BY <1>1, <2>2, HomeFacts, WhichList
    <3>2. /\ Q \in [Heads -> SUBSET Page]
          /\ \A c \in Heads, q \in Page : q \in Q[c] <=> q \in P[c] /\ q # p
      BY <1>1, <2>2, HomeFacts
    <3> QED BY ONLY <3>1, <3>2, RemovePage
  <2> QED BY <1>4, <2>1, <2>2
<1>7. g.usedPages \in [Seg -> Nat]
  BY <1>1, <1>2, <1>3, <1>4, Fields
<1>8. g \in HeapType
  <2>1. g.list \in LinkType(Heads \cup Page)
    BY <1>6 DEF Lists
  <2> QED BY <1>1, <1>4, <1>7, <2>1 DEF HeapType
<1>9. Members(k, J, U, Y)
  BY <1>1 DEF Members
<1>10. T \in SUBSET (J \X AnyBlock)
  <2>1. TakenOf(T, p) = {}
    <3>1. IsFiniteSet(TakenOf(T, p)) /\ Cardinality(TakenOf(T, p)) = 0
      BY <1>1, TakenFinite DEF PageOK
    <3> QED BY <3>1, FS_EmptySet
  <2>2. T \in SUBSET (I \X AnyBlock)
    BY DEF Sound
  <2>3. ASSUME NEW x \in T PROVE x[1] # p /\ x \in I \X AnyBlock
    BY <2>1, <2>2 DEF TakenOf
  <2> QED BY <2>3
<1>11. \A q \in J : PageOK(g, T, q)
  <2>1. \A q \in J : Same(g, h, q) /\ PageOK(h, T, q)
    BY <1>1, <1>5
  <2> QED BY <2>1, SamePages
<1>12. Counted(g, k, J)
  <2>1. ASSUME NEW s \in Seg, k[s] # "none"
        PROVE  g.usedPages[s] = Cardinality(PagesIn(J, s))
    <3>1. h.usedPages[s] = Cardinality(PagesIn(I, s))
      BY <2>1 DEF Sound, Counted
    <3>2. CASE s = SegOf(p)
      <4>1. g.usedPages[s] = h.usedPages[s] - 1
        BY <1>1, <1>2, <1>4, <3>2, Fields
      <4> QED BY <1>3, <3>1, <3>2, <4>1
    <3>3. CASE s # SegOf(p)
      <4>1. g.usedPages[s] = h.usedPages[s]
        BY <1>1, <1>2, <1>4, <3>3, Fields
      <4>2. PagesIn(J, s) = PagesIn(I, s)
        BY <1>3, <3>3
      <4> QED BY <3>1, <4>1, <4>2
    <3> QED BY <3>2, <3>3
  <2> QED BY <2>1 DEF Counted
<1>13. Sound(g, k, T, J, U, Y)
  BY <1>6, <1>8, <1>9, <1>10, <1>11, <1>12 DEF Sound
<1>14. g.usedPages[SegOf(p)] = h.usedPages[SegOf(p)] - 1
  BY <1>1, <1>2, <1>4, Fields
<1> QED BY <1>4, <1>5, <1>13, <1>14

(* list_shift takes a page from unused_pages, if there is one. *)
LEMMA TakeUnusedLemma ==
    ASSUME NEW h, NEW k, NEW T, NEW I, NEW U, NEW X, Sound(h, k, T, I, U, X),
           ~list_is_empty(h.list, UnusedHead),
           NEW p, p = h.list.next[UnusedHead],
           NEW g, g = [h EXCEPT !.list = list_shift(@, UnusedHead)],
           NEW W, W = U \ {p}, NEW Y, Y = X \cup {p}
    PROVE  /\ p \in U
           /\ Sound(g, k, T, I, W, Y)
           /\ g.list = list_remove(h.list, p)
           /\ g.direct = h.direct /\ g.kind = h.kind /\ g.usedPages = h.usedPages
           /\ \A q \in Page : Same(g, h, q)
<1>1. /\ h \in HeapType /\ Members(k, I, U, X) /\ I \in SUBSET Page /\ U \in SUBSET Page
      /\ I \cap U = {} /\ W \in SUBSET Page
      /\ Lists(h.list, Heads, Page, Homes(h, I, U))
      /\ \A q \in I : PageOK(h, T, q)
  BY DEF Sound, Members
<1>2. p \in U
  <2>1. ASSUME NEW P, P = Homes(h, I, U) PROVE p \in P[UnusedHead]
    <3>1. Lists(h.list, Heads, Page, P) /\ UnusedHead \in Heads
      BY <1>1, <2>1, HeadFacts
    <3> QED BY <3>1, EmptyLemma
  <2>2. Homes(h, I, U)[UnusedHead] = U
    BY <1>1, HomeFacts
  <2> QED BY <2>1, <2>2
<1>3. g = [h EXCEPT !.list = list_remove(h.list, p)]
  BY DEF list_shift
<1>4. /\ g.list = list_remove(h.list, p)
      /\ g.free = h.free /\ g.local = h.local /\ g.used = h.used /\ g.class = h.class
      /\ g.full = h.full /\ g.direct = h.direct /\ g.kind = h.kind
      /\ g.usedPages = h.usedPages
  BY <1>1, <1>3 DEF HeapType
<1>5. \A q \in Page : Same(g, h, q)
  BY <1>4 DEF Same
<1>6. Lists(g.list, Heads, Page, Homes(g, I, W))
  <2>1. Homes(g, I, W) = Homes(h, I, W)
    BY <1>4 DEF Homes, Home
  <2>2. ASSUME NEW P, NEW Q, P = Homes(h, I, U), Q = Homes(h, I, W)
        PROVE  Lists(list_remove(h.list, p), Heads, Page, Q)
    <3>1. Lists(h.list, Heads, Page, P) /\ UnusedHead \in Heads /\ p \in P[UnusedHead]
      BY <1>1, <1>2, <2>2, HomeFacts, HeadFacts
    <3>2. /\ Q \in [Heads -> SUBSET Page]
          /\ \A c \in Heads, q \in Page : q \in Q[c] <=> q \in P[c] /\ q # p
      BY <1>1, <1>2, <2>2, HomeFacts
    <3> QED BY ONLY <3>1, <3>2, RemovePage
  <2> QED BY <1>4, <2>1, <2>2
<1>7. g \in HeapType
  <2>1. g.list \in LinkType(Heads \cup Page)
    BY <1>6 DEF Lists
  <2> QED BY <1>1, <1>3, <1>4, <2>1 DEF HeapType
<1>8. Members(k, I, W, Y)
  BY <1>1, <1>2 DEF Members
<1>9. \A q \in I : PageOK(g, T, q)
  <2>1. \A q \in I : Same(g, h, q) /\ PageOK(h, T, q)
    BY <1>1, <1>5
  <2> QED BY <2>1, SamePages
<1>10. Counted(g, k, I) /\ T \in SUBSET (I \X AnyBlock)
  BY <1>4 DEF Sound, Counted
<1>11. Sound(g, k, T, I, W, Y)
  BY <1>6, <1>7, <1>8, <1>9, <1>10 DEF Sound
<1> QED BY <1>2, <1>4, <1>5, <1>11

(* A page that is neither in use nor unused becomes a page of class c,     *)
(* with all its blocks free, and is counted.                               *)
NewPage(h, g, p, c) ==
    /\ g = [list |-> g.list, free |-> g.free, local |-> g.local, used |-> g.used,
            class |-> g.class, full |-> g.full, direct |-> g.direct, kind |-> g.kind,
            usedPages |-> g.usedPages]
    /\ g.list = list_push(h.list, PagesHead(c), p)
    /\ g.free = [h.free EXCEPT ![p] = IF c = HUGE THEN {HugeBlock} ELSE Block]
    /\ g.local = [h.local EXCEPT ![p] = {}] /\ g.used = [h.used EXCEPT ![p] = 0]
    /\ g.class = [h.class EXCEPT ![p] = c] /\ g.full = [h.full EXCEPT ![p] = FALSE]
    /\ g.usedPages = [h.usedPages EXCEPT ![SegOf(p)] = @ + 1]
    /\ g.direct \in [0..(NDirect - 1) -> Page]
    /\ g.kind \in [Seg -> {"none", "small", "large", "huge"}]

(* What a new page of class c is like. *)
Fresh(g, p, c) == /\ g.free[p] # {} /\ g.local[p] = {} /\ g.class[p] = c /\ g.full[p] = FALSE
                  /\ BlocksIn(g, p) = IF c = HUGE THEN {HugeBlock} ELSE Block

LEMMA NewPageLemma ==
    ASSUME NEW h, NEW k, NEW T, NEW I, NEW U, NEW X, NEW p, NEW c, NEW g, NEW J, NEW Y,
           Sound(h, k, T, I, U, X), c \in Class, NewPage(h, g, p, c), Moves(p, X, Y, I, J)
    PROVE  /\ Sound(g, k, T, J, U, Y)
           /\ Fresh(g, p, c)
           /\ \A q \in I : Same(g, h, q)
           /\ FullOK(h, I) => FullOK(g, J)
<1> p \in X /\ Y = X \ {p} /\ J = I \cup {p}
  BY DEF Moves
<1>1. /\ h \in HeapType /\ Members(k, I, U, X) /\ I \in SUBSET Page /\ U \in SUBSET Page
      /\ I \cap U = {} /\ p \in Page /\ p \notin U /\ p \notin I /\ J \in SUBSET Page
      /\ Lists(h.list, Heads, Page, Homes(h, I, U))
      /\ \A q \in I : PageOK(h, T, q)
      /\ T \in SUBSET (I \X AnyBlock)
  BY DEF Sound, Members
<1>2. SegOf(p) \in Seg
  BY <1>1, PageFacts
<1>3. /\ g.free[p] = IF c = HUGE THEN {HugeBlock} ELSE Block
      /\ g.local[p] = {} /\ g.used[p] = 0 /\ g.class[p] = c /\ g.full[p] = FALSE
  BY <1>1, Fields DEF NewPage
<1>4. \A q \in I : Same(g, h, q)
  BY <1>1, Fields DEF NewPage, Same
<1>5. /\ g.free \in [Page -> SUBSET AnyBlock] /\ g.local \in [Page -> SUBSET AnyBlock]
      /\ g.used \in [Page -> Nat] /\ g.class \in [Page -> Class] /\ g.full \in [Page -> BOOLEAN]
  BY <1>1, Fields, BlockFacts DEF NewPage
<1>6. g.usedPages \in [Seg -> Nat]
  BY <1>1, <1>2, Fields DEF NewPage
<1>7. Lists(g.list, Heads, Page, Homes(g, J, U))
  <2>1. ASSUME NEW P, NEW Q, P = Homes(h, I, U), Q = Homes(g, J, U)
        PROVE  Lists(list_push(h.list, PagesHead(c), p), Heads, Page, Q)
    <3>1. Lists(h.list, Heads, Page, P) /\ PagesHead(c) \in Heads /\ p \in Page
      BY <1>1, <2>1, HeadFacts
    <3>2. \A d \in Heads : p \notin P[d]
      BY <1>1, <2>1, WhichList
    <3>3. Home(g, p) = PagesHead(c) /\ \A q \in I : Home(g, q) = Home(h, q)
      BY <1>3, <1>4 DEF Home, Same
    <3>4. /\ Q \in [Heads -> SUBSET Page]
          /\ \A d \in Heads, q \in Page :
                q \in Q[d] <=> \/ q \in U /\ d = UnusedHead
                               \/ q \in J /\ d = Home(g, q)
      BY <2>1 DEF Homes
    <3>5. \A d \in Heads, q \in Page :
                q \in P[d] <=> \/ q \in U /\ d = UnusedHead
                               \/ q \in I /\ d = Home(h, q)
      BY <2>1 DEF Homes
    <3>6. \A d \in Heads, q \in Page : q \in Q[d] <=> q \in P[d] \/ (d = PagesHead(c) /\ q = p)
      BY <1>1, <3>3, <3>4, <3>5
    <3> QED BY ONLY <3>1, <3>2, <3>4, <3>6, PushPage
  <2> QED BY <2>1 DEF NewPage
<1>8. g \in HeapType
  <2>1. g.list \in LinkType(Heads \cup Page)
    BY <1>7 DEF Lists
  <2> QED BY <1>5, <1>6, <2>1 DEF HeapType, NewPage
<1>9. Members(k, J, U, Y)
  BY <1>1 DEF Members
<1>10. T \in SUBSET (J \X AnyBlock)
  BY <1>1
<1>11. \A q \in J : PageOK(g, T, q)
  <2>1. \A q \in I : PageOK(g, T, q)
    BY <1>1, <1>4, SamePages
  <2>2. TakenOf(T, p) = {}
    BY <1>1 DEF TakenOf
  <2>3. Cardinality(TakenOf(T, p)) = 0
    BY <2>2, FS_EmptySet
  <2>4. PageOK(g, T, p)
    BY <1>3, <2>2, <2>3 DEF PageOK, BlocksIn
  <2> QED BY <2>1, <2>4
<1>12. Counted(g, k, J)
  <2>1. /\ Cardinality(PagesIn(J, SegOf(p))) = Cardinality(PagesIn(I, SegOf(p))) + 1
        /\ \A s : s # SegOf(p) => PagesIn(J, s) = PagesIn(I, s)
    <3>1. I \in SUBSET Page /\ p \in Page /\ p \notin I /\ J = I \cup {p}
      BY <1>1
    <3> QED BY ONLY <3>1, AddToPages
  <2>2. ASSUME NEW s \in Seg, k[s] # "none"
        PROVE  g.usedPages[s] = Cardinality(PagesIn(J, s))
    <3>1. h.usedPages[s] = Cardinality(PagesIn(I, s))
      BY <2>2 DEF Sound, Counted
    <3>2. CASE s = SegOf(p)
      <4>1. g.usedPages[s] = h.usedPages[s] + 1
        BY <1>1, <1>2, <3>2, Fields DEF NewPage
      <4> QED BY <2>1, <3>1, <3>2, <4>1
    <3>3. CASE s # SegOf(p)
      <4>1. g.usedPages[s] = h.usedPages[s]
        BY <1>1, <1>2, <3>3, Fields DEF NewPage
      <4>2. PagesIn(J, s) = PagesIn(I, s)
        BY <2>1, <3>3
      <4> QED BY <3>1, <4>1, <4>2
    <3> QED BY <3>2, <3>3
  <2> QED BY <2>2 DEF Counted
<1>13. Sound(g, k, T, J, U, Y)
  BY <1>7, <1>8, <1>9, <1>10, <1>11, <1>12 DEF Sound
<1>14. FullOK(h, I) => FullOK(g, J)
  BY <1>3, <1>4 DEF FullOK, Same
<1>15. Fresh(g, p, c)
  BY <1>3, BlockFacts DEF BlocksIn, Fresh
<1> QED BY <1>3, <1>4, <1>13, <1>14, <1>15

(* The first page on the list of a class is a page of that class, if there *)
(* is one.                                                                 *)
LEMMA FirstOfClass ==
    ASSUME NEW h, NEW k, NEW T, NEW I, NEW U, NEW X, Sound(h, k, T, I, U, X),
           NEW c \in Class, \E q \in I : h.class[q] = c /\ ~h.full[q]
    PROVE  h.list.next[PagesHead(c)] \in I /\ h.class[h.list.next[PagesHead(c)]] = c
<1>1. /\ h \in HeapType /\ I \in SUBSET Page /\ U \in SUBSET Page
      /\ Lists(h.list, Heads, Page, Homes(h, I, U))
  BY DEF Sound, Members
<1>2. PICK q \in I : h.class[q] = c /\ ~h.full[q]
  OBVIOUS
<1>3. Home(h, q) = PagesHead(c) /\ PagesHead(c) \in Heads /\ PagesHead(c) # UnusedHead
  BY <1>2, HeadFacts DEF Home
<1>4. ASSUME NEW P, P = Homes(h, I, U) PROVE h.list.next[PagesHead(c)] \in P[PagesHead(c)]
  <2>1. Lists(h.list, Heads, Page, P)
    BY <1>1, <1>4
  <2>2. q \in P[PagesHead(c)]
    BY <1>1, <1>3, <1>4, HomeFacts
  <2> QED BY <1>3, <2>1, <2>2, EmptyLemma
<1>5. PICK r : r = h.list.next[PagesHead(c)]
  OBVIOUS
<1>6. r \in I /\ Home(h, r) = PagesHead(c)
  <2>1. r \in Homes(h, I, U)[PagesHead(c)]
    BY <1>4, <1>5
  <2>2. Homes(h, I, U)[PagesHead(c)] \in SUBSET Page
    BY <1>1, <1>3, HomeFacts
  <2>3. r \in Page
    BY <2>1, <2>2
  <2> QED BY <1>1, <1>3, <2>1, <2>3, HomeFacts
<1>7. h.class[r] = c
  <2>1. r \in Page /\ h.class[r] \in Class
    BY <1>1, <1>6, Fields
  <2>2. ~h.full[r]
    BY <1>6, HeadFacts DEF Home
  <2>3. PagesHead(h.class[r]) = PagesHead(c)
    BY <1>6, <2>2 DEF Home
  <2> QED BY <2>1, <2>3, HeadFacts
<1> QED BY <1>5, <1>6, <1>7

(* heap_update_pages_direct gives the class an entry that is a page of the *)
(* class, if it has one, and leaves the rest alone.                        *)
LEMMA DirectLemma ==
    ASSUME NEW h, NEW k, NEW T, NEW I, NEW U, NEW X, Sound(h, k, T, I, U, X),
           NEW c \in Class, c < NDirect => \E q \in I : h.class[q] = c /\ ~h.full[q],
           NEW g, g = heap_update_pages_direct(h, c)
    PROVE  /\ Sound(g, k, T, I, U, X)
           /\ g.list = h.list /\ g.kind = h.kind /\ g.usedPages = h.usedPages
           /\ \A q \in Page : Same(g, h, q)
           /\ \A e \in 0..(NDirect - 1) :
                 IF e = c THEN g.direct[e] \in I /\ h.class[g.direct[e]] = c
                          ELSE g.direct[e] = h.direct[e]
           /\ g = [h EXCEPT !.direct = g.direct]
<1>1. /\ h \in HeapType /\ I \in SUBSET Page /\ U \in SUBSET Page
      /\ Lists(h.list, Heads, Page, Homes(h, I, U))
      /\ \A q \in I : PageOK(h, T, q)
  BY DEF Sound, Members
<1>2. CASE ~(c < NDirect)
  <2>1. g = h
    BY <1>2 DEF heap_update_pages_direct
  <2>2. \A e \in 0..(NDirect - 1) : e # c
    BY <1>2, ClassFacts
  <2>3. h = [h EXCEPT !.direct = h.direct]
    BY <1>1 DEF HeapType
  <2> QED BY <2>1, <2>2, <2>3 DEF Same
<1>3. CASE c < NDirect
  <2>1. PICK r : r = h.list.next[PagesHead(c)]
    OBVIOUS
  <2>2. r \in I /\ h.class[r] = c /\ r \in Page
    BY <1>1, <1>3, <2>1, FirstOfClass
  <2>3. c \in 0..(NDirect - 1)
    BY <1>3, ClassFacts
  <2>4. g = [h EXCEPT !.direct[c] = r]
    BY <1>3, <2>1 DEF heap_update_pages_direct
  <2>5. /\ g.list = h.list
        /\ g.free = h.free /\ g.local = h.local /\ g.used = h.used /\ g.class = h.class
        /\ g.full = h.full /\ g.direct = [h.direct EXCEPT ![c] = r] /\ g.kind = h.kind
        /\ g.usedPages = h.usedPages
        /\ g = [h EXCEPT !.direct = g.direct]
    BY <1>1, <2>4 DEF HeapType
  <2>6. g.direct \in [0..(NDirect - 1) -> Page]
    BY <1>1, <2>2, <2>3, <2>5, Fields
  <2>7. g \in HeapType
    BY <1>1, <2>5, <2>6 DEF HeapType
  <2>8. \A q \in Page : Same(g, h, q)
    BY <2>5 DEF Same
  <2>9. Lists(g.list, Heads, Page, Homes(g, I, U))
    <3>1. Homes(g, I, U) = Homes(h, I, U)
      BY <2>5 DEF Homes, Home
    <3> QED BY <1>1, <2>5, <3>1
  <2>10. \A q \in I : PageOK(g, T, q)
    <3>1. \A q \in I : Same(g, h, q) /\ PageOK(h, T, q)
      BY <1>1, <2>8
    <3> QED BY <3>1, SamePages
  <2>11. Counted(g, k, I) /\ T \in SUBSET (I \X AnyBlock) /\ Members(k, I, U, X)
    BY <2>5 DEF Sound, Counted
  <2>12. Sound(g, k, T, I, U, X)
    BY <2>7, <2>9, <2>10, <2>11 DEF Sound
  <2>13. ASSUME NEW e \in 0..(NDirect - 1)
         PROVE  IF e = c THEN g.direct[e] \in I /\ h.class[g.direct[e]] = c
                         ELSE g.direct[e] = h.direct[e]
    BY <1>1, <2>2, <2>5, Fields
  <2> QED BY <2>5, <2>8, <2>12, <2>13
<1> QED BY <1>2, <1>3

(* The entries of pages_direct after an operation that gave class c a page *)
(* that its entry points to, and kept the other entries and pages.         *)
Updated(h, g, J, c) ==
    \A e \in 0..(NDirect - 1) : IF e = c THEN g.direct[e] \in J /\ g.class[g.direct[e]] = c
                                         ELSE g.direct[e] = h.direct[e]

Kept(h, g, I, J, c) == \A q \in I : h.class[q] # c => q \in J /\ g.class[q] = h.class[q]

LEMMA DirectKept ==
    ASSUME NEW h, NEW g, NEW I, NEW J, NEW c, Updated(h, g, J, c), Kept(h, g, I, J, c)
    PROVE  /\ DirectOK(h, I, NDirect) => DirectOK(g, J, NDirect)
           /\ c \in Nat /\ c < NDirect /\ DirectOK(h, I, c) => DirectOK(g, J, c + 1)
<1>1. ASSUME NEW e \in 0..(NDirect - 1), e = c \/ (h.direct[e] \in I /\ h.class[h.direct[e]] = e)
      PROVE  g.direct[e] \in J /\ g.class[g.direct[e]] = e
  BY <1>1 DEF Updated, Kept
<1>2. DirectOK(h, I, NDirect) => DirectOK(g, J, NDirect)
  BY <1>1 DEF DirectOK
<1>3. ASSUME c \in Nat, c < NDirect, DirectOK(h, I, c) PROVE DirectOK(g, J, c + 1)
  <2>1. ASSUME NEW e \in 0..((c + 1) - 1)
        PROVE  e \in 0..(NDirect - 1) /\ (e = c \/ e \in 0..(c - 1))
    BY <1>3, ClassFacts
  <2> QED BY <1>1, <1>3, <2>1 DEF DirectOK
<1> QED BY <1>2, <1>3

(* page_new_small takes the first unused page into use, as a page of class *)
(* c.                                                                      *)
LEMMA NewSmallLemma ==
    ASSUME NEW h, NEW k, NEW T, NEW I, NEW U, NEW X, Sound(h, k, T, I, U, X),
           FullOK(h, I), ~list_is_empty(h.list, UnusedHead), NEW c \in Class,
           NEW p, p = h.list.next[UnusedHead], NEW g, g = page_new_small(h, c),
           NEW J, J = I \cup {p}, NEW W, W = U \ {p}
    PROVE  /\ p \in U
           /\ Sound(g, k, T, J, W, X) /\ FullOK(g, J) /\ g.kind = h.kind
           /\ Fresh(g, p, c) /\ \A q \in I : Same(g, h, q)
           /\ DirectOK(h, I, NDirect) => DirectOK(g, J, NDirect)
           /\ c < NDirect /\ DirectOK(h, I, c) => DirectOK(g, J, c + 1)
<1>1. h \in HeapType /\ I \in SUBSET Page /\ U \in SUBSET Page /\ U \cap X = {} /\ U \cap I = {}
  BY DEF Sound, Members
<1>2. PICK h1 : h1 = [h EXCEPT !.list = list_shift(@, UnusedHead)]
  OBVIOUS
<1>3. PICK Y : Y = X \cup {p}
  OBVIOUS
<1>4. /\ p \in U /\ Sound(h1, k, T, I, W, Y)
      /\ h1.direct = h.direct /\ h1.kind = h.kind /\ h1.usedPages = h.usedPages
      /\ \A q \in Page : Same(h1, h, q)
  BY <1>2, <1>3, TakeUnusedLemma
<1>5. p \in Page /\ p \in Y /\ X = Y \ {p} /\ SegOf(p) \in Seg
  BY <1>1, <1>3, <1>4, PageFacts
<1>6. h1 \in HeapType
  BY <1>4 DEF Sound
<1>7. PICK h2 : h2 = [h EXCEPT !.list = list_shift(@, UnusedHead), !.usedPages[SegOf(p)] = @ + 1]
  OBVIOUS
<1>8. PICK g0 : g0 = [h2 EXCEPT !.list = list_push(@, PagesHead(c), p),
                                !.free[p] = IF c = HUGE THEN {HugeBlock} ELSE Block,
                                !.local[p] = {}, !.used[p] = 0, !.class[p] = c,
                                !.full[p] = FALSE]
  OBVIOUS
<1>80. /\ h2.list = h1.list /\ h2.free = h1.free /\ h2.local = h1.local /\ h2.used = h1.used
       /\ h2.class = h1.class /\ h2.full = h1.full /\ h2.direct = h1.direct
       /\ h2.kind = h1.kind /\ h2.usedPages = [h1.usedPages EXCEPT ![SegOf(p)] = @ + 1]
       /\ h2 = [list |-> h2.list, free |-> h2.free, local |-> h2.local, used |-> h2.used,
                class |-> h2.class, full |-> h2.full, direct |-> h2.direct, kind |-> h2.kind,
                usedPages |-> h2.usedPages]
  BY <1>1, <1>2, <1>7 DEF HeapType
<1>81. /\ g0.list = list_push(h2.list, PagesHead(c), p)
       /\ g0.free = [h2.free EXCEPT ![p] = IF c = HUGE THEN {HugeBlock} ELSE Block]
       /\ g0.local = [h2.local EXCEPT ![p] = {}] /\ g0.used = [h2.used EXCEPT ![p] = 0]
       /\ g0.class = [h2.class EXCEPT ![p] = c] /\ g0.full = [h2.full EXCEPT ![p] = FALSE]
       /\ g0.usedPages = h2.usedPages /\ g0.direct = h2.direct /\ g0.kind = h2.kind
       /\ g0 = [list |-> g0.list, free |-> g0.free, local |-> g0.local, used |-> g0.used,
                class |-> g0.class, full |-> g0.full, direct |-> g0.direct, kind |-> g0.kind,
                usedPages |-> g0.usedPages]
  BY ONLY <1>8, <1>80
<1>9. NewPage(h1, g0, p, c)
  <2>1. /\ g0.direct \in [0..(NDirect - 1) -> Page]
        /\ g0.kind \in [Seg -> {"none", "small", "large", "huge"}]
    BY <1>6, <1>80, <1>81, Fields
  <2> QED BY <1>80, <1>81, <2>1 DEF NewPage
<1>10. /\ Sound(g0, k, T, J, W, X)
       /\ Fresh(g0, p, c)
       /\ \A q \in I : Same(g0, h1, q)
       /\ FullOK(h1, I) => FullOK(g0, J)
  <2>1. Sound(h1, k, T, I, W, Y) /\ c \in Class /\ Moves(p, Y, X, I, J)
    BY <1>4, <1>5 DEF Moves
  <2> QED BY ONLY <1>9, <2>1, NewPageLemma
<1>11. g = heap_update_pages_direct(g0, c)
  BY <1>7, <1>8 DEF page_new_small, page_init
<1>12. /\ Sound(g, k, T, J, W, X)
       /\ g.kind = g0.kind /\ \A q \in Page : Same(g, g0, q)
       /\ \A e \in 0..(NDirect - 1) :
             IF e = c THEN g.direct[e] \in J /\ g0.class[g.direct[e]] = c
                      ELSE g.direct[e] = g0.direct[e]
  <2>1. \E q \in J : g0.class[q] = c /\ ~g0.full[q]
    BY <1>10 DEF Fresh
  <2> QED BY <1>10, <1>11, <2>1, DirectLemma
<1>13. FullOK(g, J)
  <2>1. FullOK(h1, I)
    BY <1>1, <1>4 DEF FullOK, Same
  <2>2. J \in SUBSET Page
    BY <1>1, <1>5
  <2> QED BY <1>10, <1>12, <2>1, <2>2 DEF FullOK, Same
<1>14. Fresh(g, p, c)
  BY <1>5, <1>10, <1>12 DEF Same, BlocksIn, Fresh
<1>18. ASSUME NEW q \in I PROVE Same(g, h, q)
  <2>1. q \in Page /\ Same(g, g0, q) /\ Same(g0, h1, q) /\ Same(h1, h, q)
    BY <1>1, <1>4, <1>10, <1>12
  <2> QED BY <2>1 DEF Same
<1>15. Updated(h, g, J, c) /\ Kept(h, g, I, J, c)
  <2>1. J \in SUBSET Page /\ I \subseteq J
    BY <1>1, <1>5
  <2>2. ASSUME NEW q \in I PROVE g.class[q] = h.class[q]
    BY <1>18 DEF Same
  <2>3. ASSUME NEW q \in J PROVE g.class[q] = g0.class[q]
    BY <1>12, <2>1 DEF Same
  <2>4. g0.direct = h.direct
    BY <1>4, <1>80, <1>81
  <2> QED BY <1>12, <2>1, <2>2, <2>3, <2>4 DEF Updated, Kept
<1>16. /\ DirectOK(h, I, NDirect) => DirectOK(g, J, NDirect)
       /\ c < NDirect /\ DirectOK(h, I, c) => DirectOK(g, J, c + 1)
  <2>1. c \in Nat
    BY ClassFacts
  <2> QED BY ONLY <1>15, <2>1, DirectKept
<1>17. g.kind = h.kind
  BY <1>4, <1>12, <1>80, <1>81
<1> QED BY <1>4, <1>12, <1>13, <1>14, <1>16, <1>17, <1>18

(* A block that is given back was taken, and is on local_free now; a page  *)
(* on full_pages with several blocks has others that are taken.            *)
LEMMA LocalFreeLemma ==
    ASSUME NEW h, NEW k, NEW T, NEW I, NEW U, NEW X, NEW p, NEW b, NEW g, NEW V, NEW J,
           Sound(h, k, T, I, U, X), FullOK(h, I), <<p, b>> \in T,
           g = page_local_free_push(h, p, b), V = T \ {<<p, b>>}, J = I \ {p}
    PROVE  /\ p \in I /\ Sound(g, k, V, I, U, X) /\ FullOK(g, J)
           /\ g.list = h.list /\ g.direct = h.direct /\ g.class = h.class /\ g.kind = h.kind
           /\ g.full = h.full /\ g.usedPages = h.usedPages
           /\ g.full[p] /\ g.used[p] = 0 => g.class[p] = HUGE
<1>1. /\ h \in HeapType /\ I \in SUBSET Page /\ U \in SUBSET Page
      /\ T \in SUBSET (I \X AnyBlock)
      /\ \A q \in I : PageOK(h, T, q)
  BY DEF Sound, Members
<1>2. p \in I /\ p \in Page /\ b \in AnyBlock
  BY <1>1
<1>3. PageOK(h, T, p) /\ PagesIn(I, SegOf(p)) \subseteq Page
  BY <1>1, <1>2 DEF PagesIn
<1>4. /\ TakenOf(V, p) = TakenOf(T, p) \ {b} /\ b \in TakenOf(T, p)
      /\ Cardinality(TakenOf(V, p)) = Cardinality(TakenOf(T, p)) - 1
      /\ \A q : q # p => TakenOf(V, q) = TakenOf(T, q)
      /\ Cardinality(TakenOf(V, p)) \in Nat
  <2>1. Gives(T, V, p, b)
    BY <1>2 DEF Gives
  <2>2. /\ TakenOf(V, p) = TakenOf(T, p) \ {b} /\ b \in TakenOf(T, p)
        /\ Cardinality(TakenOf(V, p)) = Cardinality(TakenOf(T, p)) - 1
        /\ \A q : q # p => TakenOf(V, q) = TakenOf(T, q)
    BY ONLY <2>1, GiveOne
  <2> QED BY <2>2, TakenFinite
<1>5. /\ g.list = h.list /\ g.free = h.free /\ g.class = h.class /\ g.full = h.full
      /\ g.direct = h.direct /\ g.kind = h.kind /\ g.usedPages = h.usedPages
      /\ g.local = [h.local EXCEPT ![p] = @ \cup {b}] /\ g.used = [h.used EXCEPT ![p] = @ - 1]
  BY <1>1 DEF page_local_free_push, HeapType
<1>6. h.used[p] = Cardinality(TakenOf(T, p)) /\ h.used[p] - 1 \in Nat
  BY <1>3, <1>4 DEF PageOK
<1>7. g.local \in [Page -> SUBSET AnyBlock] /\ g.used \in [Page -> Nat]
  BY <1>1, <1>2, <1>5, <1>6, Fields
<1>8. g \in HeapType
  BY <1>1, <1>5, <1>7 DEF page_local_free_push, HeapType
<1>9. Lists(g.list, Heads, Page, Homes(g, I, U))
  <2>1. Homes(g, I, U) = Homes(h, I, U)
    BY <1>5 DEF Homes, Home
  <2> QED BY <1>5, <2>1 DEF Sound
<1>10. V \in SUBSET (I \X AnyBlock)
  BY <1>1
<1>11. g.used[p] = h.used[p] - 1 /\ g.local[p] = h.local[p] \cup {b} /\ g.free[p] = h.free[p]
  BY <1>1, <1>2, <1>5, Fields
<1>12. ASSUME NEW q \in I, q # p PROVE Same(g, h, q)
  BY <1>1, <1>2, <1>5, <1>12, Fields DEF Same
<1>13. ASSUME NEW q \in I PROVE PageOK(g, V, q)
  <2>1. PageOK(h, T, q) /\ BlocksIn(g, q) = BlocksIn(h, q)
    BY <1>1, <1>5 DEF BlocksIn
  <2>2. CASE q = p
    <3>1. /\ g.used[p] = Cardinality(TakenOf(V, p))
          /\ h.free[p] \cap h.local[p] = {}
          /\ TakenOf(T, p) \cap (h.free[p] \cup h.local[p]) = {}
          /\ TakenOf(T, p) \cup h.free[p] \cup h.local[p] = BlocksIn(g, p)
      BY <1>4, <1>6, <1>11, <2>1, <2>2 DEF PageOK
    <3>2. PICK A, B, C, D : /\ A = TakenOf(T, p) /\ B = h.free[p] /\ C = h.local[p]
                            /\ D = BlocksIn(g, p)
      OBVIOUS
    <3>3. B \cap C = {} /\ A \cap (B \cup C) = {} /\ A \cup B \cup C = D /\ b \in A
      BY ONLY <1>4, <3>1, <3>2
    <3>4. g.free[p] = B /\ g.local[p] = C \cup {b} /\ TakenOf(V, p) = A \ {b}
      BY ONLY <1>4, <1>11, <3>2
    <3>5. B \cap (C \cup {b}) = {}
      BY ONLY <3>3
    <3>6. (A \ {b}) \cap (B \cup (C \cup {b})) = {}
      BY ONLY <3>3
    <3>7. (A \ {b}) \cup B \cup (C \cup {b}) = D
      BY ONLY <3>3
    <3>8. /\ g.free[p] \cap g.local[p] = {}
          /\ TakenOf(V, p) \cap (g.free[p] \cup g.local[p]) = {}
          /\ TakenOf(V, p) \cup g.free[p] \cup g.local[p] = BlocksIn(g, p)
      BY ONLY <3>2, <3>4, <3>5, <3>6, <3>7, Zenon
    <3> QED BY ONLY <2>2, <3>1, <3>8 DEF PageOK
  <2>3. CASE q # p
    <3>1. TakenOf(V, q) = TakenOf(T, q) /\ Same(g, h, q)
      BY <1>4, <1>12, <2>3
    <3> QED BY <2>1, <3>1 DEF PageOK, Same
  <2> QED BY <2>2, <2>3
<1>14. Counted(g, k, I) /\ Members(k, I, U, X)
  BY <1>5 DEF Sound, Counted
<1>15. Sound(g, k, V, I, U, X)
  BY <1>8, <1>9, <1>10, <1>13, <1>14 DEF Sound
<1>16. FullOK(g, J)
  BY <1>12 DEF FullOK, Same
<1>17. ASSUME g.full[p], g.used[p] = 0, g.class[p] # HUGE PROVE FALSE
  <2>1. h.free[p] = {} /\ h.local[p] = {} /\ h.class[p] # HUGE
    BY <1>2, <1>5, <1>17 DEF FullOK
  <2>2. TakenOf(T, p) = Block
    BY <1>3, <2>1 DEF PageOK, BlocksIn
  <2>3. h.used[p] > 1 /\ h.used[p] \in Nat
    BY <1>6, <2>2, BlockFacts
  <2> QED BY <1>11, <1>17, <2>3
<1> QED BY <1>2, <1>5, <1>15, <1>16, <1>17

(* A page moves between the list of its class and full_pages. *)
Moved(h, g, p, d) == \/ d = FullHead /\ g = Fill(h, p)
                     \/ d = PagesHead(h.class[p]) /\ g = Unfill(h, p)

Elsewhere(h, g, I, p, d) == Home(g, p) = d /\ \A q \in I : q # p => Same(g, h, q)

LEMMA MoveLemma ==
    ASSUME NEW h, NEW k, NEW T, NEW I, NEW U, NEW X, NEW p, NEW d, NEW g,
           Sound(h, k, T, I, U, X), p \in I, Moved(h, g, p, d)
    PROVE  /\ Sound(g, k, T, I, U, X)
           /\ g.direct = h.direct /\ g.class = h.class /\ g.kind = h.kind
           /\ g.free = h.free /\ g.local = h.local
           /\ Elsewhere(h, g, I, p, d)
<1>1. /\ h \in HeapType /\ I \in SUBSET Page /\ U \in SUBSET Page /\ I \cap U = {}
      /\ p \in Page /\ p \notin U
      /\ Lists(h.list, Heads, Page, Homes(h, I, U))
      /\ \A q \in I : PageOK(h, T, q)
  BY DEF Sound, Members
<1>2. /\ g.list = list_push(list_remove(h.list, p), d, p)
      /\ g.free = h.free /\ g.local = h.local /\ g.used = h.used /\ g.class = h.class
      /\ g.direct = h.direct /\ g.kind = h.kind /\ g.usedPages = h.usedPages
      /\ \/ d = FullHead /\ g.full = [h.full EXCEPT ![p] = TRUE]
         \/ d = PagesHead(h.class[p]) /\ g.full = [h.full EXCEPT ![p] = FALSE]
      /\ g = [list |-> g.list, free |-> g.free, local |-> g.local, used |-> g.used,
              class |-> g.class, full |-> g.full, direct |-> g.direct, kind |-> g.kind,
              usedPages |-> g.usedPages]
  <2>1. CASE d = FullHead /\ g = Fill(h, p)
    BY <1>1, <2>1 DEF HeapType, Fill
  <2>2. CASE d = PagesHead(h.class[p]) /\ g = Unfill(h, p)
    BY <1>1, <2>2 DEF HeapType, Unfill
  <2> QED BY <2>1, <2>2 DEF Moved
<1>3. /\ g.full \in [Page -> BOOLEAN] /\ Home(g, p) = d
      /\ \A q \in I : q # p => Same(g, h, q)
  <2>1. CASE d = FullHead /\ g.full = [h.full EXCEPT ![p] = TRUE]
    BY <1>1, <1>2, <2>1, Fields DEF Same, Home
  <2>2. CASE d = PagesHead(h.class[p]) /\ g.full = [h.full EXCEPT ![p] = FALSE]
    BY <1>1, <1>2, <2>2, Fields DEF Same, Home
  <2> QED BY <1>2, <2>1, <2>2
<1>4. Home(g, p) = d /\ d \in Heads /\ \A q \in I : q # p => Home(g, q) = Home(h, q)
  <2>1. h.class[p] \in Class
    BY <1>1, Fields
  <2> QED BY <1>2, <1>3, <2>1, HeadFacts DEF Home, Same
<1>5. Lists(g.list, Heads, Page, Homes(g, I, U))
  <2>1. ASSUME NEW P, NEW Q, NEW R, NEW K, P = Homes(h, I, U), R = Homes(g, I, U),
               Q = Homes(h, I \ {p}, U), K = list_remove(h.list, p)
        PROVE  Lists(list_push(K, d, p), Heads, Page, R)
    <3>1. /\ Lists(h.list, Heads, Page, P) /\ Home(h, p) \in Heads /\ p \in P[Home(h, p)]
      BY <1>1, <2>1, HomeFacts, WhichList
    <3>2. \A c \in Heads, q \in Page : q \in P[c] <=> \/ q \in U /\ c = UnusedHead
                                                      \/ q \in I /\ c = Home(h, q)
      BY <2>1 DEF Homes
    <3>3. /\ Q \in [Heads -> SUBSET Page]
          /\ \A c \in Heads, q \in Page : q \in Q[c] <=> \/ q \in U /\ c = UnusedHead
                                                         \/ q \in I \ {p} /\ c = Home(h, q)
      BY <2>1 DEF Homes
    <3>4. /\ R \in [Heads -> SUBSET Page]
          /\ \A c \in Heads, q \in Page : q \in R[c] <=> \/ q \in U /\ c = UnusedHead
                                                         \/ q \in I /\ c = Home(g, q)
      BY <2>1 DEF Homes
    <3>5. \A c \in Heads, q \in Page : q \in Q[c] <=> q \in P[c] /\ q # p
      BY <1>1, <3>2, <3>3
    <3>6. Lists(list_remove(h.list, p), Heads, Page, Q)
      BY ONLY <3>1, <3>3, <3>5, RemovePage
    <3>7. \A c \in Heads, q \in Page : q \in R[c] <=> q \in Q[c] \/ (c = d /\ q = p)
      BY <1>4, <3>3, <3>4, p \in I
    <3>8. d \in Heads /\ p \in Page /\ \A c \in Heads : p \notin Q[c]
      BY <1>1, <1>4, <3>5
    <3>9. Lists(K, Heads, Page, Q)
      BY <2>1, <3>6
    <3>10. R \in [Heads -> SUBSET Page]
      BY <3>4
    <3> QED BY ONLY <3>7, <3>8, <3>9, <3>10, PushPage
  <2> QED BY <1>2, <2>1
<1>6. g \in HeapType
  <2>1. g.list \in LinkType(Heads \cup Page)
    BY <1>5 DEF Lists
  <2> QED BY <1>1, <1>2, <1>3, <2>1 DEF HeapType
<1>7. \A q \in I : PageOK(g, T, q)
  BY <1>1, <1>2 DEF PageOK, BlocksIn
<1>8. Counted(g, k, I) /\ T \in SUBSET (I \X AnyBlock) /\ Members(k, I, U, X)
  BY <1>2 DEF Sound, Counted
<1>9. Sound(g, k, T, I, U, X)
  BY <1>5, <1>6, <1>7, <1>8 DEF Sound
<1>10. Elsewhere(h, g, I, p, d)
  BY <1>3 DEF Elsewhere
<1> QED BY <1>2, <1>9, <1>10

LEMMA FillLemma ==
    ASSUME NEW h, NEW k, NEW T, NEW I, NEW U, NEW X, NEW p, NEW g,
           Sound(h, k, T, I, U, X), FullOK(h, I), DirectOK(h, I, NDirect), p \in I,
           h.free[p] = {}, h.local[p] = {}, g = Fill(h, p)
    PROVE  /\ Sound(g, k, T, I, U, X) /\ FullOK(g, I) /\ DirectOK(g, I, NDirect)
           /\ g.kind = h.kind
<1>0. PICK d : d = FullHead
  OBVIOUS
<1>1. Sound(h, k, T, I, U, X) /\ p \in I /\ Moved(h, g, p, d)
  BY <1>0 DEF Moved
<1>2. /\ Sound(g, k, T, I, U, X)
      /\ g.direct = h.direct /\ g.class = h.class /\ g.kind = h.kind
      /\ g.free = h.free /\ g.local = h.local
      /\ Elsewhere(h, g, I, p, d)
  BY ONLY <1>1, MoveLemma
<1> QED BY <1>2 DEF FullOK, DirectOK, Same, Elsewhere

LEMMA UnfillLemma ==
    ASSUME NEW h, NEW k, NEW T, NEW I, NEW U, NEW X, NEW p, NEW g,
           Sound(h, k, T, I, U, X), FullOK(h, I \ {p}), DirectOK(h, I, NDirect), p \in I,
           g = Unfill(h, p)
    PROVE  /\ Sound(g, k, T, I, U, X) /\ FullOK(g, I) /\ DirectOK(g, I, NDirect)
           /\ g.kind = h.kind
<1>0. PICK d : d = PagesHead(h.class[p])
  OBVIOUS
<1>1. Sound(h, k, T, I, U, X) /\ p \in I /\ Moved(h, g, p, d)
  BY <1>0 DEF Moved
<1>2. /\ Sound(g, k, T, I, U, X)
      /\ g.direct = h.direct /\ g.class = h.class /\ g.kind = h.kind
      /\ g.free = h.free /\ g.local = h.local
      /\ Elsewhere(h, g, I, p, d)
  BY ONLY <1>1, MoveLemma
<1>3. d # FullHead
  <2>1. h.class[p] \in Class
    BY Fields DEF Sound, Members
  <2> QED BY <1>0, <2>1, HeadFacts
<1>4. ~g.full[p]
  BY <1>2, <1>3 DEF Home, Elsewhere
<1> QED BY <1>2, <1>4 DEF FullOK, DirectOK, Same, Elsewhere
-----------------------------------------------------------------------------
(* A set that has 0, and with a number the next one, has them all. *)
LEMMA SetInduction ==
    ASSUME NEW S, 0 \in S, \A n \in Nat : n \in S => n + 1 \in S
    PROVE  \A n \in Nat : n \in S
<1> DEFINE T == {n \in Nat : n \notin S}
<1>1. SUFFICES ASSUME T # {} PROVE FALSE
  OBVIOUS
<1>2. PICK R : R = OpToRel(<, Nat)
  OBVIOUS
<1>3. IsWellFoundedOn(R, Nat)
  BY <1>2, NatLessThanWellFounded
<1>4. \E x \in T : \A y \in T : ~(<<y, x>> \in R)
  <2>1. T \subseteq Nat
    OBVIOUS
  <2> HIDE DEF T
  <2> QED BY <1>1, <1>3, <2>1, WFMin
<1>5. PICK x \in T : \A y \in T : ~(<<y, x>> \in R)
  BY <1>4
<1>6. x # 0 /\ x - 1 \in Nat /\ x - 1 \in T
  OBVIOUS
<1>7. <<x - 1, x>> \in R
  BY <1>2, <1>6 DEF OpToRel
<1> QED BY <1>5, <1>6, <1>7
-----------------------------------------------------------------------------
(* Segments.                                                               *)

Kinds == {"none", "small", "large", "huge"}

PagesOf(k, s) == {p \in Page : SegOf(p) = s /\ IsPage(k, p)}

(* The pages I and pages_direct are as they were. *)
Untouched(h, g, I) == g.direct = h.direct /\ \A q \in I : Same(g, h, q)

(* Segment s is put to use as a segment of kind v. *)
Opens(h, g, s, v) ==
    /\ s \in Seg /\ h.kind[s] = "none" /\ v \in Kinds
    /\ g = [h EXCEPT !.kind[s] = v, !.usedPages[s] = 0]

Becomes(h, g, s, v) == g.kind = [h.kind EXCEPT ![s] = v]

LEMMA OpenSegment ==
    ASSUME NEW h, NEW g, NEW s, NEW v, NEW T, NEW I, NEW U, NEW X, NEW Y,
           Sound(h, h.kind, T, I, U, X), X = {}, Opens(h, g, s, v), Y = PagesOf(g.kind, s)
    PROVE  /\ Sound(g, g.kind, T, I, U, Y) /\ Untouched(h, g, I)
           /\ Becomes(h, g, s, v)
<1>1. /\ h \in HeapType /\ I \in SUBSET Page /\ U \in SUBSET Page /\ Members(h.kind, I, U, X)
      /\ Lists(h.list, Heads, Page, Homes(h, I, U))
      /\ \A q \in I : PageOK(h, T, q)
      /\ T \in SUBSET (I \X AnyBlock)
  BY DEF Sound, Members
<1>2. s \in Seg /\ h.kind[s] = "none" /\ v \in Kinds
  BY DEF Opens
<1>3. /\ g.list = h.list /\ g.free = h.free /\ g.local = h.local /\ g.used = h.used
      /\ g.class = h.class /\ g.full = h.full /\ g.direct = h.direct
      /\ g.kind = [h.kind EXCEPT ![s] = v] /\ g.usedPages = [h.usedPages EXCEPT ![s] = 0]
      /\ g = [h EXCEPT !.kind = g.kind, !.usedPages = g.usedPages]
  BY <1>1 DEF HeapType, Opens
<1>4. g.kind \in [Seg -> Kinds] /\ g.usedPages \in [Seg -> Nat]
  BY <1>1, <1>2, <1>3, Fields DEF Kinds
<1>5. g \in HeapType
  BY <1>1, <1>3, <1>4 DEF HeapType, Kinds
<1>6. \A q \in I : Same(g, h, q)
  BY <1>3 DEF Same
<1>7. Lists(g.list, Heads, Page, Homes(g, I, U))
  <2>1. Homes(g, I, U) = Homes(h, I, U)
    BY <1>3 DEF Homes, Home
  <2> QED BY <1>1, <1>3, <2>1
<1>8. \A q \in I : PageOK(g, T, q)
  BY <1>1, <1>6, SamePages
<1>9. \A q \in Page : SegOf(q) = s => q \notin I /\ q \notin U /\ ~IsPage(h.kind, q)
  BY <1>1, <1>2 DEF Members, IsPage
<1>10. \A q \in Page : SegOf(q) # s => (IsPage(g.kind, q) <=> IsPage(h.kind, q))
  BY <1>1, <1>2, <1>3, Fields, PageFacts DEF IsPage
<1>11. Members(g.kind, I, U, Y)
  <2>1. I \in SUBSET Page /\ U \in SUBSET Page /\ Y \in SUBSET Page
    BY <1>1 DEF PagesOf
  <2>2. I \cap U = {} /\ I \cap Y = {} /\ U \cap Y = {}
    BY <1>1, <1>9, <2>1 DEF Members, PagesOf
  <2>3. ASSUME NEW q \in Page PROVE q \in I \cup U \cup Y <=> IsPage(g.kind, q)
    <3>1. CASE SegOf(q) = s
      BY <1>9, <3>1 DEF PagesOf
    <3>2. CASE SegOf(q) # s
      <4>1. q \notin Y
        BY <3>2 DEF PagesOf
      <4> QED BY <1>1, <1>10, <3>2, <4>1 DEF Members
    <3> QED BY <3>1, <3>2
  <2>4. \A q \in U : g.kind[SegOf(q)] = "small"
    <3>1. \A q \in U : h.kind[SegOf(q)] = "small" /\ SegOf(q) # s /\ SegOf(q) \in Seg
      BY <1>1, <1>9, PageFacts DEF Members
    <3> QED BY <1>1, <1>3, <3>1, Fields
  <2> QED BY <2>1, <2>2, <2>3, <2>4 DEF Members
<1>12. Counted(g, g.kind, I)
  <2>1. ASSUME NEW t \in Seg, g.kind[t] # "none"
        PROVE  g.usedPages[t] = Cardinality(PagesIn(I, t))
    <3>1. CASE t = s
      <4>1. PagesIn(I, t) = {}
        BY <1>1, <1>9, <3>1 DEF PagesIn
      <4>2. g.usedPages[t] = 0
        BY <1>1, <1>2, <1>3, <3>1, Fields
      <4> QED BY <4>1, <4>2, FS_EmptySet
    <3>2. CASE t # s
      <4>1. g.usedPages[t] = h.usedPages[t] /\ g.kind[t] = h.kind[t]
        BY <1>1, <1>2, <1>3, <3>2, Fields
      <4> QED BY <2>1, <4>1 DEF Sound, Counted
    <3> QED BY <3>1, <3>2
  <2> QED BY <2>1 DEF Counted
<1>13. Sound(g, g.kind, T, I, U, Y)
  BY <1>1, <1>5, <1>7, <1>8, <1>11, <1>12 DEF Sound
<1> QED BY <1>3, <1>6, <1>13 DEF Untouched, Becomes

(* A segment without pages in use or unused is given back. *)
LEMMA CloseSegment ==
    ASSUME NEW h, NEW k, NEW s, NEW T, NEW I, NEW U, NEW X, NEW Y,
           Sound(h, k, T, I, U, X), s \in Seg, X = PagesOf(k, s), Y = {},
           h.kind = [k EXCEPT ![s] = "none"], k \in [Seg -> Kinds]
    PROVE  Sound(h, h.kind, T, I, U, Y)
<1>1. \A q \in Page : SegOf(q) = s => q \notin I /\ q \notin U /\ ~IsPage(h.kind, q)
  BY DEF Sound, Members, IsPage, PagesOf
<1>2. \A q \in Page : SegOf(q) # s =>
         (IsPage(h.kind, q) <=> IsPage(k, q)) /\ h.kind[SegOf(q)] = k[SegOf(q)]
  BY PageFacts DEF IsPage
<1>3. Members(k, I, U, X)
  BY DEF Sound
<1>4. Members(h.kind, I, U, Y)
  <2>1. I \in SUBSET Page /\ U \in SUBSET Page /\ I \cap U = {} /\ \A q \in U : SegOf(q) # s
    BY <1>1, <1>3 DEF Members
  <2>2. ASSUME NEW q \in Page PROVE q \in I \cup U <=> IsPage(h.kind, q)
    <3>1. CASE SegOf(q) = s
      BY <1>1, <3>1
    <3>2. CASE SegOf(q) # s
      <4>1. q \notin X
        BY <3>2 DEF PagesOf
      <4> QED BY <1>2, <1>3, <3>2, <4>1 DEF Members
    <3> QED BY <3>1, <3>2
  <2>3. \A q \in U : h.kind[SegOf(q)] = "small"
    BY <1>2, <1>3, <2>1 DEF Members
  <2> QED BY <2>1, <2>2, <2>3 DEF Members
<1>5. Counted(h, h.kind, I)
  BY DEF Sound, Counted
<1> QED BY <1>4, <1>5 DEF Sound

(* The turn of the loop of segment_free for a page that is not in use.     *)
Drop(h, p) == IF list_is_empty(h.list, p) THEN Zero(h, p)
              ELSE Zero([h EXCEPT !.list = list_remove(@, p)], p)

LEMMA DropPage ==
    ASSUME NEW h, NEW k, NEW T, NEW I, NEW U, NEW X, NEW p, NEW g,
           Sound(h, k, T, I, U, X), p \in Page, p \notin I, g = Drop(h, p)
    PROVE  \E W, Y : /\ Sound(g, k, T, I, W, Y) /\ Untouched(h, g, I)
                     /\ g.kind = h.kind /\ W = U \ {p}
<1>1. /\ h \in HeapType /\ I \in SUBSET Page /\ U \in SUBSET Page /\ I \cap U = {}
      /\ Lists(h.list, Heads, Page, Homes(h, I, U)) /\ Members(k, I, U, X)
      /\ \A q \in I : PageOK(h, T, q)
  BY DEF Sound, Members
<1>2. CASE p \notin U
  <2>1. list_is_empty(h.list, p)
    <3>1. \A d \in Heads : p \notin Homes(h, I, U)[d]
      BY <1>1, <1>2, WhichList
    <3>2. h.list.next[p] = p
      BY <1>1, <3>1 DEF Lists
    <3> QED BY <3>2 DEF list_is_empty
  <2>2. g = Zero(h, p) /\ p \in Page /\ p \notin I \cup U
    BY <1>2, <2>1 DEF Drop
  <2>3. Sound(g, k, T, I, U, X) /\ g.direct = h.direct /\ g.kind = h.kind
        /\ \A q \in I : Same(g, h, q)
    BY <2>2, ZeroLemma
  <2>4. U = U \ {p}
    BY <1>2
  <2> QED BY <2>3, <2>4 DEF Untouched
<1>3. CASE p \in U
  <2>1. PICK W, Y, f : W = U \ {p} /\ Y = X \cup {p} /\ f = [h EXCEPT !.list = list_remove(@, p)]
    OBVIOUS
  <2>2. /\ f.list = list_remove(h.list, p)
        /\ f.free = h.free /\ f.local = h.local /\ f.used = h.used /\ f.class = h.class
        /\ f.full = h.full /\ f.direct = h.direct /\ f.kind = h.kind
        /\ f.usedPages = h.usedPages
        /\ f = [h EXCEPT !.list = f.list]
    BY <1>1, <2>1 DEF HeapType
  <2>3. ~list_is_empty(h.list, p) /\ Lists(f.list, Heads, Page, Homes(f, I, W))
    <3>1. Homes(f, I, W) = Homes(h, I, W)
      BY <2>2 DEF Homes, Home
    <3>2. ASSUME NEW P, NEW Q, NEW d, P = Homes(h, I, U), Q = Homes(h, I, W), d = UnusedHead
          PROVE  ~list_is_empty(h.list, p) /\ Lists(list_remove(h.list, p), Heads, Page, Q)
      <4>1. Lists(h.list, Heads, Page, P) /\ d \in Heads /\ p \in P[d]
        BY <1>1, <1>3, <3>2, HomeFacts, HeadFacts
      <4>2. /\ Q \in [Heads -> SUBSET Page]
            /\ \A c \in Heads, q \in Page : q \in Q[c] <=> q \in P[c] /\ q # p
        BY <1>1, <1>3, <2>1, <3>2, HomeFacts
      <4>3. Lists(list_remove(h.list, p), Heads, Page, Q)
        BY ONLY <4>1, <4>2, RemovePage
      <4>4. ~list_is_empty(h.list, p)
        BY ONLY <4>1, MemberLemma
      <4> QED BY <4>3, <4>4
    <3> QED BY <2>2, <3>1, <3>2
  <2>4. f \in HeapType
    <3>1. f.list \in LinkType(Heads \cup Page)
      BY <2>3 DEF Lists
    <3> QED BY <1>1, <2>2, <3>1 DEF HeapType
  <2>5. Members(k, I, W, Y) /\ p \in Page /\ p \notin I \cup W
    BY <1>1, <1>3, <2>1 DEF Members
  <2>6. \A q \in I : Same(f, h, q)
    BY <2>2 DEF Same
  <2>7. \A q \in I : PageOK(f, T, q)
    BY <1>1, <2>6, SamePages
  <2>8. Counted(f, k, I) /\ T \in SUBSET (I \X AnyBlock)
    BY <2>2 DEF Sound, Counted
  <2>9. Sound(f, k, T, I, W, Y)
    BY <2>3, <2>4, <2>5, <2>7, <2>8 DEF Sound
  <2>10. g = Zero(f, p)
    BY <2>1, <2>3 DEF Drop
  <2>11. /\ Sound(g, k, T, I, W, Y) /\ g.direct = f.direct /\ g.kind = f.kind
         /\ \A q \in I : Same(g, f, q)
    BY <2>5, <2>9, <2>10, ZeroLemma
  <2>12. \A q \in I : Same(g, h, q)
    BY <2>6, <2>11 DEF Same
  <2> QED BY <2>1, <2>2, <2>11, <2>12 DEF Untouched
<1> QED BY <1>2, <1>3

(* The values of the loops, turn by turn: a loop that is defined by        *)
(* recursion on the number of turns has them.                              *)
InitSmallRun(f, h, s) ==
    /\ f[0] = [h EXCEPT !.kind[s] = "small", !.usedPages[s] = 0]
    /\ \A i \in 0..(PagesPer - 1) : f[i + 1] = heap_push_unused_page(f[i], <<s, i>>)
    /\ segment_init_small(h, s) = f[PagesPer]

LEMMA InitSmallLoop ==
    ASSUME NEW h, NEW s
    PROVE  \E f : InitSmallRun(f, h, s)
<1> DEFINE a == [h EXCEPT !.kind[s] = "small", !.usedPages[s] = 0]
           Step(x, i) == heap_push_unused_page(x, <<s, i>>)
           Is(f, n) == f = [i \in 0..n |-> IF i = 0 THEN a ELSE Step(f[i - 1], i - 1)]
           S == {n \in Nat : \E f : Is(f, n)}
<1> HIDE DEF a, Step
<1>1. 0 \in S
  <2>1. PICK f : f = [i \in 0..0 |-> a]
    OBVIOUS
  <2>2. Is(f, 0)
    BY <2>1
  <2> QED BY <2>2
<1>2. ASSUME NEW n \in Nat, n \in S PROVE n + 1 \in S
  <2>1. PICK f : Is(f, n)
    BY <1>2
  <2>2. PICK g : g = [i \in 0..(n + 1) |-> IF i <= n THEN f[i] ELSE Step(f[n], n)]
    OBVIOUS
  <2>3. ASSUME NEW i \in 0..(n + 1)
        PROVE  g[i] = IF i = 0 THEN a ELSE Step(g[i - 1], i - 1)
    <3>1. CASE i = 0
      BY <2>1, <2>2, <3>1
    <3>2. CASE i # 0 /\ i <= n
      <4>1. i \in 0..n /\ i - 1 \in 0..(n + 1) /\ i - 1 <= n
        BY <3>2
      <4>2. f[i] = Step(f[i - 1], i - 1)
        BY <2>1, <3>2, <4>1
      <4>3. g[i] = f[i] /\ g[i - 1] = f[i - 1]
        BY <2>2, <3>2, <4>1
      <4> QED BY <3>2, <4>2, <4>3
    <3>3. CASE i = n + 1
      <4>1. g[i] = Step(f[n], n) /\ g[n] = f[n] /\ i - 1 = n /\ i # 0
        BY <2>2, <3>3
      <4> QED BY <4>1
    <3> QED BY <3>1, <3>2, <3>3
  <2>4. Is(g, n + 1)
    BY <2>2, <2>3
  <2> QED BY <2>4
<1>3. PagesPer \in S
  <2> HIDE DEF S
  <2> QED BY <1>1, <1>2, SetInduction, ClassFacts
<1>4. PICK f : f = CHOOSE x : Is(x, PagesPer)
  OBVIOUS
<1>5. Is(f, PagesPer)
  BY <1>3, <1>4
<1>6. segment_init_small(h, s) = f[PagesPer]
  BY <1>4 DEF segment_init_small, a, Step
<1>7. f[0] = a
  BY <1>5, ClassFacts
<1>8. ASSUME NEW i \in 0..(PagesPer - 1) PROVE f[i + 1] = Step(f[i], i)
  <2>1. i + 1 \in 0..PagesPer /\ i + 1 # 0 /\ (i + 1) - 1 = i
    BY ClassFacts
  <2> QED BY <1>5, <2>1
<1> QED BY <1>6, <1>7, <1>8 DEF a, Step, InitSmallRun

SegmentFreeRun(f, h, s) ==
    /\ f[0] = [h EXCEPT !.kind[s] = "none"]
    /\ \A i \in 0..(PagesPer - 1) : f[i + 1] = Drop(f[i], <<s, i>>)
    /\ segment_free(h, s) = f[PagesPer]

LEMMA SegmentFreeLoop ==
    ASSUME NEW h, NEW s
    PROVE  \E f : SegmentFreeRun(f, h, s)
<1> DEFINE a == [h EXCEPT !.kind[s] = "none"]
           Step(x, i) == Drop(x, <<s, i>>)
           Is(f, n) == f = [i \in 0..n |-> IF i = 0 THEN a ELSE Step(f[i - 1], i - 1)]
           S == {n \in Nat : \E f : Is(f, n)}
<1> HIDE DEF a, Step
<1>1. 0 \in S
  <2>1. PICK f : f = [i \in 0..0 |-> a]
    OBVIOUS
  <2>2. Is(f, 0)
    BY <2>1
  <2> QED BY <2>2
<1>2. ASSUME NEW n \in Nat, n \in S PROVE n + 1 \in S
  <2>1. PICK f : Is(f, n)
    BY <1>2
  <2>2. PICK g : g = [i \in 0..(n + 1) |-> IF i <= n THEN f[i] ELSE Step(f[n], n)]
    OBVIOUS
  <2>3. ASSUME NEW i \in 0..(n + 1)
        PROVE  g[i] = IF i = 0 THEN a ELSE Step(g[i - 1], i - 1)
    <3>1. CASE i = 0
      BY <2>1, <2>2, <3>1
    <3>2. CASE i # 0 /\ i <= n
      <4>1. i \in 0..n /\ i - 1 \in 0..(n + 1) /\ i - 1 <= n
        BY <3>2
      <4>2. f[i] = Step(f[i - 1], i - 1)
        BY <2>1, <3>2, <4>1
      <4>3. g[i] = f[i] /\ g[i - 1] = f[i - 1]
        BY <2>2, <3>2, <4>1
      <4> QED BY <3>2, <4>2, <4>3
    <3>3. CASE i = n + 1
      <4>1. g[i] = Step(f[n], n) /\ g[n] = f[n] /\ i - 1 = n /\ i # 0
        BY <2>2, <3>3
      <4> QED BY <4>1
    <3> QED BY <3>1, <3>2, <3>3
  <2>4. Is(g, n + 1)
    BY <2>2, <2>3
  <2> QED BY <2>4
<1>3. PagesPer \in S
  <2> HIDE DEF S
  <2> QED BY <1>1, <1>2, SetInduction, ClassFacts
<1>4. PICK f : f = CHOOSE x : Is(x, PagesPer)
  OBVIOUS
<1>5. Is(f, PagesPer)
  BY <1>3, <1>4
<1>6. segment_free(h, s) = f[PagesPer]
  BY <1>4 DEF segment_free, a, Step, Drop
<1>7. f[0] = a
  BY <1>5, ClassFacts
<1>8. ASSUME NEW i \in 0..(PagesPer - 1) PROVE f[i + 1] = Step(f[i], i)
  <2>1. i + 1 \in 0..PagesPer /\ i + 1 # 0 /\ (i + 1) - 1 = i
    BY ClassFacts
  <2> QED BY <1>5, <2>1
<1> QED BY <1>6, <1>7, <1>8 DEF a, Step, SegmentFreeRun

(* segment_init_small gives the segment its pages, all of them unused. *)
LEMMA InitSmallLemma ==
    ASSUME NEW h, NEW s, NEW g, NEW T, NEW I, NEW U, NEW X,
           Sound(h, h.kind, T, I, U, X), X = {}, s \in Seg, h.kind[s] = "none",
           g = segment_init_small(h, s)
    PROVE  \E W : /\ Sound(g, g.kind, T, I, W, X) /\ Untouched(h, g, I)
                  /\ g.kind = [h.kind EXCEPT ![s] = "small"]
<1>0. PICK f : InitSmallRun(f, h, s)
  BY InitSmallLoop
<1>1. /\ f[0] = [h EXCEPT !.kind[s] = "small", !.usedPages[s] = 0]
      /\ \A i \in 0..(PagesPer - 1) : f[i + 1] = heap_push_unused_page(f[i], <<s, i>>)
      /\ g = f[PagesPer]
  BY <1>0 DEF InitSmallRun
<1>2. PICK k : k = [h.kind EXCEPT ![s] = "small"]
  OBVIOUS
<1>3. k[s] = "small"
  BY <1>2, Fields DEF Sound
<1> DEFINE Rest(Z, i) == \A q \in Page : q \in Z <=> SegOf(q) = s /\ q[2] >= i
           Loop(i) == \E W, Z : /\ Sound(f[i], k, T, I, W, Z) /\ Rest(Z, i)
                                /\ Untouched(h, f[i], I) /\ f[i].kind = k
           S == {i \in Nat : i <= PagesPer => Loop(i)}
<1>4. Loop(0)
  <2>1. PICK v : v = "small"
    OBVIOUS
  <2>2. Opens(h, f[0], s, v)
    BY <1>1, <2>1 DEF Opens, Kinds
  <2>3. PICK Y : Y = PagesOf(f[0].kind, s)
    OBVIOUS
  <2>4. /\ Sound(f[0], f[0].kind, T, I, U, Y) /\ Untouched(h, f[0], I)
        /\ Becomes(h, f[0], s, v)
    BY <2>2, <2>3, OpenSegment
  <2>5. f[0].kind = k
    BY <1>2, <2>1, <2>4 DEF Becomes
  <2>6. Rest(Y, 0)
    BY <1>3, <2>3, <2>5, PageFacts DEF PagesOf, IsPage
  <2> QED BY <2>4, <2>5, <2>6
<1>5. ASSUME NEW i \in Nat, i < PagesPer, Loop(i) PROVE Loop(i + 1)
  <2>1. PICK W, Z : /\ Sound(f[i], k, T, I, W, Z) /\ Rest(Z, i)
                    /\ Untouched(h, f[i], I) /\ f[i].kind = k
    BY <1>5
  <2>2. PICK p : p = <<s, i>>
    OBVIOUS
  <2>3. i \in 0..(PagesPer - 1) /\ p \in Page /\ SegOf(p) = s /\ p[2] = i
    BY <1>5, <2>2, PageFacts, ClassFacts
  <2>4. p \in Z /\ k[SegOf(p)] = "small" /\ f[i + 1] = heap_push_unused_page(f[i], p)
    BY <1>1, <1>3, <2>1, <2>2, <2>3
  <2>5. PICK W1, Z1 : W1 = W \cup {p} /\ Z1 = Z \ {p}
    OBVIOUS
  <2>6. /\ Sound(f[i + 1], k, T, I, W1, Z1)
        /\ f[i + 1].direct = f[i].direct /\ f[i + 1].kind = f[i].kind
        /\ \A q \in I : Same(f[i + 1], f[i], q)
    BY <2>1, <2>4, <2>5, PushUnusedLemma
  <2>7. Rest(Z1, i + 1)
    <3>1. ASSUME NEW q \in Page PROVE q \in Z1 <=> SegOf(q) = s /\ q[2] >= i + 1
      <4>1. q[2] \in Nat /\ (SegOf(q) = s /\ q[2] = i <=> q = p)
        BY <2>2, <2>3, PageFacts
      <4> QED BY <2>1, <2>5, <4>1
    <3> QED BY <3>1
  <2>8. Untouched(h, f[i + 1], I)
    BY <2>1, <2>6 DEF Untouched, Same
  <2> QED BY <2>1, <2>6, <2>7, <2>8
<1>6. Loop(PagesPer)
  <2> HIDE DEF Loop
  <2>1. 0 \in S
    BY <1>4
  <2>2. ASSUME NEW i \in Nat, i \in S PROVE i + 1 \in S
    <3>1. CASE i < PagesPer
      <4>1. Loop(i)
        BY <2>2, <3>1, ClassFacts
      <4>2. Loop(i + 1)
        BY <1>5, <3>1, <4>1
      <4> QED BY <4>2
    <3>2. CASE ~(i < PagesPer)
      BY <3>2, ClassFacts
    <3> QED BY <3>1, <3>2
  <2>3. PagesPer \in S
    <3> HIDE DEF S
    <3> QED BY <2>1, <2>2, SetInduction, ClassFacts
  <2> QED BY <2>3, ClassFacts
<1>7. PICK W, Z : /\ Sound(g, k, T, I, W, Z) /\ Rest(Z, PagesPer)
                  /\ Untouched(h, g, I) /\ g.kind = k
  BY <1>1, <1>6
<1>8. Z = X
  <2>1. Z \in SUBSET Page
    BY <1>7 DEF Sound, Members
  <2>2. \A q \in Page : ~(q[2] >= PagesPer)
    BY PageFacts, ClassFacts
  <2> QED BY <1>7, <2>1, <2>2
<1> QED BY <1>2, <1>7, <1>8

LEMMA UntouchedOK ==
    ASSUME NEW h, NEW g, NEW I, Untouched(h, g, I)
    PROVE  /\ FullOK(h, I) => FullOK(g, I)
           /\ \A n : DirectOK(h, I, n) => DirectOK(g, I, n)
BY DEF Untouched, FullOK, DirectOK, Same

(* segment_free takes the pages of a segment without a page in use, and    *)
(* the segment is no longer in use itself.                                 *)
LEMMA SegmentFreeLemma ==
    ASSUME NEW h, NEW s, NEW g, NEW T, NEW I, NEW U, NEW X, NEW Y,
           Sound(h, h.kind, T, I, U, X), s \in Seg, \A q \in I : SegOf(q) # s,
           \A q \in X : SegOf(q) = s, g = segment_free(h, s), Y = {}
    PROVE  \E W : Sound(g, g.kind, T, I, W, Y) /\ Untouched(h, g, I)
<1>0. PICK f : SegmentFreeRun(f, h, s)
  BY SegmentFreeLoop
<1>1. /\ f[0] = [h EXCEPT !.kind[s] = "none"]
      /\ \A i \in 0..(PagesPer - 1) : f[i + 1] = Drop(f[i], <<s, i>>)
      /\ g = f[PagesPer]
  BY <1>0 DEF SegmentFreeRun
<1>2. PICK k, m : k = h.kind /\ m = [k EXCEPT ![s] = "none"]
  OBVIOUS
<1>3. /\ h \in HeapType /\ k \in [Seg -> Kinds] /\ Members(k, I, U, X)
      /\ I \in SUBSET Page /\ U \in SUBSET Page /\ X \in SUBSET Page
  BY <1>2, Fields DEF Sound, Members, Kinds
<1> DEFINE Rest(W, i) == \A q \in Page : q \in W <=> q \in U /\ ~(SegOf(q) = s /\ q[2] < i)
           Loop(i) == \E W, Z : /\ Sound(f[i], k, T, I, W, Z) /\ Rest(W, i)
                                /\ Untouched(h, f[i], I) /\ f[i].kind = m
           S == {i \in Nat : i <= PagesPer => Loop(i)}
<1>4. Loop(0)
  <2>1. /\ f[0].list = h.list /\ f[0].free = h.free /\ f[0].local = h.local
        /\ f[0].used = h.used /\ f[0].class = h.class /\ f[0].full = h.full
        /\ f[0].direct = h.direct /\ f[0].kind = m /\ f[0].usedPages = h.usedPages
        /\ f[0] = [h EXCEPT !.kind = f[0].kind]
    BY <1>1, <1>2, <1>3 DEF HeapType
  <2>2. m \in [Seg -> Kinds]
    BY <1>2, <1>3 DEF Kinds
  <2>3. f[0] \in HeapType
    BY <1>3, <2>1, <2>2 DEF HeapType, Kinds
  <2>4. Homes(f[0], I, U) = Homes(h, I, U)
    BY <2>1 DEF Homes, Home
  <2>5. \A q \in I : Same(f[0], h, q)
    BY <2>1 DEF Same
  <2>6. \A q \in I : PageOK(f[0], T, q)
    <3>1. \A q \in I : Same(f[0], h, q) /\ PageOK(h, T, q)
      BY <2>5 DEF Sound
    <3> QED BY <3>1, SamePages
  <2>7. Sound(f[0], k, T, I, U, X)
    <3>1. Counted(f[0], k, I) /\ T \in SUBSET (I \X AnyBlock)
      BY <1>2, <2>1 DEF Sound, Counted
    <3>2. Lists(f[0].list, Heads, Page, Homes(f[0], I, U))
      BY <2>1, <2>4 DEF Sound
    <3> QED BY <1>3, <2>3, <2>6, <3>1, <3>2 DEF Sound
  <2>8. Rest(U, 0)
    BY PageFacts
  <2>9. Untouched(h, f[0], I)
    BY <2>1, <2>5 DEF Untouched
  <2> QED BY <2>1, <2>7, <2>8, <2>9
<1>5. ASSUME NEW i \in Nat, i < PagesPer, Loop(i) PROVE Loop(i + 1)
  <2>1. PICK W, Z : /\ Sound(f[i], k, T, I, W, Z) /\ Rest(W, i)
                    /\ Untouched(h, f[i], I) /\ f[i].kind = m
    BY <1>5
  <2>2. PICK p : p = <<s, i>>
    OBVIOUS
  <2>3. i \in 0..(PagesPer - 1) /\ p \in Page /\ SegOf(p) = s /\ p[2] = i /\ p \notin I
    BY <1>5, <2>2, PageFacts, ClassFacts
  <2>4. f[i + 1] = Drop(f[i], p)
    BY <1>1, <2>2, <2>3
  <2>5. PICK W1, Z1 : /\ Sound(f[i + 1], k, T, I, W1, Z1) /\ Untouched(f[i], f[i + 1], I)
                      /\ f[i + 1].kind = f[i].kind /\ W1 = W \ {p}
    BY <2>1, <2>3, <2>4, DropPage
  <2>6. Rest(W1, i + 1)
    <3>1. ASSUME NEW q \in Page PROVE q \in W1 <=> q \in U /\ ~(SegOf(q) = s /\ q[2] < i + 1)
      <4>1. q[2] \in Nat /\ (SegOf(q) = s /\ q[2] = i <=> q = p)
        BY <2>2, <2>3, PageFacts
      <4> QED BY <2>1, <2>5, <4>1
    <3> QED BY <3>1
  <2>7. Untouched(h, f[i + 1], I)
    BY <2>1, <2>5 DEF Untouched, Same
  <2> QED BY <2>1, <2>5, <2>6, <2>7
<1>6. Loop(PagesPer)
  <2> HIDE DEF Loop
  <2>1. 0 \in S
    BY <1>4
  <2>2. ASSUME NEW i \in Nat, i \in S PROVE i + 1 \in S
    <3>1. CASE i < PagesPer
      <4>1. Loop(i)
        BY <2>2, <3>1, ClassFacts
      <4>2. Loop(i + 1)
        BY <1>5, <3>1, <4>1
      <4> QED BY <4>2
    <3>2. CASE ~(i < PagesPer)
      BY <3>2, ClassFacts
    <3> QED BY <3>1, <3>2
  <2>3. PagesPer \in S
    <3> HIDE DEF S
    <3> QED BY <2>1, <2>2, SetInduction, ClassFacts
  <2> QED BY <2>3, ClassFacts
<1>7. PICK W, Z : /\ Sound(g, k, T, I, W, Z) /\ Rest(W, PagesPer)
                  /\ Untouched(h, g, I) /\ g.kind = m
  BY <1>1, <1>6
<1>8. Z = PagesOf(k, s)
  <2>1. Members(k, I, W, Z) /\ Z \in SUBSET Page
    BY <1>7 DEF Sound, Members
  <2>2. \A q \in Page : q \in W <=> q \in U /\ SegOf(q) # s
    <3>1. \A q \in Page : q[2] < PagesPer
      BY PageFacts, ClassFacts
    <3> QED BY <1>7, <3>1
  <2>3. ASSUME NEW q \in Page PROVE q \in Z <=> SegOf(q) = s /\ IsPage(k, q)
    <3>1. CASE SegOf(q) = s
      BY <1>3, <2>1, <2>2, <3>1 DEF Members
    <3>2. CASE SegOf(q) # s
      <4>1. q \notin X
        BY <3>2
      <4> QED BY <1>3, <2>1, <2>2, <3>2, <4>1 DEF Members
    <3> QED BY <3>1, <3>2
  <2> QED BY <2>1, <2>3 DEF PagesOf
<1>9. g.kind = [k EXCEPT ![s] = "none"] /\ Sound(g, k, T, I, W, Z) /\ k \in [Seg -> Kinds]
  BY <1>2, <1>3, <1>7
<1>10. Sound(g, g.kind, T, I, W, Y)
  BY <1>8, <1>9, CloseSegment
<1> QED BY <1>7, <1>10

(* page_new_large and page_new_huge take the page of a new segment. *)
LEMMA NewSingleLemma ==
    ASSUME NEW h, NEW s, NEW c, NEW g, NEW T, NEW I, NEW U, NEW X, NEW p, NEW J,
           Sound(h, h.kind, T, I, U, X), X = {}, FullOK(h, I), DirectOK(h, I, NDirect),
           s \in Seg, h.kind[s] = "none", c \in Class, ~(c < NSmall),
           g = page_new_single(h, s, c), p = <<s, 0>>, J = I \cup {p}
    PROVE  /\ Sound(g, g.kind, T, J, U, X) /\ FullOK(g, J) /\ DirectOK(g, J, NDirect)
           /\ Fresh(g, p, c) /\ p \in Page /\ p \notin I
<1>1. /\ h \in HeapType /\ Members(h.kind, I, U, X)
      /\ I \in SUBSET Page /\ U \in SUBSET Page
  BY DEF Sound, Members
<1>2. /\ p \in Page /\ SegOf(p) = s /\ p[2] = 0
      /\ p \notin I \cup U /\ ~(c < NDirect)
  <2>1. 0 \in 0..(PagesPer - 1)
    BY ClassFacts
  <2>2. p \in Page /\ SegOf(p) = s /\ p[2] = 0
    BY <2>1, PageFacts
  <2>3. p \notin I \cup U
    BY <1>1, <2>2 DEF Members, IsPage
  <2>4. ~(c < NDirect)
    BY HeapConstants, ClassFacts
  <2> QED BY <2>2, <2>3, <2>4
<1>3. PICK v : v = (IF c = HUGE THEN "huge" ELSE "large")
  OBVIOUS
<1>4. PICK z : z = Zero(h, p)
  OBVIOUS
<1>5. PICK o : o = [z EXCEPT !.kind[s] = v, !.usedPages[s] = 0]
  OBVIOUS
<1>6. /\ Sound(z, h.kind, T, I, U, X) /\ z.direct = h.direct /\ z.kind = h.kind
      /\ \A q \in I : Same(z, h, q)
  BY <1>2, <1>4, ZeroLemma
<1>7. Opens(z, o, s, v) /\ Sound(z, z.kind, T, I, U, X)
  BY <1>3, <1>5, <1>6 DEF Opens, Kinds
<1>8. PICK Y : Y = PagesOf(o.kind, s)
  OBVIOUS
<1>9. /\ Sound(o, o.kind, T, I, U, Y) /\ Untouched(z, o, I)
      /\ Becomes(z, o, s, v)
  <2>1. X = {}
    OBVIOUS
  <2> QED BY ONLY <1>7, <1>8, <2>1, OpenSegment
<1>10. o \in HeapType /\ o.kind[s] = v
  <2>1. o \in HeapType /\ z \in HeapType
    BY <1>7, <1>9 DEF Sound
  <2> QED BY <1>9, <2>1, Fields DEF Becomes
<1>11. Y = {p}
  <2>1. ASSUME NEW q \in Page PROVE SegOf(q) = s /\ IsPage(o.kind, q) <=> q = p
    <3>1. q = <<SegOf(q), q[2]>>
      BY PageFacts
    <3> QED BY <1>2, <1>3, <1>10, <3>1 DEF IsPage
  <2> QED BY <1>2, <1>8, <2>1 DEF PagesOf
<1>12. g = [o EXCEPT !.list = list_push(@, PagesHead(c), p),
                     !.free[p] = IF c = HUGE THEN {HugeBlock} ELSE Block,
                     !.local[p] = {}, !.used[p] = 0, !.class[p] = c, !.full[p] = FALSE,
                     !.usedPages[s] = @ + 1]
  <2>1. o = segment_init_single(h, s, v)
    BY <1>4, <1>5 DEF segment_init_single
  <2>2. g = [page_init(o, p, c) EXCEPT !.usedPages[s] = @ + 1]
    BY <1>3, <2>1 DEF page_new_single
  <2>3. page_init(o, p, c) = [o EXCEPT !.list = list_push(@, PagesHead(c), p),
                     !.free[p] = IF c = HUGE THEN {HugeBlock} ELSE Block,
                     !.local[p] = {}, !.used[p] = 0, !.class[p] = c, !.full[p] = FALSE]
    BY <1>2 DEF page_init, heap_update_pages_direct
  <2> QED BY <1>10, <2>2, <2>3 DEF HeapType
<1>13. NewPage(o, g, p, c) /\ g.kind = o.kind /\ g.direct = o.direct
  <2>1. /\ g.list = list_push(o.list, PagesHead(c), p)
        /\ g.free = [o.free EXCEPT ![p] = IF c = HUGE THEN {HugeBlock} ELSE Block]
        /\ g.local = [o.local EXCEPT ![p] = {}] /\ g.used = [o.used EXCEPT ![p] = 0]
        /\ g.class = [o.class EXCEPT ![p] = c] /\ g.full = [o.full EXCEPT ![p] = FALSE]
        /\ g.usedPages = [o.usedPages EXCEPT ![s] = @ + 1]
        /\ g.direct = o.direct /\ g.kind = o.kind
        /\ g = [list |-> g.list, free |-> g.free, local |-> g.local, used |-> g.used,
                class |-> g.class, full |-> g.full, direct |-> g.direct, kind |-> g.kind,
                usedPages |-> g.usedPages]
    <3>1. o = [list |-> o.list, free |-> o.free, local |-> o.local, used |-> o.used,
               class |-> o.class, full |-> o.full, direct |-> o.direct, kind |-> o.kind,
               usedPages |-> o.usedPages]
      BY <1>10 DEF HeapType
    <3> QED BY ONLY <1>12, <3>1
  <2>2. /\ o.direct \in [0..(NDirect - 1) -> Page]
        /\ o.kind \in [Seg -> {"none", "small", "large", "huge"}]
    BY <1>10, Fields
  <2> QED BY <1>2, <2>1, <2>2 DEF NewPage
<1>14. Moves(p, Y, X, I, J)
  BY <1>11 DEF Moves
<1>15. PICK k : k = o.kind
  OBVIOUS
<1>16. /\ Sound(g, k, T, J, U, X) /\ Fresh(g, p, c)
       /\ \A q \in I : Same(g, o, q)
       /\ FullOK(o, I) => FullOK(g, J)
  <2>1. Sound(o, k, T, I, U, Y) /\ c \in Class
    BY <1>9, <1>15
  <2> QED BY ONLY <1>13, <1>14, <2>1, NewPageLemma
<1>17. FullOK(o, I) /\ DirectOK(o, I, NDirect)
  <2>1. Untouched(h, o, I)
    BY <1>6, <1>9 DEF Untouched, Same
  <2> QED BY <2>1, UntouchedOK
<1>18. DirectOK(g, J, NDirect)
  BY <1>13, <1>16, <1>17 DEF DirectOK, Same
<1> QED BY <1>2, <1>13, <1>15, <1>16, <1>17, <1>18

-----------------------------------------------------------------------------
(* page_free and free.                                                     *)

(* A heap between two operations. *)
Good(h, T, I, U) ==
    Sound(h, h.kind, T, I, U, {}) /\ FullOK(h, I) /\ DirectOK(h, I, NDirect)

HeapOK(h, T) == \E I, U : Good(h, T, I, U)

(* A page that page_free does not keep has company on its list, if the     *)
(* class has an entry in pages_direct.                                     *)
LEMMA Company ==
    ASSUME NEW h, NEW k, NEW T, NEW I, NEW U, NEW X, NEW p,
           Sound(h, k, T, I, U, X), p \in I, ~h.full[p], h.class[p] < NDirect, ~KeepsPage(h, p)
    PROVE  \E q \in I \ {p} : h.class[q] = h.class[p] /\ ~h.full[q]
<1>1. /\ h \in HeapType /\ I \in SUBSET Page /\ U \in SUBSET Page /\ p \in Page /\ I \cap U = {}
      /\ Lists(h.list, Heads, Page, Homes(h, I, U))
  BY DEF Sound, Members
<1>2. PICK c : c = h.class[p]
  OBVIOUS
<1>3. c \in Class /\ PagesHead(c) \in Heads /\ PagesHead(c) # UnusedHead /\ PagesHead(c) # FullHead
  BY <1>1, <1>2, Fields, HeadFacts
<1>4. Home(h, p) = PagesHead(c)
  BY <1>2 DEF Home
<1>5. PICK d : d = PagesHead(c)
  OBVIOUS
<1>6. ASSUME NEW P, P = Homes(h, I, U) PROVE p \in P[d] /\ P[d] # {p}
  <2>1. Lists(h.list, Heads, Page, P) /\ d \in Heads /\ p \in P[d]
    BY <1>1, <1>3, <1>4, <1>5, <1>6, WhichList
  <2>2. h.list.prev[p] # h.list.next[p]
    BY DEF KeepsPage
  <2> QED BY ONLY <2>1, <2>2, MemberLemma
<1>7. PICK q : q \in Homes(h, I, U)[d] /\ q # p
  BY <1>6
<1>8. q \in Page
  BY <1>1, <1>3, <1>5, <1>7, HomeFacts
<1>9. q \in I /\ Home(h, q) = PagesHead(c)
  BY <1>1, <1>3, <1>5, <1>7, <1>8, HomeFacts
<1>10. ~h.full[q]
  BY <1>3, <1>9 DEF Home
<1>11. PagesHead(h.class[q]) = PagesHead(c) /\ h.class[q] \in Class
  BY <1>1, <1>8, <1>9, <1>10, Fields DEF Home
<1>12. h.class[q] = c
  BY <1>3, <1>11, HeadFacts
<1> QED BY <1>2, <1>7, <1>9, <1>10, <1>12

(* The last page of a segment, and the only page of a large or huge one.   *)
LEMMA LastPage ==
    ASSUME NEW h, NEW k, NEW T, NEW I, NEW U, NEW X, NEW p,
           Sound(h, k, T, I, U, X), p \in I
    PROVE  /\ h.usedPages[SegOf(p)] = 1 => \A q \in I \ {p} : SegOf(q) # SegOf(p)
           /\ h.usedPages[SegOf(p)] # 1 => k[SegOf(p)] = "small"
<1>1. /\ I \in SUBSET Page /\ p \in Page /\ Members(k, I, U, X)
  BY DEF Sound, Members
<1>2. SegOf(p) \in Seg /\ IsPage(k, p) /\ k[SegOf(p)] # "none"
  BY <1>1, PageFacts DEF Members, IsPage
<1>3. h.usedPages[SegOf(p)] = Cardinality(PagesIn(I, SegOf(p)))
  BY <1>2 DEF Sound, Counted
<1>4. PICK J : J = I \ {p}
  OBVIOUS
<1>5. I \in SUBSET Page /\ p \in I /\ J = I \ {p} /\ J \in SUBSET Page
  BY <1>1, <1>4
<1>6. Cardinality(PagesIn(J, SegOf(p))) = Cardinality(PagesIn(I, SegOf(p))) - 1
  BY ONLY <1>5, RemoveFromPages
<1>7. /\ Cardinality(PagesIn(J, SegOf(p))) \in Nat /\ Cardinality(PagesIn(I, SegOf(p))) \in Nat
      /\ Cardinality(PagesIn(J, SegOf(p))) = 0 => PagesIn(J, SegOf(p)) = {}
  BY ONLY <1>5, PagesInFinite
<1>8. ASSUME h.usedPages[SegOf(p)] = 1 PROVE \A q \in J : SegOf(q) # SegOf(p)
  <2>1. PagesIn(J, SegOf(p)) = {}
    BY <1>3, <1>6, <1>7, <1>8
  <2> QED BY <2>1 DEF PagesIn
<1>9. ASSUME k[SegOf(p)] # "small" PROVE h.usedPages[SegOf(p)] = 1
  <2>1. ASSUME NEW q \in J, SegOf(q) = SegOf(p) PROVE FALSE
    <3>1. q \in Page /\ IsPage(k, q) /\ q # p
      BY <1>1, <1>4 DEF Members
    <3>2. q = <<SegOf(q), q[2]>> /\ p = <<SegOf(p), p[2]>>
      BY <1>1, <3>1, PageFacts
    <3>3. q[2] = 0 /\ p[2] = 0
      BY <1>2, <1>9, <2>1, <3>1 DEF IsPage
    <3> QED BY <2>1, <3>1, <3>2, <3>3
  <2>2. PagesIn(J, SegOf(p)) = {}
    BY <2>1 DEF PagesIn
  <2>3. Cardinality(PagesIn(J, SegOf(p))) = 0
    BY <2>2, FS_EmptySet
  <2> QED BY <1>3, <1>6, <1>7, <2>3
<1> QED BY <1>4, <1>8, <1>9

(* page_free takes a page without taken blocks out of use, or keeps it. *)
LEMMA PageFreeLemma ==
    ASSUME NEW h, NEW T, NEW I, NEW U, NEW X, NEW p, NEW g, NEW J,
           Sound(h, h.kind, T, I, U, X), X = {}, J = I \ {p}, FullOK(h, J),
           DirectOK(h, I, NDirect), p \in I, h.used[p] = 0,
           h.full[p] => h.class[p] = HUGE, g = page_free(h, p)
    PROVE  HeapOK(g, T)
<1>1. /\ h \in HeapType /\ I \in SUBSET Page /\ U \in SUBSET Page /\ p \in Page
      /\ J \in SUBSET Page /\ Members(h.kind, I, U, X)
  BY DEF Sound, Members
<1>2. PICK c, s, k : c = h.class[p] /\ s = SegOf(p) /\ k = h.kind
  OBVIOUS
<1>3. c \in Class /\ c \in Nat /\ s \in Seg /\ (c < NDirect => c # HUGE)
  <2>1. c \in Class
    BY <1>1, <1>2, Fields
  <2>2. s \in Seg
    BY <1>1, <1>2, PageFacts
  <2> QED BY <2>1, <2>2, ClassFacts
<1>4. CASE KeepsPage(h, p)
  <2>1. ~h.full[p]
    BY <1>2, <1>3, <1>4 DEF KeepsPage
  <2>2. FullOK(h, I)
    BY <2>1 DEF FullOK
  <2>3. g = h
    BY <1>4 DEF page_free
  <2> QED BY <2>2, <2>3 DEF HeapOK, Good
<1>5. CASE ~KeepsPage(h, p)
  <2>1. PICK r : r = [h EXCEPT !.list = list_remove(@, p), !.usedPages[SegOf(p)] = @ - 1]
    OBVIOUS
  <2>2. PICK Y : Y = X \cup {p}
    OBVIOUS
  <2>3. /\ Sound(r, k, T, J, U, Y) /\ r.direct = h.direct /\ r.kind = h.kind
        /\ \A q \in Page : Same(r, h, q)
    <3>1. Sound(h, k, T, I, U, X) /\ Retires(h, r, p) /\ Moves(p, I, J, X, Y)
      BY <1>2, <2>1, <2>2 DEF Retires, Moves
    <3> QED BY ONLY <3>1, RetireLemma
  <2>4. c < NDirect => \E q \in J : r.class[q] = c /\ ~r.full[q]
    <3>1. ASSUME c < NDirect PROVE \E q \in J : h.class[q] = c /\ ~h.full[q]
      BY <1>2, <1>3, <1>5, <3>1, Company
    <3>2. \A q \in J : r.class[q] = h.class[q] /\ r.full[q] = h.full[q]
      BY <1>1, <2>3 DEF Same
    <3> QED BY <3>1, <3>2
  <2>5. PICK f : f = heap_update_pages_direct(r, c)
    OBVIOUS
  <2>6. /\ Sound(f, k, T, J, U, Y) /\ f.kind = r.kind
        /\ \A q \in Page : Same(f, r, q)
        /\ \A e \in 0..(NDirect - 1) :
              IF e = c THEN f.direct[e] \in J /\ r.class[f.direct[e]] = c
                       ELSE f.direct[e] = r.direct[e]
    BY <1>3, <2>3, <2>4, <2>5, DirectLemma
  <2>7. FullOK(f, J)
    BY <1>1, <2>3, <2>6 DEF FullOK, Same
  <2>8. DirectOK(f, J, NDirect)
    <3>1. Updated(h, f, J, c)
      BY <1>1, <2>3, <2>6 DEF Updated, Same
    <3>2. Kept(h, f, I, J, c)
      BY <1>1, <1>2, <2>3, <2>6 DEF Kept, Same
    <3> QED BY ONLY <3>1, <3>2, DirectKept, DirectOK(h, I, NDirect)
  <2>9. f.kind = k /\ Y = {p}
    BY <1>2, <2>2, <2>3, <2>6
  <2>10. CASE FreesSegment(h, p)
    <3>1. g = segment_free(f, s)
      BY <1>2, <1>5, <2>1, <2>5, <2>10 DEF page_free
    <3>2. \A q \in J : SegOf(q) # s
      BY <1>2, <2>10, LastPage DEF FreesSegment
    <3>3. \A q \in Y : SegOf(q) = s
      BY <1>2, <2>9
    <3>4. Sound(f, f.kind, T, J, U, Y) /\ X = {} /\ s \in Seg
      BY <1>3, <2>6, <2>9
    <3>5. PICK W : Sound(g, g.kind, T, J, W, X) /\ Untouched(f, g, J)
      BY ONLY <3>1, <3>2, <3>3, <3>4, SegmentFreeLemma
    <3>6. FullOK(g, J) /\ DirectOK(g, J, NDirect)
      BY <2>7, <2>8, <3>5, UntouchedOK
    <3> QED BY <3>5, <3>6 DEF HeapOK, Good
  <2>11. CASE ~FreesSegment(h, p)
    <3>1. g = heap_push_unused_page(f, p)
      BY <1>2, <1>5, <2>1, <2>5, <2>11 DEF page_free
    <3>2. k[SegOf(p)] = "small" /\ p \in Y
      BY <1>2, <1>5, <2>9, <2>11, LastPage DEF FreesSegment
    <3>3. PICK W : W = U \cup {p}
      OBVIOUS
    <3>4. X = Y \ {p}
      BY <2>9
    <3>5. /\ Sound(g, k, T, J, W, X)
          /\ g.direct = f.direct /\ g.kind = f.kind
          /\ \A q \in J : Same(g, f, q)
      BY <2>6, <3>1, <3>2, <3>3, <3>4, PushUnusedLemma
    <3>6. Untouched(f, g, J) /\ g.kind = k
      BY <2>9, <3>5 DEF Untouched
    <3>7. FullOK(g, J) /\ DirectOK(g, J, NDirect)
      BY <2>7, <2>8, <3>6, UntouchedOK
    <3> QED BY <3>5, <3>6, <3>7 DEF HeapOK, Good
  <2> QED BY <2>10, <2>11
<1> QED BY <1>4, <1>5

(* free gives back a block that was taken. *)
LEMMA FreeBlockLemma ==
    ASSUME NEW h, NEW T, NEW p, NEW b, NEW g, NEW V,
           HeapOK(h, T), <<p, b>> \in T, g = FreeBlock(h, p, b), V = T \ {<<p, b>>}
    PROVE  HeapOK(g, V)
<1>1. PICK I, U : Good(h, T, I, U)
  BY DEF HeapOK
<1>2. PICK X, J, f : X = {} /\ J = I \ {p} /\ f = page_local_free_push(h, p, b)
  OBVIOUS
<1>3. /\ Sound(h, h.kind, T, I, U, X) /\ FullOK(h, I) /\ DirectOK(h, I, NDirect)
  BY <1>1, <1>2 DEF Good
<1>4. /\ p \in I /\ Sound(f, h.kind, V, I, U, X) /\ FullOK(f, J)
      /\ f.list = h.list /\ f.direct = h.direct /\ f.class = h.class /\ f.kind = h.kind
      /\ f.full = h.full /\ f.usedPages = h.usedPages
      /\ f.full[p] /\ f.used[p] = 0 => f.class[p] = HUGE
  BY <1>2, <1>3, LocalFreeLemma
<1>5. Sound(f, f.kind, V, I, U, X) /\ DirectOK(f, I, NDirect)
  BY <1>3, <1>4 DEF DirectOK
<1>6. CASE page_is_empty(f, p)
  <2>1. g = page_free(f, p) /\ f.used[p] = 0
    BY <1>2, <1>6 DEF FreeBlock, page_is_empty
  <2> QED BY <1>2, <1>4, <1>5, <2>1, PageFreeLemma
<1>7. CASE ~page_is_empty(f, p) /\ f.full[p]
  <2>1. g = Unfill(f, p)
    BY <1>2, <1>7 DEF FreeBlock
  <2>2. FullOK(f, I \ {p})
    BY <1>2, <1>4
  <2>3. /\ Sound(g, f.kind, V, I, U, X) /\ FullOK(g, I) /\ DirectOK(g, I, NDirect)
        /\ g.kind = f.kind
    BY <1>4, <1>5, <2>1, <2>2, UnfillLemma
  <2> QED BY <1>2, <2>3 DEF HeapOK, Good
<1>8. CASE ~page_is_empty(f, p) /\ ~f.full[p]
  <2>1. g = f
    BY <1>2, <1>8 DEF FreeBlock
  <2>2. FullOK(f, I)
    BY <1>2, <1>4, <1>8 DEF FullOK
  <2> QED BY <1>2, <1>5, <2>1, <2>2 DEF HeapOK, Good
<1> QED BY <1>6, <1>7, <1>8

-----------------------------------------------------------------------------
(* Calls under way.                                                        *)

VmaCall == {"segment_alloc", "segment_free"}

Frame ==
    [f : {"scan"}, class : Class, page_head : Heads \cup Page]
      \cup [f : {"wait"}, class : Class]
      \cup [f : VmaCall, todo : Seq({"alloc", "free"})]
      \cup [f : {"realloc", "realloc_free"}, class : Class, old : Page \X AnyBlock]

(* What can be under a call: alloc was called by realloc, or by the        *)
(* virtual memory allocator for a struct vma; segment_alloc by alloc.      *)
(* realloc is called by the kernel, and the block that it is to free is    *)
(* one of the blocks hd that the kernel holds.                             *)
CalledBy(fr, below) ==
    CASE fr.f \in {"scan", "wait"} ->
            \/ below.f = "realloc"
            \/ below.f \in VmaCall /\ below.todo # <<>> /\ fr.class = VmaClass
      [] fr.f = "segment_alloc" -> below.f = "wait"
      [] fr.f = "segment_free" -> TRUE
      [] OTHER -> FALSE

Bottom(fr) == fr.f # "segment_alloc"

Owns(fr, hd) == fr.f \in {"realloc", "realloc_free"} => fr.old \in hd

StackOK(st, hd) ==
    /\ st \in Seq(Frame)
    /\ \A i \in 1..Len(st) : Owns(st[i], hd)
    /\ \A i \in 1..(Len(st) - 1) : CalledBy(st[i], st[i + 1])
    /\ Len(st) > 0 => Bottom(st[Len(st)])

LEMMA StackEmpty == ASSUME NEW hd PROVE StackOK(<<>>, hd)
BY DEF StackOK

LEMMA StackPush ==
    ASSUME NEW st, NEW hd, NEW fr, StackOK(st, hd), fr \in Frame, Owns(fr, hd),
           IF st = <<>> THEN Bottom(fr) ELSE CalledBy(fr, Head(st))
    PROVE  StackOK(<<fr>> \o st, hd)
<1>1. st \in Seq(Frame) /\ Len(st) \in Nat
  BY DEF StackOK
<1>2. PICK up : up = <<fr>> \o st
  OBVIOUS
<1>3. /\ up \in Seq(Frame) /\ Len(up) = Len(st) + 1 /\ up[1] = fr
      /\ \A i \in 1..Len(st) : up[i + 1] = st[i]
  BY <1>1, <1>2
<1>4. \A i \in 1..Len(up) : i = 1 \/ (i - 1 \in 1..Len(st) /\ up[i] = st[i - 1])
  BY <1>1, <1>3
<1>5. \A i \in 1..Len(up) : Owns(up[i], hd)
  BY <1>3, <1>4 DEF StackOK
<1>6. ASSUME NEW i \in 1..(Len(up) - 1) PROVE CalledBy(up[i], up[i + 1])
  <2>1. CASE i = 1
    <3>1. st # <<>> /\ up[i + 1] = Head(st) /\ up[i] = fr
      BY <1>1, <1>3, <2>1
    <3> QED BY <3>1
  <2>2. CASE i # 1
    <3>1. i - 1 \in 1..(Len(st) - 1) /\ up[i] = st[i - 1] /\ up[i + 1] = st[(i - 1) + 1]
      BY <1>1, <1>3, <2>2
    <3> QED BY <3>1 DEF StackOK
  <2> QED BY <2>1, <2>2
<1>7. Bottom(up[Len(up)])
  <2>1. CASE st = <<>>
    BY <1>3, <2>1
  <2>2. CASE st # <<>>
    <3>1. Len(st) > 0 /\ up[Len(up)] = st[Len(st)]
      BY <1>1, <1>3, <2>2
    <3> QED BY <3>1 DEF StackOK
  <2> QED BY <2>1, <2>2
<1> QED BY <1>2, <1>3, <1>5, <1>6, <1>7 DEF StackOK

LEMMA StackPop ==
    ASSUME NEW st, NEW hd, StackOK(st, hd), st # <<>>
    PROVE  /\ Head(st) \in Frame /\ Owns(Head(st), hd) /\ StackOK(Tail(st), hd)
           /\ IF Tail(st) = <<>> THEN Bottom(Head(st)) ELSE CalledBy(Head(st), Head(Tail(st)))
<1>1. st \in Seq(Frame) /\ Len(st) \in Nat /\ Len(st) > 0
  BY DEF StackOK
<1>2. PICK t : t = Tail(st)
  OBVIOUS
<1>3. /\ t \in Seq(Frame) /\ Len(t) = Len(st) - 1 /\ Head(st) = st[1] /\ st[1] \in Frame
      /\ \A i \in 1..Len(t) : t[i] = st[i + 1]
  BY <1>1, <1>2
<1>4. Owns(Head(st), hd)
  BY <1>1, <1>3 DEF StackOK
<1>5. \A i \in 1..Len(t) : Owns(t[i], hd)
  BY <1>1, <1>3 DEF StackOK
<1>6. ASSUME NEW i \in 1..(Len(t) - 1) PROVE CalledBy(t[i], t[i + 1])
  <2>1. i + 1 \in 1..(Len(st) - 1) /\ t[i] = st[i + 1] /\ t[i + 1] = st[(i + 1) + 1]
    BY <1>1, <1>3
  <2> QED BY <2>1 DEF StackOK
<1>7. Len(t) > 0 => Bottom(t[Len(t)])
  BY <1>1, <1>3 DEF StackOK
<1>8. IF t = <<>> THEN Bottom(Head(st)) ELSE CalledBy(Head(st), Head(t))
  <2>1. CASE t = <<>>
    <3>1. Len(st) = 1
      BY <1>1, <1>3, <2>1
    <3>2. Bottom(st[Len(st)])
      BY <1>1 DEF StackOK
    <3> QED BY <1>3, <2>1, <3>1, <3>2
  <2>2. CASE t # <<>>
    <3>1. 1 \in 1..(Len(st) - 1) /\ Head(t) = st[1 + 1]
      BY <1>1, <1>3, <2>2
    <3>2. CalledBy(st[1], st[1 + 1])
      BY <3>1 DEF StackOK
    <3> QED BY <1>3, <2>2, <3>1, <3>2
  <2> QED BY <2>1, <2>2
<1> QED BY <1>2, <1>3, <1>4, <1>5, <1>6, <1>7, <1>8 DEF StackOK

LEMMA StackHeld ==
    ASSUME NEW st, NEW hd, NEW hd2, StackOK(st, hd), hd \subseteq hd2
    PROVE  StackOK(st, hd2)
BY DEF StackOK, Owns

(* What the kinds of calls are like. *)
LEMMA FrameFacts ==
    ASSUME NEW fr \in Frame
    PROVE  /\ fr.f \in {"scan", "wait"} => fr.class \in Class
           /\ fr.f \in VmaCall => /\ fr = [f |-> fr.f, todo |-> fr.todo]
                                  /\ fr.todo \in Seq({"alloc", "free"})
           /\ fr.f \in {"realloc", "realloc_free"} =>
                 /\ fr = [f |-> fr.f, class |-> fr.class, old |-> fr.old]
                 /\ fr.class \in Class /\ fr.old \in Page \X AnyBlock
BY DEF Frame, VmaCall

(* The calls that the virtual memory allocator makes are calls of alloc    *)
(* and free.                                                               *)
LEMMA CallFacts ==
    /\ \A todo \in AllocCalls : todo \in Seq({"alloc", "free"})
    /\ \A todo \in FreeCalls : todo \in Seq({"alloc", "free"})
<1> DEFINE S == Seq({"alloc", "free"})
<1>1. /\ <<>> \in S /\ <<"alloc">> \in S /\ <<"alloc", "alloc">> \in S
      /\ <<"free">> \in S /\ <<"free", "free">> \in S /\ <<"alloc", "free">> \in S
  OBVIOUS
<1>2. ASSUME NEW x \in S, NEW y \in S PROVE x \o y \in S
  OBVIOUS
<1>3. ASSUME NEW todo \in AllocCalls PROVE todo \in S
  <2>1. todo \in AllAllocCalls
    BY VmaCalls
  <2>2. PICK x \in {<<>>, <<"alloc", "free">>}, y \in {<<>>, <<"alloc", "free">>},
             z \in {<<>>, <<"alloc">>, <<"alloc", "alloc">>} : todo = x \o y \o z
    BY <2>1 DEF AllAllocCalls
  <2>4. x \in S /\ y \in S /\ z \in S
    BY <1>1
  <2>3. x \o y \in S
    BY <1>2, <2>4
  <2> QED BY <1>2, <2>2, <2>3, <2>4
<1>4. ASSUME NEW todo \in FreeCalls PROVE todo \in S
  BY <1>1, VmaCalls DEF AllFreeCalls
<1> QED BY <1>3, <1>4

-----------------------------------------------------------------------------
(* The inductive invariant.                                                *)

Panics == {"no", "assert", "huge", "out of memory", "stack overflow", "lost"}

IInv ==
    /\ HeapOK(H, held \cup vmas) /\ held \cap vmas = {} /\ vmas \subseteq Page \X Block
    /\ panic \in Panics
    /\ StackOK(stack, held)

(* The lists of a sound heap have the pages that they are to have. *)
LEMMA OnListFacts ==
    ASSUME NEW T, NEW I, NEW U, Good(H, T, I, U)
    PROVE  /\ OnList(UnusedHead) = U
           /\ OnList(FullHead) = {p \in I : H.full[p]}
           /\ \A c \in Class : \A p : p \in OnList(PagesHead(c)) <=>
                                        p \in I /\ H.class[p] = c /\ ~H.full[p]
           /\ I \in SUBSET Page /\ U \in SUBSET Page
<1>1. /\ H \in HeapType /\ I \in SUBSET Page /\ U \in SUBSET Page /\ I \cap U = {}
      /\ Lists(H.list, Heads, Page, Homes(H, I, U))
  BY DEF Good, Sound, Members
<1>2. ASSUME NEW d \in Heads PROVE OnList(d) = Homes(H, I, U)[d]
  BY <1>1, ListOfLemma DEF OnList
<1>3. \A d \in Heads : \A p :
         p \in OnList(d) <=> /\ p \in Page
                             /\ (p \in U /\ d = UnusedHead) \/ (p \in I /\ d = Home(H, p))
  BY <1>2 DEF Homes
<1>4. OnList(UnusedHead) = U
  BY <1>1, <1>2, HomeFacts, HeadFacts
<1>5. \A p \in I : /\ FullHead = Home(H, p) <=> H.full[p]
                   /\ \A c \in Class : PagesHead(c) = Home(H, p) <=> H.class[p] = c /\ ~H.full[p]
  <2>1. \A p \in I : H.class[p] \in Class
    BY <1>1, Fields
  <2> QED BY <2>1, HeadFacts DEF Home
<1>6. OnList(FullHead) = {p \in I : H.full[p]}
  BY <1>1, <1>3, <1>5, HeadFacts
<1>7. ASSUME NEW c \in Class, NEW p
      PROVE  p \in OnList(PagesHead(c)) <=> p \in I /\ H.class[p] = c /\ ~H.full[p]
  BY <1>1, <1>3, <1>5, HeadFacts
<1> QED BY <1>1, <1>4, <1>6, <1>7

(* Taking a free block of a page: it is none of those that are taken. *)
Takes(h, g, T, V, p, b) == b \in h.free[p] /\ g = Pop(h, p, b) /\ V = T \cup {<<p, b>>}

NewBlock(h, T, p, b) ==
    /\ <<p, b>> \notin T /\ <<p, b>> \in Page \X AnyBlock
    /\ h.class[p] # HUGE => <<p, b>> \in Page \X Block

LEMMA PopGood ==
    ASSUME NEW h, NEW T, NEW I, NEW U, NEW p, NEW b, NEW g, NEW V,
           Good(h, T, I, U), p \in I, Takes(h, g, T, V, p, b)
    PROVE  HeapOK(g, V) /\ NewBlock(h, T, p, b)
<1> b \in h.free[p] /\ g = Pop(h, p, b) /\ V = T \cup {<<p, b>>}
  BY DEF Takes
<1>1. PICK X, k : X = {} /\ k = h.kind
  OBVIOUS
<1>2. Sound(h, k, T, I, U, X) /\ FullOK(h, I) /\ DirectOK(h, I, NDirect) /\ p \in Page
  BY <1>1 DEF Good, Sound, Members
<1>3. /\ <<p, b>> \notin T /\ b \in BlocksIn(h, p) /\ b \in AnyBlock
      /\ Sound(g, k, V, I, U, X)
      /\ FullOK(h, I) => FullOK(g, I)
      /\ g.direct = h.direct /\ g.class = h.class /\ g.kind = h.kind
  BY <1>2, PopLemma
<1>4. DirectOK(g, I, NDirect)
  BY <1>2, <1>3 DEF DirectOK
<1>5. Good(g, V, I, U)
  BY <1>1, <1>2, <1>3, <1>4 DEF Good
<1> QED BY <1>2, <1>3, <1>5 DEF HeapOK, BlocksIn, NewBlock

(* A call of alloc returns. *)
Returns(h, rest, block) ==
    /\ HeapOK(h, held \cup vmas \cup block)
    /\ block \cap (held \cup vmas) = {} /\ StackOK(rest, held)
    /\ rest # <<>> /\ Head(rest).f # "realloc" =>
          /\ Head(rest).f \in VmaCall /\ Head(rest).todo # <<>> /\ block \subseteq Page \X Block

LEMMA ReturnLemma ==
    ASSUME NEW h, NEW rest, NEW block, IInv, Returns(h, rest, block), Return(h, rest, block)
    PROVE  IInv'
<1>1. /\ held \cap vmas = {} /\ vmas \subseteq Page \X Block /\ panic \in Panics
      /\ StackOK(rest, held) /\ block \cap (held \cup vmas) = {} /\ H' = h
  BY DEF IInv, Returns, Return
<1>2. CASE rest = <<>> \/ Head(rest).f = "realloc"
  <2>1. held' = held \cup block /\ stack' = AfterRealloc(rest, block) /\ vmas' = vmas /\ panic' = panic
    BY <1>2 DEF Return
  <2>2. HeapOK(H', held' \cup vmas')
    <3>1. held' \cup vmas' = held \cup vmas \cup block
      BY <2>1
    <3> QED BY <1>1, <3>1 DEF Returns
  <2>3. StackOK(stack', held')
    <3>1. CASE rest = <<>> \/ block = {}
      <4>1. stack' = <<>>
        BY <2>1, <3>1 DEF AfterRealloc
      <4> QED BY <4>1, StackEmpty
    <3>2. CASE rest # <<>> /\ block # {}
      <4>1. PICK fr : fr = [Head(rest) EXCEPT !.f = "realloc_free"]
        OBVIOUS
      <4>2. Head(rest) \in Frame /\ Owns(Head(rest), held) /\ Head(rest).f = "realloc"
        BY <1>1, <1>2, <3>2, StackPop
      <4>3. /\ Head(rest) = [f |-> Head(rest).f, class |-> Head(rest).class, old |-> Head(rest).old]
            /\ Head(rest).class \in Class /\ Head(rest).old \in Page \X AnyBlock
        BY <4>2, FrameFacts
      <4>4. /\ fr = [f |-> "realloc_free", class |-> Head(rest).class, old |-> Head(rest).old]
        BY <4>1, <4>3
      <4>5. fr \in Frame /\ Bottom(fr)
        BY <4>3, <4>4 DEF Frame, Bottom
      <4>6. Owns(fr, held')
        BY <2>1, <4>2, <4>4 DEF Owns
      <4>7. StackOK(<<fr>> \o <<>>, held')
        BY <4>5, <4>6, StackEmpty, StackPush
      <4>8. stack' = <<fr>>
        BY <2>1, <3>2, <4>1 DEF AfterRealloc
      <4>9. <<fr>> \o <<>> = <<fr>>
        OBVIOUS
      <4> QED BY <4>7, <4>8, <4>9
    <3> QED BY <3>1, <3>2
  <2> QED BY <1>1, <2>1, <2>2, <2>3 DEF IInv
<1>3. CASE rest # <<>> /\ Head(rest).f # "realloc"
  <2>1. /\ vmas' = vmas \cup block /\ held' = held
        /\ stack' = <<[Head(rest) EXCEPT !.todo = Tail(@)]>> \o Tail(rest)
        /\ panic' \in {panic, "out of memory"}
    BY <1>3 DEF Return
  <2>2. Head(rest).f \in VmaCall /\ Head(rest).todo # <<>> /\ block \subseteq Page \X Block
    BY <1>3 DEF Returns
  <2>3. HeapOK(H', held' \cup vmas')
    <3>1. held' \cup vmas' = held \cup vmas \cup block
      BY <2>1
    <3> QED BY <1>1, <3>1 DEF Returns
  <2>4. StackOK(stack', held')
    <3>1. PICK fr : fr = [Head(rest) EXCEPT !.todo = Tail(@)]
      OBVIOUS
    <3>2. /\ Head(rest) \in Frame /\ StackOK(Tail(rest), held)
          /\ IF Tail(rest) = <<>> THEN Bottom(Head(rest))
                                  ELSE CalledBy(Head(rest), Head(Tail(rest)))
      BY <1>1, <1>3, StackPop
    <3>3. /\ Head(rest) = [f |-> Head(rest).f, todo |-> Head(rest).todo]
          /\ Head(rest).todo \in Seq({"alloc", "free"})
      BY <2>2, <3>2, FrameFacts
    <3>4. Tail(Head(rest).todo) \in Seq({"alloc", "free"})
      BY <2>2, <3>3
    <3>5. fr = [f |-> Head(rest).f, todo |-> Tail(Head(rest).todo)]
      BY <3>1, <3>3
    <3>6. fr \in Frame /\ fr.f = Head(rest).f
      BY <2>2, <3>4, <3>5 DEF Frame
    <3>7. IF Tail(rest) = <<>> THEN Bottom(fr) ELSE CalledBy(fr, Head(Tail(rest)))
      BY <2>2, <3>2, <3>6 DEF Bottom, CalledBy, VmaCall
    <3>8. Owns(fr, held)
      BY <2>2, <3>6 DEF Owns, VmaCall
    <3>9. StackOK(<<fr>> \o Tail(rest), held)
      BY <3>2, <3>6, <3>7, <3>8, StackPush
    <3> QED BY <2>1, <3>1, <3>9
  <2>5. panic' \in Panics
    BY <1>1, <2>1 DEF Panics
  <2> QED BY <1>1, <2>1, <2>2, <2>3, <2>4, <2>5 DEF IInv
<1> QED BY <1>2, <1>3

-----------------------------------------------------------------------------
(* The actions.                                                            *)

(* Who calls alloc. *)
LEMMA CallerFacts ==
    ASSUME NEW c \in Class, Caller(c)
    PROVE  stack # <<>> /\ Head(stack).f # "realloc" =>
              Head(stack).f \in VmaCall /\ Head(stack).todo # <<>> /\ c = VmaClass
BY DEF Caller, InVma, Top, VmaCall

LEMMA AllocSmallStep ==
    ASSUME IInv, NEW c \in Class, alloc_small(c)
    PROVE  IInv'
<1>1. PICK T : T = held \cup vmas
  OBVIOUS
<1>2. PICK I, U : Good(H, T, I, U)
  BY <1>1 DEF IInv, HeapOK
<1>3. PICK p : p = H.direct[c]
  OBVIOUS
<1>4. p \in I /\ H.class[p] = c /\ c # HUGE
  <2>0. c < NDirect
    BY DEF alloc_small
  <2>1. c < NDirect /\ c \in 0..(NDirect - 1)
    BY <2>0, ClassFacts
  <2>2. c # HUGE
    BY <2>1, ClassFacts
  <2> QED BY <1>2, <1>3, <2>1, <2>2 DEF Good, DirectOK
<1>5. PICK b \in H.free[p] : Return(Pop(H, p, b), stack, {<<p, b>>})
  BY <1>3 DEF alloc_small
<1>6. PICK h, V : h = Pop(H, p, b) /\ V = T \cup {<<p, b>>}
  OBVIOUS
<1>7. HeapOK(h, V) /\ NewBlock(H, T, p, b)
  <2>1. Takes(H, h, T, V, p, b)
    BY <1>5, <1>6 DEF Takes
  <2> QED BY <1>2, <1>4, <2>1, PopGood
<1>8. Returns(h, stack, {<<p, b>>})
  <2>1. Caller(c)
    BY DEF alloc_small
  <2> QED BY <1>1, <1>4, <1>6, <1>7, <2>1, CallerFacts DEF Returns, IInv, NewBlock
<1> QED BY <1>5, <1>6, <1>8, ReturnLemma

(* segment_alloc starts. *)
LEMMA GrowStep ==
    ASSUME IInv, NEW c \in Class, NEW rest, StackOK(rest, held), Grow(c, rest),
           rest # <<>> => CalledBy(Wait(c), Head(rest))
    PROVE  IInv'
<1>1. PICK todo \in AllocCalls : stack' = <<SegmentAlloc(todo), Wait(c)>> \o rest
  BY DEF Grow
<1>2. H' = H /\ held' = held /\ vmas' = vmas /\ panic' = panic
  BY DEF Grow
<1>3. PICK w, a, st : w = Wait(c) /\ a = SegmentAlloc(todo) /\ st = <<w>> \o rest
  OBVIOUS
<1>4. w \in Frame /\ Bottom(w) /\ Owns(w, held) /\ w.f = "wait"
  BY <1>3 DEF Wait, Frame, Bottom, Owns
<1>5. StackOK(st, held)
  BY <1>3, <1>4, StackPush
<1>6. a \in Frame /\ Owns(a, held) /\ a.f = "segment_alloc"
  BY <1>3, CallFacts DEF SegmentAlloc, Frame, Owns, VmaCall
<1>7. rest \in Seq(Frame)
  BY DEF StackOK
<1>8. st # <<>> /\ Head(st) = w
  BY <1>3, <1>4, <1>7
<1>9. CalledBy(a, Head(st))
  BY <1>4, <1>6, <1>8 DEF CalledBy
<1>10. StackOK(<<a>> \o st, held)
  BY <1>5, <1>6, <1>8, <1>9, StackPush
<1>11. stack' = <<a>> \o st
  BY <1>1, <1>3, <1>4, <1>6, <1>7
<1> QED BY <1>2, <1>10, <1>11 DEF IInv

LEMMA PanicStep ==
    ASSUME IInv, NEW why \in Panics, Panic(why)
    PROVE  IInv'
BY DEF IInv, Panic

LEMMA AllocGenericStep ==
    ASSUME IInv, NEW c \in Class, alloc_generic(c)
    PROVE  IInv'
<1>1. StackOK(stack, held) /\ Caller(c)
  BY DEF IInv, alloc_generic
<1>2. CASE Depth = MaxDepth
  <2>1. PICK why : why = "stack overflow"
    OBVIOUS
  <2>2. why \in Panics /\ Panic(why)
    BY <1>2, <2>1 DEF alloc_generic, Panics
  <2> QED BY <2>2, PanicStep
<1>3. CASE Depth # MaxDepth /\ c = HUGE
  <2>1. Grow(c, stack)
    BY <1>3 DEF alloc_generic
  <2>2. stack # <<>> => CalledBy(Wait(c), Head(stack))
    BY <1>1, CallerFacts DEF CalledBy, Wait
  <2> QED BY <1>1, <2>1, <2>2, GrowStep
<1>4. CASE Depth # MaxDepth /\ c # HUGE
  <2>1. PICK fr : fr = Scan(c, H.list.next[PagesHead(c)])
    OBVIOUS
  <2>2. stack' = <<fr>> \o stack /\ H' = H /\ held' = held /\ vmas' = vmas /\ panic' = panic
    BY <1>4, <2>1 DEF alloc_generic
  <2>3. H.list.next[PagesHead(c)] \in Heads \cup Page
    <3>1. H \in HeapType
      BY DEF IInv, HeapOK, Good, Sound
    <3>2. H.list.next \in [Heads \cup Page -> Heads \cup Page]
      BY <3>1, Fields DEF LinkType
    <3> QED BY <3>2, HeadFacts
  <2>4. fr \in Frame /\ Bottom(fr) /\ Owns(fr, held)
    BY <2>1, <2>3 DEF Scan, Frame, Bottom, Owns
  <2>5. stack # <<>> => CalledBy(fr, Head(stack))
    BY <1>1, <2>1, CallerFacts DEF CalledBy, Scan
  <2>6. StackOK(<<fr>> \o stack, held)
    BY <1>1, <2>4, <2>5, StackPush
  <2> QED BY <2>2, <2>6 DEF IInv
<1> QED BY <1>2, <1>3, <1>4

(* free, for the caller whose call is in rest. *)
LEMMA FreeLemma ==
    ASSUME NEW block, NEW rest, NEW hd, NEW T, HeapOK(H, T), T \subseteq Page \X AnyBlock,
           block \in T, StackOK(rest, hd), Free(block, rest)
    PROVE  HeapOK(H', T \ {block}) /\ StackOK(stack', hd) /\ panic' = panic
<1>1. block = <<block[1], block[2]>>
  OBVIOUS
<1>2. PICK p, b, V : p = block[1] /\ b = block[2] /\ V = T \ {<<p, b>>}
  OBVIOUS
<1>3. H' = FreeBlock(H, p, b) /\ <<p, b>> \in T
  BY <1>1, <1>2 DEF Free
<1>4. HeapOK(H', V)
  BY <1>2, <1>3, FreeBlockLemma
<1>5. StackOK(stack', hd)
  <2>1. CASE stack' = rest
    BY <2>1
  <2>2. CASE \E todo \in FreeCalls : stack' = <<SegmentFree(todo)>> \o rest
    <3>1. PICK todo \in FreeCalls : stack' = <<SegmentFree(todo)>> \o rest
      BY <2>2
    <3>2. PICK fr : fr = SegmentFree(todo)
      OBVIOUS
    <3>3. fr \in Frame /\ Owns(fr, hd) /\ fr.f = "segment_free"
      BY <3>2, CallFacts DEF SegmentFree, Frame, Owns, VmaCall
    <3>4. IF rest = <<>> THEN Bottom(fr) ELSE CalledBy(fr, Head(rest))
      BY <3>3 DEF Bottom, CalledBy
    <3> QED BY <3>1, <3>2, <3>3, <3>4, StackPush
  <2> QED BY <2>1, <2>2 DEF Free
<1> QED BY <1>1, <1>2, <1>4, <1>5 DEF Free

(* A call of alloc for class c in rest is one that may be there. *)
CallerOK(c, rest) ==
    /\ StackOK(rest, held)
    /\ rest # <<>> /\ Head(rest).f # "realloc" =>
          Head(rest).f \in VmaCall /\ Head(rest).todo # <<>> /\ c = VmaClass

(* alloc takes a free block of a page of class c, and returns it. *)
LEMMA TakeReturn ==
    ASSUME IInv, NEW h, NEW I, NEW U, NEW p, NEW b, NEW c, NEW rest,
           Good(h, held \cup vmas, I, U), p \in I, b \in h.free[p], h.class[p] = c,
           CallerOK(c, rest), Return(Pop(h, p, b), rest, {<<p, b>>})
    PROVE  IInv'
<1>1. PICK T, g, V : T = held \cup vmas /\ g = Pop(h, p, b) /\ V = T \cup {<<p, b>>}
  OBVIOUS
<1>2. HeapOK(g, V) /\ NewBlock(h, T, p, b)
  <2>1. Takes(h, g, T, V, p, b) /\ Good(h, T, I, U)
    BY <1>1 DEF Takes
  <2> QED BY <2>1, PopGood
<1>3. Returns(g, rest, {<<p, b>>})
  BY <1>1, <1>2, ClassFacts DEF Returns, NewBlock, CallerOK
<1> QED BY <1>1, <1>3, ReturnLemma

(* The call of alloc that scans. *)
LEMMA ScanFacts ==
    ASSUME IInv, stack # <<>>, Top.f = "scan"
    PROVE  /\ Top.class \in Class /\ CallerOK(Top.class, Tail(stack))
           /\ \A x \in Heads \cup Page : StackOK(<<Scan(Top.class, x)>> \o Tail(stack), held)
<1>1. StackOK(stack, held)
  BY DEF IInv
<1>2. PICK fr, rest : fr = Head(stack) /\ rest = Tail(stack)
  OBVIOUS
<1>3. /\ fr \in Frame /\ StackOK(rest, held)
      /\ IF rest = <<>> THEN Bottom(fr) ELSE CalledBy(fr, Head(rest))
  BY <1>1, <1>2, StackPop
<1>4. fr.f = "scan" /\ fr.class \in Class
  BY <1>2, <1>3, FrameFacts DEF Top
<1>5. CallerOK(fr.class, rest)
  BY <1>3, <1>4 DEF CallerOK, CalledBy
<1>6. ASSUME NEW x \in Heads \cup Page PROVE StackOK(<<Scan(fr.class, x)>> \o rest, held)
  <2>1. PICK e : e = Scan(fr.class, x)
    OBVIOUS
  <2>2. e \in Frame /\ Owns(e, held) /\ Bottom(e) /\ e.f = "scan" /\ e.class = fr.class
    BY <1>4, <2>1 DEF Scan, Frame, Owns, Bottom
  <2>3. IF rest = <<>> THEN Bottom(e) ELSE CalledBy(e, Head(rest))
    BY <1>3, <1>4, <2>2 DEF CalledBy
  <2> QED BY <1>3, <2>1, <2>2, <2>3, StackPush
<1> QED BY <1>2, <1>4, <1>5, <1>6 DEF Top

LEMMA ScanPageStep ==
    ASSUME IInv, ScanPage
    PROVE  IInv'
<1>1. stack # <<>> /\ Top.f = "scan" /\ Top.page_head \in OnList(PagesHead(Top.class))
  BY DEF ScanPage
<1>2. PICK c, p, r, h : /\ c = Top.class /\ p = Top.page_head /\ h = page_collect(H, p)
                        /\ r = <<Scan(c, AfterPage(p))>> \o Tail(stack)
  OBVIOUS
<1>3. PICK T, I, U : T = held \cup vmas /\ Good(H, T, I, U)
  BY DEF IInv, HeapOK
<1>4. c \in Class /\ CallerOK(c, Tail(stack))
  BY <1>1, <1>2, ScanFacts
<1>5. p \in I /\ H.class[p] = c /\ ~H.full[p] /\ p \in Page
  BY <1>1, <1>2, <1>3, <1>4, OnListFacts
<1>6. PICK X, k : X = {} /\ k = H.kind
  OBVIOUS
<1>7. Sound(H, k, T, I, U, X) /\ FullOK(H, I) /\ DirectOK(H, I, NDirect) /\ H \in HeapType
  BY <1>3, <1>6 DEF Good, Sound
<1>8. StackOK(r, held)
  <2>1. H.list.next \in [Heads \cup Page -> Heads \cup Page]
    BY <1>7, Fields DEF LinkType
  <2>2. AfterPage(p) \in Heads \cup Page
    BY <1>5, <2>1 DEF AfterPage
  <2> QED BY <1>1, <1>2, <2>2, ScanFacts
<1>9. CASE page_is_empty(H, p)
  <2>1. /\ H' = page_free(H, p) /\ held' = held /\ vmas' = vmas /\ panic' = panic
        /\ stack' = r \/ \E todo \in FreeCalls : stack' = <<SegmentFree(todo)>> \o r
    BY <1>2, <1>9 DEF ScanPage
  <2>2. HeapOK(H', T)
    <3>1. PICK J, g : J = I \ {p} /\ g = page_free(H, p)
      OBVIOUS
    <3>2. FullOK(H, J) /\ H.used[p] = 0 /\ Sound(H, H.kind, T, I, U, X)
      BY <1>6, <1>7, <1>9, <3>1 DEF FullOK, page_is_empty
    <3>3. HeapOK(g, T)
      BY <1>5, <1>6, <1>7, <3>1, <3>2, PageFreeLemma
    <3> QED BY <2>1, <3>1, <3>3
  <2>3. StackOK(stack', held)
    <3>1. CASE stack' = r
      BY <1>8, <3>1
    <3>2. CASE \E todo \in FreeCalls : stack' = <<SegmentFree(todo)>> \o r
      <4>1. PICK todo \in FreeCalls : stack' = <<SegmentFree(todo)>> \o r
        BY <3>2
      <4>2. PICK fr : fr = SegmentFree(todo)
        OBVIOUS
      <4>3. fr \in Frame /\ Owns(fr, held) /\ fr.f = "segment_free"
        BY <4>2, CallFacts DEF SegmentFree, Frame, Owns, VmaCall
      <4>4. IF r = <<>> THEN Bottom(fr) ELSE CalledBy(fr, Head(r))
        BY <4>3 DEF Bottom, CalledBy
      <4> QED BY <1>8, <4>1, <4>2, <4>3, <4>4, StackPush
    <3> QED BY <2>1, <3>1, <3>2
  <2> QED BY <1>3, <2>1, <2>2, <2>3 DEF IInv
<1>10. /\ Sound(h, k, T, I, U, X)
       /\ FullOK(H, I) => FullOK(h, I)
       /\ h.direct = H.direct /\ h.class = H.class /\ h.kind = H.kind
       /\ h.free[p] = {} => h.local[p] = {}
  BY <1>2, <1>5, <1>7, CollectLemma
<1>11. FullOK(h, I) /\ DirectOK(h, I, NDirect)
  BY <1>7, <1>10 DEF DirectOK
<1>12. CASE ~page_is_empty(H, p) /\ h.free[p] # {}
  <2>1. PICK b \in h.free[p] : Return(Pop(h, p, b), Tail(stack), {<<p, b>>})
    BY <1>2, <1>12 DEF ScanPage
  <2>2. Good(h, held \cup vmas, I, U)
    BY <1>3, <1>6, <1>10, <1>11 DEF Good
  <2> QED BY <1>4, <1>5, <1>10, <2>1, <2>2, TakeReturn
<1>13. CASE ~page_is_empty(H, p) /\ h.free[p] = {}
  <2>1. H' = Fill(h, p) /\ stack' = r /\ held' = held /\ vmas' = vmas /\ panic' = panic
    BY <1>2, <1>13 DEF ScanPage
  <2>2. PICK g : g = Fill(h, p)
    OBVIOUS
  <2>3. /\ Sound(g, k, T, I, U, X) /\ FullOK(g, I) /\ DirectOK(g, I, NDirect)
        /\ g.kind = h.kind
    BY <1>5, <1>10, <1>11, <1>13, <2>2, FillLemma
  <2>4. HeapOK(g, T)
    BY <1>6, <1>10, <2>3 DEF HeapOK, Good
  <2> QED BY <1>3, <1>8, <2>1, <2>2, <2>4 DEF IInv
<1> QED BY <1>9, <1>12, <1>13

LEMMA UnusedPages ==
    ASSUME NEW h, NEW T, NEW I, NEW U, Good(h, T, I, U)
    PROVE  list_is_empty(h.list, UnusedHead) <=> U = {}
<1>1. /\ h \in HeapType /\ I \in SUBSET Page /\ U \in SUBSET Page
      /\ Lists(h.list, Heads, Page, Homes(h, I, U))
  BY DEF Good, Sound, Members
<1>2. Homes(h, I, U)[UnusedHead] = U
  BY <1>1, HomeFacts
<1>3. ASSUME NEW P, P = Homes(h, I, U) PROVE list_is_empty(h.list, UnusedHead) <=> P[UnusedHead] = {}
  BY <1>1, <1>3, HeadFacts, EmptyLemma
<1> QED BY <1>2, <1>3

(* page_new_small takes a page into use. *)
LEMMA NewSmallGood ==
    ASSUME NEW h, NEW T, NEW I, NEW U, NEW c, NEW p, NEW g,
           Good(h, T, I, U), U # {}, c \in Class,
           p = h.list.next[UnusedHead], g = page_new_small(h, c)
    PROVE  \E J, W : Good(g, T, J, W) /\ p \in J /\ g.class[p] = c
<1>1. PICK X, k, J, W : X = {} /\ k = h.kind /\ J = I \cup {p} /\ W = U \ {p}
  OBVIOUS
<1>2. /\ Sound(h, k, T, I, U, X) /\ FullOK(h, I) /\ DirectOK(h, I, NDirect)
      /\ ~list_is_empty(h.list, UnusedHead)
  BY <1>1, UnusedPages DEF Good
<1>3. /\ Sound(g, k, T, J, W, X) /\ FullOK(g, J) /\ g.kind = h.kind /\ Fresh(g, p, c)
      /\ DirectOK(h, I, NDirect) => DirectOK(g, J, NDirect)
  BY <1>1, <1>2, NewSmallLemma
<1>4. Good(g, T, J, W)
  BY <1>1, <1>2, <1>3 DEF Good
<1> QED BY <1>1, <1>3, <1>4 DEF Fresh

LEMMA ScanEndStep ==
    ASSUME IInv, ScanEnd
    PROVE  IInv'
<1>1. stack # <<>> /\ Top.f = "scan"
  BY DEF ScanEnd
<1>2. PICK c, h, p : c = Top.class /\ h = page_new_small(H, c) /\ p = H.list.next[UnusedHead]
  OBVIOUS
<1>3. PICK T, I, U : T = held \cup vmas /\ Good(H, T, I, U)
  BY DEF IInv, HeapOK
<1>4. c \in Class /\ CallerOK(c, Tail(stack))
  BY <1>1, <1>2, ScanFacts
<1>5. CASE ~list_is_empty(H.list, PagesHead(c))
  <2>1. PICK why : why = "assert"
    OBVIOUS
  <2>2. why \in Panics /\ Panic(why)
    BY <1>2, <1>5, <2>1 DEF ScanEnd, Panics
  <2> QED BY <2>2, PanicStep
<1>6. CASE /\ list_is_empty(H.list, PagesHead(c))
           /\ c < NSmall /\ ~list_is_empty(H.list, UnusedHead)
  <2>1. PICK b \in h.free[p] : Return(Pop(h, p, b), Tail(stack), {<<p, b>>})
    BY <1>2, <1>6 DEF ScanEnd
  <2>2. U # {}
    BY <1>3, <1>6, UnusedPages
  <2>3. PICK J, W : Good(h, T, J, W) /\ p \in J /\ h.class[p] = c
    BY <1>2, <1>3, <1>4, <2>2, NewSmallGood
  <2>4. Good(h, held \cup vmas, J, W)
    BY <1>3, <2>3
  <2> QED BY <1>4, <2>1, <2>3, <2>4, TakeReturn
<1>7. CASE /\ list_is_empty(H.list, PagesHead(c))
           /\ ~(c < NSmall /\ ~list_is_empty(H.list, UnusedHead))
  <2>1. Grow(c, Tail(stack))
    BY <1>2, <1>7 DEF ScanEnd
  <2>2. StackOK(Tail(stack), held)
    BY <1>4 DEF CallerOK
  <2>3. Tail(stack) # <<>> => CalledBy(Wait(c), Head(Tail(stack)))
    BY <1>4 DEF CallerOK, CalledBy, Wait
  <2> QED BY <1>4, <2>1, <2>2, <2>3, GrowStep
<1> QED BY <1>5, <1>6, <1>7

LEMMA GrowEndStep ==
    ASSUME IInv, GrowEnd
    PROVE  IInv'
<1>1. stack # <<>> /\ Top.f = "segment_alloc"
  BY DEF GrowEnd
<1>2. PICK c, rest, st : c = stack[2].class /\ rest = Tail(Tail(stack)) /\ st = Tail(stack)
  OBVIOUS
<1>3. PICK T, I, U : T = held \cup vmas /\ Good(H, T, I, U)
  BY DEF IInv, HeapOK
<1>4. c \in Class /\ CallerOK(c, rest)
  <2>1. /\ StackOK(st, held) /\ StackOK(stack, held)
        /\ IF st = <<>> THEN Bottom(Head(stack)) ELSE CalledBy(Head(stack), Head(st))
    BY <1>1, <1>2, StackPop DEF IInv
  <2>2. st # <<>> /\ Head(st).f = "wait"
    BY <1>1, <2>1 DEF Bottom, CalledBy, Top
  <2>3. Head(st) = stack[2]
    BY <1>1, <1>2, <2>1, <2>2 DEF StackOK
  <2>4. /\ Head(st) \in Frame /\ StackOK(rest, held)
        /\ IF rest = <<>> THEN Bottom(Head(st)) ELSE CalledBy(Head(st), Head(rest))
    BY <1>2, <2>1, <2>2, StackPop
  <2>5. c \in Class
    BY <1>2, <2>2, <2>3, <2>4, FrameFacts
  <2> QED BY <1>2, <2>2, <2>3, <2>4, <2>5 DEF CallerOK, CalledBy
<1>5. PICK None : None = {s \in Seg : H.kind[s] = "none"}
  OBVIOUS
<1>6. CASE None = {} /\ Return(H, rest, {})
  <2>1. PICK block : block = {}
    OBVIOUS
  <2>2. Returns(H, rest, block)
    BY <1>3, <1>4, <2>1 DEF Returns, CallerOK, HeapOK
  <2> QED BY <1>6, <2>1, <2>2, ReturnLemma
<1>7. CASE Panic("out of memory")
  <2>1. PICK why : why = "out of memory"
    OBVIOUS
  <2>2. why \in Panics /\ Panic(why)
    BY <1>7, <2>1 DEF Panics
  <2> QED BY <2>2, PanicStep
<1>8. ASSUME NEW s \in None, NEW h, NEW p, NEW b \in h.free[p],
             h = (IF c < NSmall THEN page_new_small(segment_init_small(H, s), c)
                               ELSE page_new_single(H, s, c)),
             p = (IF c < NSmall THEN segment_init_small(H, s).list.next[UnusedHead]
                               ELSE <<s, 0>>),
             Return(Pop(h, p, b), rest, {<<p, b>>})
      PROVE  IInv'
  <2>1. s \in Seg /\ H.kind[s] = "none"
    BY <1>5
  <2>2. PICK X : X = {}
    OBVIOUS
  <2>3. Sound(H, H.kind, T, I, U, X) /\ FullOK(H, I) /\ DirectOK(H, I, NDirect)
    BY <1>3, <2>2 DEF Good
  <2>4. \E J, W : Good(h, T, J, W) /\ p \in J /\ h.class[p] = c
    <3>1. CASE c < NSmall
      <4>1. PICK g : g = segment_init_small(H, s)
        OBVIOUS
      <4>2. PICK W : /\ Sound(g, g.kind, T, I, W, X) /\ Untouched(H, g, I)
                     /\ g.kind = [H.kind EXCEPT ![s] = "small"]
        BY <2>1, <2>2, <2>3, <4>1, InitSmallLemma
      <4>3. Good(g, T, I, W)
        BY <2>2, <2>3, <4>2, UntouchedOK DEF Good
      <4>4. W # {}
        <5>1. PICK q : q = <<s, 0>>
          OBVIOUS
        <5>2. 0 \in 0..(PagesPer - 1)
          BY ClassFacts
        <5>3. q \in Page /\ SegOf(q) = s
          BY <2>1, <5>1, <5>2, PageFacts
        <5>4. H \in HeapType /\ g.kind[s] = "small"
          <6>1. H \in HeapType
            BY <2>3 DEF Sound
          <6> QED BY <2>1, <4>2, <6>1, Fields
        <5>5. IsPage(g.kind, q) /\ ~IsPage(H.kind, q)
          BY <2>1, <5>3, <5>4 DEF IsPage
        <5>6. q \notin I
          BY <2>3, <5>3, <5>5 DEF Sound, Members
        <5>7. q \in W
          BY <2>2, <4>2, <5>3, <5>5, <5>6 DEF Sound, Members
        <5> QED BY <5>7
      <4>5. h = page_new_small(g, c) /\ p = g.list.next[UnusedHead]
        BY <1>8, <3>1, <4>1
      <4> QED BY <1>4, <4>3, <4>4, <4>5, NewSmallGood
    <3>2. CASE ~(c < NSmall)
      <4>1. h = page_new_single(H, s, c) /\ p = <<s, 0>>
        BY <1>8, <3>2
      <4>2. PICK J : J = I \cup {p}
        OBVIOUS
      <4>3. /\ Sound(h, h.kind, T, J, U, X) /\ FullOK(h, J) /\ DirectOK(h, J, NDirect)
            /\ Fresh(h, p, c)
        BY <1>4, <2>1, <2>2, <2>3, <3>2, <4>1, <4>2, NewSingleLemma
      <4> QED BY <2>2, <4>2, <4>3 DEF Good, Fresh
    <3> QED BY <3>1, <3>2
  <2>5. PICK J, W : Good(h, T, J, W) /\ p \in J /\ h.class[p] = c
    BY <2>4
  <2>6. Good(h, held \cup vmas, J, W)
    BY <1>3, <2>5
  <2> QED BY <1>4, <1>8, <2>5, <2>6, TakeReturn
<1>9. \/ None = {} /\ Return(H, rest, {})
      \/ Panic("out of memory")
      \/ \E s \in None :
            LET h == IF c < NSmall THEN page_new_small(segment_init_small(H, s), c)
                                   ELSE page_new_single(H, s, c)
                p == IF c < NSmall THEN segment_init_small(H, s).list.next[UnusedHead]
                                   ELSE <<s, 0>>
            IN  \E b \in h.free[p] : Return(Pop(h, p, b), rest, {<<p, b>>})
  BY <1>2, <1>5 DEF GrowEnd
<1> QED BY <1>6, <1>7, <1>8, <1>9

(* The blocks that are taken are blocks of pages. *)
LEMMA TakenType ==
    ASSUME NEW h, NEW T, HeapOK(h, T)
    PROVE  h \in HeapType /\ T \subseteq Page \X AnyBlock
<1>1. PICK I, U : Good(h, T, I, U)
  BY DEF HeapOK
<1>2. h \in HeapType /\ T \in SUBSET (I \X AnyBlock) /\ I \in SUBSET Page
  BY <1>1 DEF Good, Sound, Members
<1> QED BY <1>2

LEMMA KernelFreeStep ==
    ASSUME IInv, KernelFree
    PROVE  IInv'
<1>1. PICK block \in held : Free(block, stack) /\ held' = held \ {block}
  BY DEF KernelFree
<1>2. stack = <<>> /\ vmas' = vmas
  BY DEF KernelFree
<1>3. PICK T, hd : T = held \cup vmas /\ hd = held \ {block}
  OBVIOUS
<1>4. HeapOK(H, T) /\ block \in T /\ T \subseteq Page \X AnyBlock /\ StackOK(stack, hd)
  BY <1>2, <1>3, TakenType, StackEmpty DEF IInv
<1>5. HeapOK(H', T \ {block}) /\ StackOK(stack', hd) /\ panic' = panic
  BY <1>1, <1>4, FreeLemma
<1>6. held' \cup vmas' = T \ {block}
  BY <1>1, <1>2, <1>3 DEF IInv
<1> QED BY <1>1, <1>2, <1>3, <1>5, <1>6 DEF IInv

LEMMA ReallocFreeStep ==
    ASSUME IInv, ReallocFree
    PROVE  IInv'
<1>1. PICK block : block = Top.old
  OBVIOUS
<1>2. /\ stack # <<>> /\ Top.f = "realloc_free" /\ Free(block, Tail(stack))
      /\ held' = held \ {block} /\ vmas' = vmas
  BY <1>1 DEF ReallocFree
<1>3. PICK T, hd : T = held \cup vmas /\ hd = held \ {block}
  OBVIOUS
<1>4. Tail(stack) = <<>> /\ block \in held
  <2>1. /\ Owns(Head(stack), held)
        /\ IF Tail(stack) = <<>> THEN Bottom(Head(stack))
                                 ELSE CalledBy(Head(stack), Head(Tail(stack)))
    BY <1>2, StackPop DEF IInv
  <2> QED BY <1>1, <1>2, <2>1 DEF Owns, CalledBy, Top
<1>5. HeapOK(H, T) /\ block \in T /\ T \subseteq Page \X AnyBlock /\ StackOK(Tail(stack), hd)
  BY <1>3, <1>4, TakenType, StackEmpty DEF IInv
<1>6. HeapOK(H', T \ {block}) /\ StackOK(stack', hd) /\ panic' = panic
  BY <1>2, <1>5, FreeLemma
<1>7. held' \cup vmas' = T \ {block}
  BY <1>2, <1>3, <1>4 DEF IInv
<1> QED BY <1>2, <1>3, <1>6, <1>7 DEF IInv

LEMMA KernelReallocStep ==
    ASSUME IInv, KernelRealloc
    PROVE  IInv'
<1>1. PICK old \in held, c \in Class :
         IF c = HUGE THEN Panic("huge")
         ELSE stack' = <<Realloc(c, old)>> /\ UNCHANGED <<H, held, vmas, panic>>
  BY DEF KernelRealloc
<1>2. CASE c = HUGE
  <2>1. PICK why : why = "huge"
    OBVIOUS
  <2>2. why \in Panics /\ Panic(why)
    BY <1>1, <1>2, <2>1 DEF Panics
  <2> QED BY <2>2, PanicStep
<1>3. CASE c # HUGE
  <2>1. /\ stack' = <<Realloc(c, old)>>
        /\ H' = H /\ held' = held /\ vmas' = vmas /\ panic' = panic
    BY <1>1, <1>3
  <2>2. PICK fr : fr = Realloc(c, old)
    OBVIOUS
  <2>3. old \in Page \X AnyBlock
    BY TakenType DEF IInv
  <2>4. fr \in Frame /\ Owns(fr, held) /\ Bottom(fr)
    BY <2>2, <2>3 DEF Realloc, Frame, Owns, Bottom
  <2>5. stack = <<>>
    BY DEF KernelRealloc
  <2>6. StackOK(<<fr>> \o <<>>, held)
    BY <2>4, <2>5, StackEmpty, StackPush
  <2>7. <<fr>> \o <<>> = <<fr>>
    OBVIOUS
  <2> QED BY <2>1, <2>2, <2>6, <2>7 DEF IInv
<1> QED BY <1>2, <1>3

(* The call of the virtual memory allocator goes on. *)
LEMMA VmaTop ==
    ASSUME IInv, InVma, Top.todo # <<>>
    PROVE  StackOK(<<[Top EXCEPT !.todo = Tail(@)]>> \o Tail(stack), held)
<1>1. PICK fr, rest, e : /\ fr = Head(stack) /\ rest = Tail(stack)
                         /\ e = [fr EXCEPT !.todo = Tail(@)]
  OBVIOUS
<1>2. stack # <<>> /\ fr.f \in VmaCall /\ fr.todo # <<>>
  BY <1>1 DEF InVma, Top, VmaCall
<1>3. /\ fr \in Frame /\ StackOK(rest, held)
      /\ IF rest = <<>> THEN Bottom(fr) ELSE CalledBy(fr, Head(rest))
  BY <1>1, <1>2, StackPop DEF IInv
<1>4. fr = [f |-> fr.f, todo |-> fr.todo] /\ fr.todo \in Seq({"alloc", "free"})
  BY <1>2, <1>3, FrameFacts
<1>5. Tail(fr.todo) \in Seq({"alloc", "free"})
  BY <1>2, <1>4
<1>6. e = [f |-> fr.f, todo |-> Tail(fr.todo)]
  BY <1>1, <1>4
<1>7. e \in Frame /\ e.f = fr.f
  BY <1>2, <1>5, <1>6 DEF Frame
<1>8. IF rest = <<>> THEN Bottom(e) ELSE CalledBy(e, Head(rest))
  BY <1>2, <1>3, <1>7 DEF Bottom, CalledBy, VmaCall
<1>9. Owns(e, held)
  BY <1>2, <1>7 DEF Owns, VmaCall
<1>10. StackOK(<<e>> \o rest, held)
  BY <1>3, <1>7, <1>8, <1>9, StackPush
<1> QED BY <1>1, <1>10 DEF Top

LEMMA VmaFreeStep ==
    ASSUME IInv, VmaFree
    PROVE  IInv'
<1>1. PICK rest : rest = <<[Top EXCEPT !.todo = Tail(@)]>> \o Tail(stack)
  OBVIOUS
<1>2. InVma /\ Top.todo # <<>> /\ held' = held
  BY DEF VmaFree
<1>3. StackOK(rest, held)
  BY <1>1, <1>2, VmaTop
<1>4. CASE \E block \in vmas : Free(block, rest) /\ vmas' = vmas \ {block}
  <2>1. PICK block \in vmas : Free(block, rest) /\ vmas' = vmas \ {block}
    BY <1>4
  <2>2. PICK T, hd : T = held \cup vmas /\ hd = held
    OBVIOUS
  <2>3. HeapOK(H, T) /\ block \in T /\ T \subseteq Page \X AnyBlock /\ StackOK(rest, hd)
    BY <1>3, <2>2, TakenType DEF IInv
  <2>4. HeapOK(H', T \ {block}) /\ StackOK(stack', hd) /\ panic' = panic
    BY <2>1, <2>3, FreeLemma
  <2>5. held' \cup vmas' = T \ {block}
    BY <1>2, <2>1, <2>2 DEF IInv
  <2> QED BY <1>2, <2>1, <2>2, <2>4, <2>5 DEF IInv
<1>5. CASE stack' = rest /\ UNCHANGED <<H, vmas, panic>>
  BY <1>2, <1>3, <1>5 DEF IInv
<1> QED BY <1>1, <1>4, <1>5 DEF VmaFree

LEMMA FreeEndStep ==
    ASSUME IInv, FreeEnd
    PROVE  IInv'
<1>1. StackOK(Tail(stack), held)
  BY StackPop DEF IInv, FreeEnd, InVma
<1> QED BY <1>1 DEF IInv, FreeEnd

(* Every step preserves the invariant. *)
LEMMA NextStep ==
    ASSUME IInv, [Next]_vars
    PROVE  IInv'
<1>1. CASE \E c \in Class : alloc_small(c)
  BY <1>1, AllocSmallStep
<1>2. CASE \E c \in Class : alloc_generic(c)
  BY <1>2, AllocGenericStep
<1>3. CASE KernelFree
  BY <1>3, KernelFreeStep
<1>4. CASE KernelRealloc
  BY <1>4, KernelReallocStep
<1>5. CASE ReallocFree
  BY <1>5, ReallocFreeStep
<1>6. CASE ScanPage
  BY <1>6, ScanPageStep
<1>7. CASE ScanLost
  <2>1. PICK why : why = "lost"
    OBVIOUS
  <2>2. why \in Panics /\ Panic(why)
    BY <1>7, <2>1 DEF ScanLost, Panics
  <2> QED BY <2>2, PanicStep
<1>8. CASE ScanEnd
  BY <1>8, ScanEndStep
<1>9. CASE GrowEnd
  BY <1>9, GrowEndStep
<1>10. CASE VmaFree
  BY <1>10, VmaFreeStep
<1>11. CASE FreeEnd
  BY <1>11, FreeEndStep
<1>12. CASE UNCHANGED vars
  BY <1>12 DEF IInv, vars
<1>13. CASE Halt
  BY <1>12, <1>13 DEF Halt
<1> QED BY <1>1, <1>2, <1>3, <1>4, <1>5, <1>6, <1>7, <1>8, <1>9, <1>10, <1>11, <1>12, <1>13
        DEF Next, Continue

-----------------------------------------------------------------------------
(* heap_init.                                                              *)

EmptyHeap == [list |-> [prev |-> [n \in Page \cup Heads |-> n],
                        next |-> [n \in Page \cup Heads |-> n]],
              free |-> [p \in Page |-> {}], local |-> [p \in Page |-> {}],
              used |-> [p \in Page |-> 0], class |-> [p \in Page |-> 0],
              full |-> [p \in Page |-> FALSE],
              direct |-> [c \in 0..(NDirect - 1) |-> <<BootSeg, 0>>],
              kind |-> [s \in Seg |-> "none"], usedPages |-> [s \in Seg |-> 0]]

HeapInitRun(f) ==
    /\ f[0] = segment_init_small(EmptyHeap, BootSeg)
    /\ \A i \in 0..(NDirect - 1) : f[i + 1] = page_new_small(f[i], i)
    /\ heap_init = f[NDirect]

LEMMA HeapInitLoop == \E f : HeapInitRun(f)
<1> DEFINE a == segment_init_small(EmptyHeap, BootSeg)
           Step(x, i) == page_new_small(x, i)
           Is(f, n) == f = [c \in 0..n |-> IF c = 0 THEN a ELSE Step(f[c - 1], c - 1)]
           S == {n \in Nat : \E f : Is(f, n)}
<1> HIDE DEF a, Step
<1>1. 0 \in S
  <2>1. PICK f : f = [i \in 0..0 |-> a]
    OBVIOUS
  <2>2. Is(f, 0)
    BY <2>1
  <2> QED BY <2>2
<1>2. ASSUME NEW n \in Nat, n \in S PROVE n + 1 \in S
  <2>1. PICK f : Is(f, n)
    BY <1>2
  <2>2. PICK g : g = [i \in 0..(n + 1) |-> IF i <= n THEN f[i] ELSE Step(f[n], n)]
    OBVIOUS
  <2>3. ASSUME NEW i \in 0..(n + 1)
        PROVE  g[i] = IF i = 0 THEN a ELSE Step(g[i - 1], i - 1)
    <3>1. CASE i = 0
      BY <2>1, <2>2, <3>1
    <3>2. CASE i # 0 /\ i <= n
      <4>1. i \in 0..n /\ i - 1 \in 0..(n + 1) /\ i - 1 <= n
        BY <3>2
      <4>2. f[i] = Step(f[i - 1], i - 1)
        BY <2>1, <3>2, <4>1
      <4>3. g[i] = f[i] /\ g[i - 1] = f[i - 1]
        BY <2>2, <3>2, <4>1
      <4> QED BY <3>2, <4>2, <4>3
    <3>3. CASE i = n + 1
      <4>1. g[i] = Step(f[n], n) /\ g[n] = f[n] /\ i - 1 = n /\ i # 0
        BY <2>2, <3>3
      <4> QED BY <4>1
    <3> QED BY <3>1, <3>2, <3>3
  <2>4. Is(g, n + 1)
    BY <2>2, <2>3
  <2> QED BY <2>4
<1>3. NDirect \in S
  <2> HIDE DEF S
  <2> QED BY <1>1, <1>2, SetInduction, ClassFacts
<1>4. PICK f : f = CHOOSE x : Is(x, NDirect)
  OBVIOUS
<1>5. Is(f, NDirect)
  BY <1>3, <1>4
<1>6. heap_init = f[NDirect]
  BY <1>4 DEF heap_init, EmptyHeap, a, Step
<1>7. f[0] = a
  BY <1>5, ClassFacts
<1>8. ASSUME NEW i \in 0..(NDirect - 1) PROVE f[i + 1] = Step(f[i], i)
  <2>1. i + 1 \in 0..NDirect /\ i + 1 # 0 /\ (i + 1) - 1 = i
    BY ClassFacts
  <2> QED BY <1>5, <2>1
<1> QED BY <1>6, <1>7, <1>8 DEF a, Step, HeapInitRun

(* The heap before the boot segment has no pages at all. *)
LEMMA EmptySound ==
    ASSUME NEW E, E = {}
    PROVE  Sound(EmptyHeap, EmptyHeap.kind, E, E, E, E)
<1>0. PICK h : h = EmptyHeap
  OBVIOUS
<1>1. /\ h.list.prev = [n \in Page \cup Heads |-> n] /\ h.list.next = [n \in Page \cup Heads |-> n]
      /\ h.kind = [s \in Seg |-> "none"]
  BY <1>0 DEF EmptyHeap
<1>2. h.list \in LinkType(Heads \cup Page)
  BY <1>0 DEF EmptyHeap, LinkType
<1>3. h \in HeapType
  <2>1. <<BootSeg, 0>> \in Page
    BY PageFacts, ClassFacts, HeapConstants
  <2>2. 0 \in Class
    BY ClassFacts
  <2> QED BY <1>0, <1>2, <2>1, <2>2 DEF EmptyHeap, HeapType
<1>4. ASSUME NEW P, P = Homes(h, E, E) PROVE Lists(h.list, Heads, Page, P)
  <2>1. P = [d \in Heads |-> {}]
    BY <1>4 DEF Homes
  <2>2. Heads \cap Page = {}
    BY HeadFacts
  <2>3. \A x \in Heads \cup Page : h.list.next[x] = x /\ h.list.prev[x] = x
    BY <1>1
  <2> QED BY <1>2, <2>1, <2>2, <2>3 DEF Lists
<1>5. Members(h.kind, E, E, E)
  <2>1. \A p \in Page : h.kind[SegOf(p)] = "none"
    BY <1>1, PageFacts
  <2>2. \A p \in Page : ~IsPage(h.kind, p)
    BY <2>1 DEF IsPage
  <2> QED BY <2>2 DEF Members
<1>6. Counted(h, h.kind, E)
  BY <1>1 DEF Counted
<1> QED BY <1>0, <1>3, <1>4, <1>5, <1>6 DEF Sound

(* A segment of small objects has PagesPer pages. *)
LEMMA PagesOfSegment ==
    ASSUME NEW s \in Seg, NEW I, I \in SUBSET Page, \A p \in Page : SegOf(p) = s => p \in I
    PROVE  Cardinality(PagesIn(I, s)) = PagesPer
<1>1. PagesIn(I, s) = {s} \X (0..(PagesPer - 1))
  BY DEF PagesIn, Page, SegOf
<1>2. IsFiniteSet({s}) /\ Cardinality({s}) = 1
  BY FS_Singleton
<1>3. IsFiniteSet(0..(PagesPer - 1)) /\ Cardinality(0..(PagesPer - 1)) = PagesPer
  <2>1. 0 \in Int /\ PagesPer - 1 \in Int /\ PagesPer \in Nat
    BY ClassFacts
  <2>2. /\ IsFiniteSet(0..(PagesPer - 1))
        /\ Cardinality(0..(PagesPer - 1)) = IF 0 > PagesPer - 1 THEN 0 ELSE (PagesPer - 1) - 0 + 1
    BY ONLY <2>1, FS_Interval
  <2> QED BY <2>1, <2>2
<1>4. Cardinality({s} \X (0..(PagesPer - 1))) = Cardinality({s}) * Cardinality(0..(PagesPer - 1))
  BY ONLY <1>2, <1>3, FS_Product
<1> QED BY <1>1, <1>2, <1>3, <1>4, ClassFacts

(* No page in use has a block on local_free. *)
NoLocal(h, I) == \A p \in I : h.local[p] = {}

(* The pages of the boot segment are taken into use one by one, and there  *)
(* are enough of them for pages_direct.                                    *)
OnlyBoot(k) == k = [[s \in Seg |-> "none"] EXCEPT ![BootSeg] = "small"]

Booted(h, c, I, U) ==
    /\ Sound(h, h.kind, {}, I, U, {}) /\ FullOK(h, I) /\ DirectOK(h, I, c)
    /\ NoLocal(h, I) /\ OnlyBoot(h.kind) /\ Cardinality(PagesIn(I, BootSeg)) = c

LEMMA BootedFirst ==
    ASSUME NEW g, g = segment_init_small(EmptyHeap, BootSeg)
    PROVE  \E I, U : Booted(g, 0, I, U)
<1>1. PICK E, h : E = {} /\ h = EmptyHeap
  OBVIOUS
<1>2. Sound(h, h.kind, E, E, E, E)
  BY <1>1, EmptySound
<1>3. h.kind = [s \in Seg |-> "none"]
  BY <1>1 DEF EmptyHeap
<1>4. BootSeg \in Seg /\ h.kind[BootSeg] = "none"
  BY <1>3, HeapConstants
<1>5. PICK W : /\ Sound(g, g.kind, E, E, W, E) /\ Untouched(h, g, E)
               /\ g.kind = [h.kind EXCEPT ![BootSeg] = "small"]
  <2>1. g = segment_init_small(h, BootSeg)
    BY <1>1
  <2> QED BY ONLY <1>1, <1>2, <1>4, <2>1, InitSmallLemma
<1>6. OnlyBoot(g.kind)
  BY <1>3, <1>5 DEF OnlyBoot
<1>7. FullOK(g, E) /\ DirectOK(g, E, 0) /\ NoLocal(g, E)
  BY <1>1 DEF FullOK, DirectOK, NoLocal
<1>8. Cardinality(PagesIn(E, BootSeg)) = 0
  <2>1. PagesIn(E, BootSeg) = {}
    BY <1>1 DEF PagesIn
  <2> QED BY <2>1, FS_EmptySet
<1>9. Booted(g, 0, E, W)
  BY <1>1, <1>5, <1>6, <1>7, <1>8 DEF Booted
<1> QED BY <1>9

LEMMA BootedNext ==
    ASSUME NEW h, NEW I, NEW U, NEW c, NEW g,
           Booted(h, c, I, U), c \in Nat, c < NDirect, g = page_new_small(h, c)
    PROVE  \E J, W : Booted(g, c + 1, J, W)
<1>1. PICK X, k, T : X = {} /\ k = h.kind /\ T = {}
  OBVIOUS
<1>2. /\ Sound(h, k, T, I, U, X) /\ FullOK(h, I) /\ DirectOK(h, I, c)
      /\ NoLocal(h, I) /\ OnlyBoot(k) /\ Cardinality(PagesIn(I, BootSeg)) = c
  BY <1>1 DEF Booted
<1>3. /\ h \in HeapType /\ I \in SUBSET Page /\ U \in SUBSET Page /\ I \cap U = {}
      /\ Lists(h.list, Heads, Page, Homes(h, I, U)) /\ Members(k, I, U, X)
  BY <1>2 DEF Sound, Members
<1>4. BootSeg \in Seg /\ k[BootSeg] = "small" /\ \A s \in Seg : k[s] # "none" => s = BootSeg
  BY <1>2, HeapConstants DEF OnlyBoot
<1>5. U # {}
  <2> SUFFICES ASSUME U = {} PROVE FALSE
    OBVIOUS
  <2>1. \A p \in Page : SegOf(p) = BootSeg => p \in I
    BY <1>1, <1>3, <1>4 DEF Members, IsPage
  <2>2. Cardinality(PagesIn(I, BootSeg)) = PagesPer
    BY <1>3, <1>4, <2>1, PagesOfSegment
  <2> QED BY <1>2, <2>2, ClassFacts
<1>6. ~list_is_empty(h.list, UnusedHead)
  <2>1. Homes(h, I, U)[UnusedHead] = U
    BY <1>3, HomeFacts
  <2>2. ASSUME NEW P, P = Homes(h, I, U) PROVE list_is_empty(h.list, UnusedHead) <=> P[UnusedHead] = {}
    BY <1>3, <2>2, HeadFacts, EmptyLemma
  <2> QED BY <1>5, <2>1, <2>2
<1>7. PICK p, J, W : p = h.list.next[UnusedHead] /\ J = I \cup {p} /\ W = U \ {p}
  OBVIOUS
<1>8. c \in Class
  BY ClassFacts DEF Class
<1>9. /\ p \in U /\ Sound(g, k, T, J, W, X) /\ FullOK(g, J) /\ g.kind = h.kind
      /\ Fresh(g, p, c) /\ (\A q \in I : Same(g, h, q))
      /\ c < NDirect /\ DirectOK(h, I, c) => DirectOK(g, J, c + 1)
  <2>1. g = page_new_small(h, c)
    OBVIOUS
  <2> QED BY ONLY <1>2, <1>6, <1>7, <1>8, <2>1, NewSmallLemma
<1>10. DirectOK(g, J, c + 1)
  BY ONLY <1>2, <1>9, c < NDirect
<1>11. NoLocal(g, J)
  BY <1>2, <1>7, <1>9 DEF NoLocal, Same, Fresh
<1>12. SegOf(p) = BootSeg /\ p \in Page /\ p \notin I
  <2>1. p \in Page /\ p \notin I /\ k[SegOf(p)] = "small"
    BY <1>3, <1>9 DEF Members
  <2>2. SegOf(p) \in Seg
    BY <2>1, PageFacts
  <2> QED BY <1>4, <2>1, <2>2
<1>13. Cardinality(PagesIn(J, BootSeg)) = c + 1
  BY <1>2, <1>3, <1>7, <1>12, AddToPages
<1>14. Booted(g, c + 1, J, W)
  BY <1>1, <1>2, <1>9, <1>10, <1>11, <1>13 DEF Booted
<1> QED BY <1>14

LEMMA BootedLast == \E I, U : Booted(heap_init, NDirect, I, U)
<1>1. PICK f : HeapInitRun(f)
  BY HeapInitLoop
<1>2. /\ f[0] = segment_init_small(EmptyHeap, BootSeg)
      /\ \A i \in 0..(NDirect - 1) : f[i + 1] = page_new_small(f[i], i)
      /\ heap_init = f[NDirect]
  BY <1>1 DEF HeapInitRun
<1> DEFINE Loop(c) == \E I, U : Booted(f[c], c, I, U)
           S == {c \in Nat : c <= NDirect => Loop(c)}
<1>3. Loop(0)
  BY <1>2, BootedFirst
<1>4. ASSUME NEW c \in Nat, c < NDirect, Loop(c) PROVE Loop(c + 1)
  <2>1. PICK I, U : Booted(f[c], c, I, U)
    BY <1>4
  <2>2. f[c + 1] = page_new_small(f[c], c)
    <3>1. c \in 0..(NDirect - 1)
      BY <1>4, ClassFacts
    <3> QED BY <1>2, <3>1
  <2> QED BY ONLY <1>4, <2>1, <2>2, BootedNext
<1>5. Loop(NDirect)
  <2> HIDE DEF Loop
  <2>1. 0 \in S
    BY <1>3
  <2>2. ASSUME NEW c \in Nat, c \in S PROVE c + 1 \in S
    <3>1. CASE c < NDirect
      <4>1. Loop(c)
        BY <2>2, <3>1, ClassFacts
      <4>2. Loop(c + 1)
        BY <1>4, <3>1, <4>1
      <4> QED BY <4>2
    <3>2. CASE ~(c < NDirect)
      BY <3>2, ClassFacts
    <3> QED BY <3>1, <3>2
  <2>3. NDirect \in S
    <3> HIDE DEF S
    <3> QED BY <2>1, <2>2, SetInduction, ClassFacts
  <2> QED BY <2>3, ClassFacts
<1> QED BY <1>2, <1>5

LEMMA InitInv ==
    ASSUME Init
    PROVE  IInv
<1>1. PICK I, U : Booted(heap_init, NDirect, I, U)
  BY BootedLast
<1>2. PICK h, T : h = heap_init /\ T = {}
  OBVIOUS
<1>3. PICK p, b : p = h.direct[VmaClass] /\ b = CHOOSE x \in Block : TRUE
  OBVIOUS
<1>4. Good(h, T, I, U) /\ NoLocal(h, I)
  BY <1>1, <1>2 DEF Booted, Good
<1>5. p \in I /\ p \in Page /\ h.class[p] = VmaClass
  <2>1. VmaClass \in 0..(NDirect - 1)
    BY HeapConstants
  <2> QED BY <1>3, <1>4, <2>1 DEF Good, DirectOK, Sound, Members
<1>6. b \in Block
  BY <1>3, BlockFacts
<1>7. b \in h.free[p]
  <2>1. PageOK(h, T, p) /\ h.local[p] = {}
    BY <1>4, <1>5 DEF Good, Sound, NoLocal
  <2>2. TakenOf(T, p) = {}
    BY <1>2 DEF TakenOf
  <2>3. BlocksIn(h, p) = Block
    BY <1>5, ClassFacts DEF BlocksIn
  <2> QED BY <1>6, <2>1, <2>2, <2>3 DEF PageOK
<1>8. PICK V, x : V = T \cup {<<p, b>>} /\ x = Pop(h, p, b)
  OBVIOUS
<1>9. HeapOK(x, V) /\ NewBlock(h, T, p, b)
  BY <1>4, <1>5, <1>7, <1>8, PopGood DEF Takes
<1>10. /\ H = x /\ vmas = V /\ held = {} /\ stack = <<>> /\ panic = "no"
  BY <1>2, <1>3, <1>8 DEF Init
<1>11. StackOK(stack, held)
  BY <1>10, StackEmpty
<1>12. vmas \subseteq Page \X Block
  BY <1>2, <1>5, <1>6, <1>8, <1>10
<1>13. held \cup vmas = V /\ held \cap vmas = {}
  BY <1>10
<1> QED BY <1>9, <1>10, <1>11, <1>12, <1>13 DEF IInv, Panics

-----------------------------------------------------------------------------
(* The theorems.                                                           *)

(* The inductive invariant: there are sets of pages in use and unused that *)
(* explain the lists, the blocks and the counters, and every call under    *)
(* way has a frame that it can return to.                                  *)
THEOREM Invariance == Spec => []IInv
<1>1. Init => IInv
  BY InitInv
<1>2. IInv /\ [Next]_vars => IInv'
  BY NextStep
<1> QED BY <1>1, <1>2, PTL DEF Spec

(* What the definitions of module Heap make of the lists. *)
LEMMA InUseFacts ==
    ASSUME NEW T, NEW I, NEW U, Good(H, T, I, U)
    PROVE  PagesInUse = I
<1>1. PICK k, X : k = H.kind /\ X = {}
  OBVIOUS
<1>2. Members(k, I, U, X)
  BY <1>1 DEF Good, Sound
<1>3. OnList(UnusedHead) = U
  BY OnListFacts
<1>4. ASSUME NEW p \in Page
      PROVE  p \in I <=> \/ k[SegOf(p)] = "small" /\ p \notin U
                         \/ k[SegOf(p)] \in {"large", "huge"} /\ p[2] = 0
  BY <1>1, <1>2 DEF Members, IsPage
<1>5. I \subseteq Page
  BY <1>2 DEF Members
<1> QED BY <1>1, <1>3, <1>4, <1>5 DEF PagesInUse

LEMMA TypeFact ==
    ASSUME IInv
    PROVE  TypeOK
<1>1. PICK I, U : Good(H, held \cup vmas, I, U)
  BY DEF IInv, HeapOK
<1>2. H \in HeapType /\ held \cup vmas \in SUBSET (I \X AnyBlock) /\ I \in SUBSET Page
  BY <1>1 DEF Good, Sound, Members
<1>3. held \subseteq Page \X AnyBlock
  BY <1>2
<1> QED BY <1>2, <1>3 DEF TypeOK, HeapType, IInv, Panics

LEMMA BlocksFact ==
    ASSUME IInv
    PROVE  BlocksAccounted
<1>0. PICK T : T = held \cup vmas
  OBVIOUS
<1>1. PICK I, U : Good(H, T, I, U)
  BY <1>0 DEF IInv, HeapOK
<1>2. PagesInUse = I
  BY <1>1, InUseFacts
<1>3. T \in SUBSET (I \X AnyBlock) /\ \A p \in I : PageOK(H, T, p)
  BY <1>1 DEF Good, Sound
<1>4. \A x \in T : x[1] \in I
  BY <1>3
<1>5. ASSUME NEW p \in I
      PROVE  {x[2] : x \in Taken(p)} = TakenOf(T, p)
  BY <1>0, <1>3 DEF Taken, TakenOf
<1>6. ASSUME NEW p \in I, NEW taken, taken = {x[2] : x \in Taken(p)}
      PROVE  /\ H.free[p] \cap H.local[p] = {}
             /\ taken \cap (H.free[p] \cup H.local[p]) = {}
             /\ taken \cup H.free[p] \cup H.local[p] = BlocksOf(p)
             /\ H.used[p] = Cardinality(taken)
  BY <1>3, <1>5, <1>6 DEF PageOK, BlocksIn, BlocksOf
<1> QED BY <1>0, <1>2, <1>4, <1>6 DEF BlocksAccounted, IInv

LEMMA PagesFact ==
    ASSUME IInv
    PROVE  PagesAccounted
<1>0. PICK T : T = held \cup vmas
  OBVIOUS
<1>1. PICK I, U : Good(H, T, I, U)
  BY <1>0 DEF IInv, HeapOK
<1>2. PagesInUse = I
  BY <1>1, InUseFacts
<1>3. /\ H \in HeapType /\ I \in SUBSET Page /\ U \in SUBSET Page /\ I \cap U = {}
      /\ Lists(H.list, Heads, Page, Homes(H, I, U)) /\ Counted(H, H.kind, I)
      /\ DirectOK(H, I, NDirect)
  BY <1>1 DEF Good, Sound, Members
<1>4. OnList(UnusedHead) = U
  BY <1>1, OnListFacts
<1>5. Linked(H.list, Heads \cup I \cup U)
  <2>1. PICK S, P : S = Heads \cup I \cup U /\ P = Homes(H, I, U)
    OBVIOUS
  <2>2. Lists(H.list, Heads, Page, P) /\ S \subseteq Heads \cup Page /\ Heads \subseteq S
    BY <1>3, <2>1
  <2>3. ASSUME NEW p \in Page PROVE p \in S <=> \E d \in Heads : p \in P[d]
    <3>1. p \notin Heads
      BY HeadFacts
    <3>2. \A d \in Heads : p \in P[d] <=> \/ p \in U /\ d = UnusedHead
                                          \/ p \in I /\ d = Home(H, p)
      BY <1>3, <2>1, HomeFacts
    <3>3. UnusedHead \in Heads /\ Home(H, p) \in Heads
      BY <1>3, HomeFacts, HeadFacts
    <3> QED BY <2>1, <3>1, <3>2, <3>3
  <2>4. Linked(H.list, S)
    BY ONLY <2>2, <2>3, ListsAreLinked
  <2> QED BY <2>1, <2>4
<1>6. ASSUME NEW p \in I
      PROVE  IF H.full[p] THEN p \in OnList(FullHead) ELSE p \in OnList(PagesHead(H.class[p]))
  <2>1. H.class[p] \in Class
    BY <1>3, Fields
  <2> QED BY <1>1, <2>1, OnListFacts
<1>7. \A s \in Live : H.usedPages[s] = Cardinality({p \in I : SegOf(p) = s})
  BY <1>3 DEF Counted, PagesIn, Live
<1>8. \A c \in 0..(NDirect - 1) : H.direct[c] \in I /\ H.class[H.direct[c]] = c
  BY <1>3 DEF DirectOK
<1> QED BY <1>2, <1>4, <1>5, <1>6, <1>7, <1>8 DEF PagesAccounted

LEMMA FullFact ==
    ASSUME IInv
    PROVE  FullPagesAreFull
<1>0. PICK T : T = held \cup vmas
  OBVIOUS
<1>1. PICK I, U : Good(H, T, I, U)
  BY <1>0 DEF IInv, HeapOK
<1>2. OnList(FullHead) = {p \in I : H.full[p]}
  BY <1>1, OnListFacts
<1> QED BY <1>1, <1>2 DEF Good, FullOK, FullPagesAreFull

(* The fields of the heap have their types, whatever calls are under way:  *)
(* pages_direct points at pages, never at the head of a list.              *)
THEOREM TypeCorrect == Spec => []TypeOK
BY Invariance, TypeFact, PTL

(* alloc hands out no block twice, and free loses none: every block of a   *)
(* page in use is taken, or on exactly one of its two free lists, and      *)
(* used_blocks counts those that are taken.                                *)
THEOREM NoBlockTwice == Spec => []BlocksAccounted
BY Invariance, BlocksFact, PTL

(* Every page is on the list that its fields say, used_pages counts those  *)
(* of a segment, and pages_direct points at pages of the right class, also *)
(* while page_free gives a segment back and is called again meanwhile.     *)
THEOREM NoPageLost == Spec => []PagesAccounted
BY Invariance, PagesFact, PTL

(* alloc_generic misses no free block by not looking at full_pages: free   *)
(* takes a page off that list with the first block that it gets back.      *)
THEOREM FullIsFull == Spec => []FullPagesAreFull
BY Invariance, FullFact, PTL

(* The heap is sound between any two steps. *)
THEOREM Soundness == Spec => []HeapIsSound
<1>1. IInv => HeapIsSound
  BY TypeFact, BlocksFact, PagesFact, FullFact DEF HeapIsSound
<1> QED BY <1>1, Invariance, PTL
=============================================================================
