-------------------------------- MODULE Treap --------------------------------
(***************************************************************************)
(* The treaps of mm/virtual_alloc.c down to their pointers: insertion,     *)
(* removal, rotation, and the two searches, vma_find (BY_ADDR) and the     *)
(* best fit search of vma_alloc (BY_SIZE).  VirtualAlloc keeps a treap as  *)
(* the set of its nodes; this module shows that the searches find in the   *)
(* tree what VirtualAlloc takes from the set.                              *)
(*                                                                         *)
(* One treap is modelled, either of the two.  T is a record of the fields  *)
(* of `struct treap_head', as functions on the structs, and of the root:   *)
(*    root, value, which_child, priority, parent, child.                   *)
(* A value of NULL stands for nullptr.                                     *)
(***************************************************************************)
EXTENDS Integers, FiniteSets

CONSTANTS Vma,         \* the structs
          NULL,
          MaxValue,    \* values are 0..MaxValue
          MaxLen,      \* the longest VMA, in the treap BY_ADDR
          RandomBits   \* the width of random_u32: 32 in the code

ASSUME TreapConstants ==
    /\ NULL \notin Vma /\ IsFiniteSet(Vma)
    /\ MaxValue \in Nat /\ MaxLen \in Nat \ {0} /\ RandomBits \in Nat \ {0, 1}

VARIABLES which,      \* which treap this is: "BY_ADDR" or "BY_SIZE"
          T,          \* the treap
          size,       \* vma_size of every struct, for vma_find
          members,    \* the structs that were inserted and not removed
          panicked

vars == <<which, T, size, members, panicked>>

LEFT_CHILD  == 0
RIGHT_CHILD == 1
Sides       == {LEFT_CHILD, RIGHT_CHILD}

(* The draws of random_u32 that treap_insert takes, and the priority that  *)
(* it stores, which has one bit less.                                      *)
Draws == 1..(2^RandomBits - 1)
PriorityOf(rnd) == rnd % 2^(RandomBits - 1)

Treaps == [root        : Vma \cup {NULL},
           value       : [Vma -> 0..MaxValue],
           which_child : [Vma -> Sides],
           priority    : [Vma -> {0} \cup {PriorityOf(rnd) : rnd \in Draws}],
           parent      : [Vma -> Vma \cup {NULL}],
           child       : [Vma -> [Sides -> Vma \cup {NULL}]]]
-----------------------------------------------------------------------------
(* treap_init leaves the value it is given. *)
treap_init(t, v, x) ==
    [t EXCEPT !.value[v] = x, !.which_child[v] = LEFT_CHILD, !.priority[v] = 0,
              !.parent[v] = NULL, !.child[v] = [c \in Sides |-> NULL]]

(* w takes the place that v has under its parent. *)
Replace(t, p, side, w) == IF p = NULL THEN [t EXCEPT !.root = w]
                                      ELSE [t EXCEPT !.child[p][side] = w]

(* treap_rotate without the lines that re-parent c. *)
treap_rotate_lost_child(t, d, side) ==
    LET b == t.child[d][side]
        p == t.parent[d]
        c == t.child[b][1 - side]
        s == [t EXCEPT !.child[d][side] = c, !.child[b][1 - side] = d,
                       !.parent[b] = p, !.which_child[b] = t.which_child[d],
                       !.parent[d] = b, !.which_child[d] = 1 - side]
    IN  Replace(s, p, t.which_child[d], b)

(* c, a node or NULL, becomes the child of d on the given side. *)
Adopt(t, d, side, c) ==
    LET s == [t EXCEPT !.child[d][side] = c]
    IN  IF c = NULL THEN s ELSE [s EXCEPT !.parent[c] = d, !.which_child[c] = side]

(* Rotates the child b of d on the given side up, and d down; c changes    *)
(* sides.                                                                  *)
treap_rotate(t, d, side) ==
    LET b == t.child[d][side]
        p == t.parent[d]
        s == Adopt(Adopt(t, d, side, t.child[b][1 - side]), b, 1 - side, d)
    IN  Replace([s EXCEPT !.parent[b] = p, !.which_child[b] = t.which_child[d]],
                p, t.which_child[d], b)

(* The sides exchanged. *)
SideOf_swapped(t, x, parent) == IF x <= t.value[parent] THEN RIGHT_CHILD ELSE LEFT_CHILD

(* which_child of a new value below the node parent. *)
SideOf(t, x, parent) == IF x <= t.value[parent] THEN LEFT_CHILD ELSE RIGHT_CHILD

(* A loop, from the state x, whose body is the function F on the states;   *)
(* at its end F leaves the state as it is.  No loop of these has more      *)
(* turns than there are structs.                                           *)
Turns == Cardinality(Vma)

Loop(F, x) ==
    LET at[i \in 0..Turns] == IF i = 0 THEN x ELSE F[at[i - 1]]
    IN  at[Turns]

(* One node down, towards the leaf position for the value x. *)
Lower(t, x, parent) ==
    LET next == t.child[parent][SideOf(t, x, parent)]
    IN  IF next = NULL THEN parent ELSE next

(* The leaf position for the value x: the node that gets a new child. *)
Descend(t, x) == Loop([v \in Vma |-> Lower(t, x, v)], t.root)

(* v is rotated up if its parent's priority is smaller. *)
RotateUp(t, v) ==
    LET p == t.parent[v]
    IN  IF p = NULL THEN t
        ELSE IF t.priority[p] >= t.priority[v] THEN t
        ELSE treap_rotate(t, p, t.which_child[v])

(* Rotates v up until its parent's priority is no smaller. *)
SiftUp(t, v) == Loop([u \in Treaps |-> RotateUp(u, v)], t)

(* rnd is the first non-zero draw of random_u32. *)
treap_insert(t, v, rnd) ==
    LET t1 == [t EXCEPT !.priority[v] = PriorityOf(rnd)]
    IN  IF t.root = NULL THEN [t1 EXCEPT !.root = v]
        ELSE LET p    == Descend(t1, t1.value[v])
                 side == SideOf(t1, t1.value[v], p)
             IN  SiftUp(Adopt(t1, p, side, v), v)

(* v is rotated down: its left child up if it has one, else its right child. *)
RotateDown(t, v) ==
    IF t.child[v][LEFT_CHILD] # NULL THEN treap_rotate(t, v, LEFT_CHILD)
    ELSE IF t.child[v][RIGHT_CHILD] # NULL THEN treap_rotate(t, v, RIGHT_CHILD)
    ELSE t

(* Rotates v down until it is a leaf. *)
SiftDown(t, v) == Loop([u \in Treaps |-> RotateDown(u, v)], t)

(* treap_remove that does not reinitialise what it removed. *)
treap_remove_no_init(t, v) ==
    LET t1 == SiftDown([t EXCEPT !.priority[v] = 0], v)
    IN  Replace(t1, t1.parent[v], t1.which_child[v], NULL)

treap_remove(t, v) ==
    LET t1 == SiftDown([t EXCEPT !.priority[v] = 0], v)
        t2 == Replace(t1, t1.parent[v], t1.which_child[v], NULL)
    IN  treap_init(t2, v, t2.value[v])
-----------------------------------------------------------------------------
(* One turn of the loop of vma_find, from the node v. *)
FindNext(t, len, addr, v) ==
    IF v = NULL THEN NULL
    ELSE IF addr < t.value[v] THEN t.child[v][LEFT_CHILD]
    ELSE IF t.value[v] + len[v] <= addr THEN t.child[v][RIGHT_CHILD]
    ELSE v

vma_find(t, len, addr) ==
    Loop([v \in Vma \cup {NULL} |-> FindNext(t, len, addr, v)], t.root)

(* The search that stops at the first VMA that is large enough. *)
best_fit_first(t, wanted) ==
    Loop([v \in Vma \cup {NULL} |->
             IF v = NULL THEN NULL
             ELSE IF t.value[v] + 1 < wanted THEN t.child[v][RIGHT_CHILD] ELSE v], t.root)

(* One turn of the search loop of vma_alloc, from the node s.at, when      *)
(* s.best is the best so far; a VMA's size is its value plus one.          *)
FitNext(t, wanted, s) ==
    IF s.at = NULL THEN s
    ELSE IF t.value[s.at] + 1 < wanted
         THEN [at |-> t.child[s.at][RIGHT_CHILD], best |-> s.best]
    ELSE IF t.value[s.at] + 1 > wanted
         THEN [at |-> t.child[s.at][LEFT_CHILD], best |-> s.at]
    ELSE s

best_fit(t, wanted) ==
    LET end == Loop([s \in [at : Vma \cup {NULL}, best : Vma \cup {NULL}] |->
                        FitNext(t, wanted, s)], [at |-> t.root, best |-> NULL])
    IN  IF end.at = NULL THEN end.best ELSE end.at
-----------------------------------------------------------------------------
(* The calls that virtual_alloc.c makes.                                   *)

(* The treap BY_ADDR holds VMAs that do not overlap; sizes may be equal.   *)
HasRoom(x, len, others) ==
    \A w \in others : T.value[w] + size[w] <= x \/ x + len <= T.value[w]

MayInsert(x, len) == which = "BY_ADDR" => HasRoom(x, len, members)

(* vma_init and treap_insert. *)
Insert(v, x, len, rnd) ==
    /\ ~panicked
    /\ v \notin members
    /\ MayInsert(x, len)
    /\ T' = treap_insert(treap_init(T, v, x), v, rnd)
    /\ size' = [size EXCEPT ![v] = len]
    /\ members' = members \cup {v}
    /\ UNCHANGED <<which, panicked>>

(* The value of a treap that v is not in may change: treap_remove, the     *)
(* assignment of vma_alloc or vma_merge, and treap_insert again.           *)
Reinsert(v, x, rnd) ==
    /\ ~panicked
    /\ which = "BY_SIZE"
    /\ v \in members
    /\ T.priority[v] # 0
    /\ T' = treap_insert([treap_remove(T, v) EXCEPT !.value[v] = x], v, rnd)
    /\ UNCHANGED <<which, size, members, panicked>>

(* What that does to the treap BY_ADDR, where v stays: its VMA shrinks, or *)
(* grows into the range of one that vma_merge has removed.                 *)
SetSize(v, len) ==
    /\ ~panicked
    /\ which = "BY_ADDR"
    /\ v \in members
    /\ HasRoom(T.value[v], len, members \ {v})
    /\ size' = [size EXCEPT ![v] = len]
    /\ UNCHANGED <<which, T, members, panicked>>

(* assert(treap->priority) panics. *)
Remove(v) ==
    /\ ~panicked
    /\ v \in members
    /\ IF T.priority[v] = 0
       THEN panicked' = TRUE /\ UNCHANGED <<T, members>>
       ELSE /\ T' = treap_remove(T, v)
            /\ members' = members \ {v}
            /\ UNCHANGED panicked
    /\ UNCHANGED <<which, size>>

(* _panic_halt spins for ever. *)
Halt == panicked /\ UNCHANGED vars

Init ==
    /\ which \in {"BY_ADDR", "BY_SIZE"}
    /\ T = [root        |-> NULL,
            value       |-> [v \in Vma |-> 0],
            which_child |-> [v \in Vma |-> LEFT_CHILD],
            priority    |-> [v \in Vma |-> 0],
            parent      |-> [v \in Vma |-> NULL],
            child       |-> [v \in Vma |-> [c \in Sides |-> NULL]]]
    /\ size = [v \in Vma |-> 1]
    /\ members = {}
    /\ panicked = FALSE

(* What vma_find reads next to the treap; in BY_SIZE it is the value. *)
Lengths == IF which = "BY_ADDR" THEN 1..MaxLen ELSE {1}

Next ==
    \/ \E v \in Vma, x \in 0..MaxValue, rnd \in Draws :
          \/ \E len \in Lengths : Insert(v, x, len, rnd)
          \/ Reinsert(v, x, rnd)
    \/ \E v \in Vma, len \in Lengths : SetSize(v, len)
    \/ \E v \in Vma : Remove(v)
    \/ Halt

Spec == Init /\ [][Next]_vars
-----------------------------------------------------------------------------
(* After any sequence of insertions and removals, with their rotations,    *)
(* parent and child pointers and which_child agree.  treap_remove relies   *)
(* on it to unhook a leaf (its asserts, virtual_alloc.c:292 and 296).      *)
LinksAgree ==
    /\ T.root # NULL => T.parent[T.root] = NULL
    /\ \A v \in members :
          /\ T.parent[v] = NULL => T.root = v
          /\ T.parent[v] # NULL => T.child[T.parent[v]][T.which_child[v]] = v
          /\ \A s \in Sides : T.child[v][s] # NULL =>
                T.parent[T.child[v][s]] = v /\ T.which_child[T.child[v][s]] = s

(* The structs that are reached from the root. *)
Reached ==
    {v \in Vma : \A S \in SUBSET Vma :
        (/\ T.root # NULL => T.root \in S
         /\ \A w \in S : \A s \in Sides : T.child[w][s] # NULL => T.child[w][s] \in S) => v \in S}

(* The tree holds the members and no others; a struct that is in no tree   *)
(* is in the state that treap_insert asserts (virtual_alloc.c:210-213).    *)
HoldsMembers ==
    /\ Reached = members
    /\ \A v \in Vma \ members :
          /\ T.which_child[v] = LEFT_CHILD /\ T.priority[v] = 0 /\ T.parent[v] = NULL
          /\ \A s \in Sides : T.child[v][s] = NULL

Contains(v, addr) == T.value[v] <= addr /\ addr < T.value[v] + size[v]

(* vma_find returns the VMA that contains the address, and fails only for  *)
(* an address that no VMA contains.                                        *)
FindIsRight == which = "BY_ADDR" =>
    \A addr \in 0..(MaxValue + MaxLen) :
       LET v == vma_find(T, size, addr)
       IN  IF v = NULL THEN \A w \in members : ~Contains(w, addr)
                       ELSE v \in members /\ Contains(v, addr)

(* The search of vma_alloc returns a smallest VMA that is large enough,    *)
(* and fails only when there is none, whatever the rotations did to VMAs   *)
(* of equal size.                                                          *)
BestFitIsRight == which = "BY_SIZE" =>
    \A wanted \in 1..(MaxValue + 2) :
       LET v == best_fit(T, wanted)
       IN  IF v = NULL THEN \A w \in members : T.value[w] + 1 < wanted
           ELSE /\ v \in members /\ wanted <= T.value[v] + 1
                /\ \A w \in members : wanted <= T.value[w] + 1 => T.value[v] <= T.value[w]

(* "The priority [...] is normally non-zero when the VMA is in the treap"  *)
(* (virtual_alloc.c:96-98); is_vma_free and the assert of treap_remove     *)
(* (virtual_alloc.c:270) rely on it.                                       *)
PriorityIsNonZero == \A v \in members : T.priority[v] # 0
=============================================================================
