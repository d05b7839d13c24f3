----------------------------- MODULE TreapProofs -----------------------------
(***************************************************************************)
(* The treap is a tree of its members after any sequence of calls, and the *)
(* searches of virtual_alloc.c are right in it, for any number of structs, *)
(* any values and sizes and any draws of random_u32.                       *)
(*                                                                         *)
(* Tree(t, M, sub) says that t is a search tree of the structs M.  sub is  *)
(* a ghost: sub[v] is the set of the nodes of the subtree of v.  With it a *)
(* rotation is a change of two of the sets (RotateTree), a new leaf joins  *)
(* the sets of the nodes above it (HangTree), and a leaf leaves them       *)
(* (UnhookTree).  The loops end because with every turn the subtree of a   *)
(* node grows (SiftUpTree) or shrinks (SiftDownTree, DescendPlace,         *)
(* FindTree, FitTree), and no subtree has more nodes than there are        *)
(* structs.  Nothing is assumed of the priorities: equal ones and those of *)
(* zero make a bad shape, but still a search tree.                         *)
(***************************************************************************)
EXTENDS Treap, FiniteSetTheorems, NaturalsInduction, WellFoundedInduction, TLAPS

Node == Vma \cup {NULL}

(* The order of a value x on the side s of a node with the value y. *)
Ordered(s, x, y) == IF s = LEFT_CHILD THEN x <= y ELSE y <= x

(* x is in the subtree of the child of v on the side s.  sub[w] is the set *)
(* of the nodes of the subtree of w.                                       *)
Under(t, sub, v, s, x) == t.child[v][s] # NULL /\ x \in sub[t.child[v][s]]

(* The links of the tree of the structs M agree. *)
Linked(t, M) ==
    /\ M \subseteq Vma
    /\ t.root \in M \cup {NULL} /\ (t.root = NULL <=> M = {})
    /\ t.root # NULL => t.parent[t.root] = NULL
    /\ \A v \in M :
          /\ t.parent[v] \in M \cup {NULL}
          /\ t.parent[v] = NULL => t.root = v
          /\ t.parent[v] # NULL => t.child[t.parent[v]][t.which_child[v]] = v
          /\ \A s \in Sides : t.child[v][s] # NULL =>
                /\ t.child[v][s] \in M
                /\ t.parent[t.child[v][s]] = v /\ t.which_child[t.child[v][s]] = s

(* sub[v] is the set of the nodes of the subtree of v: v, and those of its *)
(* left and of its right, which are different.  It has the parents of its  *)
(* nodes, up to v, and their subtrees.                                     *)
Spans(t, M, sub) ==
    /\ \A v \in M : sub[v] \subseteq M /\ v \in sub[v]
    /\ \A v \in M : \A x \in M : x \in sub[v] <=>
          x = v \/ \E s \in Sides : Under(t, sub, v, s, x)
    /\ \A v \in M : \A s \in Sides : ~Under(t, sub, v, s, v)
    /\ \A v \in M : \A x \in M : \A r \in Sides : \A s \in Sides :
          Under(t, sub, v, r, x) /\ Under(t, sub, v, s, x) => r = s
    /\ \A v \in M : \A x \in sub[v] : x # v => t.parent[x] \in sub[v]
    /\ \A v \in M : \A x \in sub[v] : sub[x] \subseteq sub[v]
    /\ t.root # NULL => sub[t.root] = M

(* The order of the search tree; values may be equal on both sides, since  *)
(* rotations move them.                                                    *)
Sorted(t, M, sub) ==
    \A v \in M : \A s \in Sides : \A x \in M :
       Under(t, sub, v, s, x) => Ordered(s, t.value[x], t.value[v])

Tree(t, M, sub) == Linked(t, M) /\ Spans(t, M, sub) /\ Sorted(t, M, sub)

(* What Adopt leaves, field by field. *)
LEMMA AdoptFields ==
    ASSUME NEW t, NEW d, NEW s, NEW c, t \in Treaps, d \in Vma, s \in Sides, c \in Node
    PROVE  LET u == Adopt(t, d, s, c)
           IN  /\ u \in Treaps /\ u.root = t.root /\ u.value = t.value /\ u.priority = t.priority
               /\ \A w \in Vma : \A r \in Sides :
                     u.child[w][r] = IF w = d /\ r = s THEN c ELSE t.child[w][r]
               /\ \A w \in Vma : u.parent[w] = IF w = c THEN d ELSE t.parent[w]
               /\ \A w \in Vma : u.which_child[w] = IF w = c THEN s ELSE t.which_child[w]
<1>0. NULL \notin Vma
  BY TreapConstants
<1>1. PICK t1 : t1 = [t EXCEPT !.child[d][s] = c]
  OBVIOUS
<1>2. PICK u : u = IF c = NULL THEN t1 ELSE [t1 EXCEPT !.parent[c] = d, !.which_child[c] = s]
  OBVIOUS
<1>3. u = Adopt(t, d, s, c)
  BY <1>1, <1>2 DEF Adopt
<1>4. /\ t1 \in Treaps /\ t1.root = t.root /\ t1.value = t.value /\ t1.priority = t.priority
      /\ t1.parent = t.parent /\ t1.which_child = t.which_child
      /\ \A w \in Vma : \A r \in Sides : t1.child[w][r] = IF w = d /\ r = s THEN c ELSE t.child[w][r]
  BY <1>1 DEF Treaps, Node
<1>5. /\ u \in Treaps /\ u.root = t.root /\ u.value = t.value /\ u.priority = t.priority
      /\ u.child = t1.child
      /\ \A w \in Vma : u.parent[w] = IF w = c THEN d ELSE t.parent[w]
      /\ \A w \in Vma : u.which_child[w] = IF w = c THEN s ELSE t.which_child[w]
  BY <1>0, <1>2, <1>4 DEF Treaps, Node
<1> QED BY ONLY <1>3, <1>4, <1>5

(* What Replace leaves, field by field. *)
LEMMA ReplaceFields ==
    ASSUME NEW t, NEW p, NEW q, NEW x, t \in Treaps, p \in Node, q \in Sides, x \in Node
    PROVE  LET u == Replace(t, p, q, x)
           IN  /\ u \in Treaps /\ u.value = t.value /\ u.priority = t.priority
               /\ u.parent = t.parent /\ u.which_child = t.which_child
               /\ u.root = IF p = NULL THEN x ELSE t.root
               /\ \A w \in Vma : \A r \in Sides :
                     u.child[w][r] = IF w = p /\ r = q THEN x ELSE t.child[w][r]
<1>0. NULL \notin Vma
  BY TreapConstants
<1>1. PICK u : u = Replace(t, p, q, x)
  OBVIOUS
<1>2. CASE p = NULL
  <2>1. u = [t EXCEPT !.root = x]
    BY <1>1, <1>2 DEF Replace
  <2>2. /\ u.root = x /\ u.value = t.value /\ u.priority = t.priority /\ u.parent = t.parent
        /\ u.which_child = t.which_child /\ u.child = t.child /\ u \in Treaps
    BY ONLY <2>1, t \in Treaps, x \in Node DEF Treaps, Node
  <2>3. \A w \in Vma : w # p
    BY <1>0, <1>2
  <2> QED BY ONLY <1>1, <1>2, <2>2, <2>3
<1>3. CASE p # NULL
  <2>1. u = [t EXCEPT !.child[p][q] = x]
    BY <1>1, <1>3 DEF Replace
  <2>2. p \in Vma
    BY <1>3 DEF Node
  <2>3. /\ u.root = t.root /\ u.value = t.value /\ u.priority = t.priority
        /\ u.parent = t.parent /\ u.which_child = t.which_child
        /\ u.child = [t.child EXCEPT ![p] = [t.child[p] EXCEPT ![q] = x]]
        /\ u = [root |-> u.root, value |-> u.value, which_child |-> u.which_child,
                 priority |-> u.priority, parent |-> u.parent, child |-> u.child]
    BY ONLY <2>1, t \in Treaps DEF Treaps
  <2>4. u.child \in [Vma -> [Sides -> Node]] /\ \A w \in Vma : \A r \in Sides :
           u.child[w][r] = IF w = p /\ r = q THEN x ELSE t.child[w][r]
    <3>1. t.child \in [Vma -> [Sides -> Node]]
      BY ONLY t \in Treaps DEF Treaps, Node
    <3>2. PICK k : k = [t.child[p] EXCEPT ![q] = x]
      OBVIOUS
    <3>3. k \in [Sides -> Node] /\ \A r \in Sides : k[r] = IF r = q THEN x ELSE t.child[p][r]
      BY ONLY <2>2, <3>1, <3>2, x \in Node, q \in Sides
    <3>4. u.child \in [Vma -> [Sides -> Node]]
          /\ \A w \in Vma : u.child[w] = IF w = p THEN k ELSE t.child[w]
      BY ONLY <2>2, <2>3, <3>1, <3>2, <3>3
    <3> QED BY ONLY <3>3, <3>4
  <2>5. u \in Treaps
    BY ONLY <2>3, <2>4, t \in Treaps DEF Treaps, Node
  <2> QED BY ONLY <1>1, <1>3, <2>3, <2>4, <2>5
<1> QED BY <1>2, <1>3

(* What treap_rotate leaves, field by field. *)
LEMMA RotateFields ==
    ASSUME NEW t, NEW d, NEW s, NEW o, NEW b, NEW c, NEW p, NEW u,
           t \in Treaps, d \in Vma, b \in Vma, c \in Node, p \in Node,
           s \in Sides, o = 1 - s,
           b = t.child[d][s], c = t.child[b][o], p = t.parent[d],
           b # d, c # b, c # d, p # b, p # d,
           u = treap_rotate(t, d, s)
    PROVE  /\ u \in Treaps
           /\ u.value = t.value /\ u.priority = t.priority
           /\ u.root = IF p = NULL THEN b ELSE t.root
           /\ \A w \in Vma : u.parent[w] = IF w = b THEN p ELSE IF w = d THEN b
                                           ELSE IF w = c THEN d ELSE t.parent[w]
           /\ \A w \in Vma : u.which_child[w] =
                 IF w = b THEN t.which_child[d] ELSE IF w = d THEN o
                 ELSE IF w = c THEN s ELSE t.which_child[w]
           /\ \A w \in Vma : \A r \in Sides : u.child[w][r] =
                 IF w = d /\ r = s THEN c ELSE IF w = b /\ r = o THEN d
                 ELSE IF w = p /\ r = t.which_child[d] THEN b ELSE t.child[w][r]
<1>0. NULL \notin Vma
  BY TreapConstants
<1>1. o \in Sides /\ o # s /\ \A r \in Sides : r = s \/ r = o
  BY DEF Sides, LEFT_CHILD, RIGHT_CHILD
<1>2. PICK t2 : t2 = Adopt(t, d, s, c)
  OBVIOUS
<1>3. PICK t1 : t1 = Adopt(t2, b, o, d)
  OBVIOUS
<1>4. PICK t3 : t3 = [t1 EXCEPT !.parent[b] = p, !.which_child[b] = t.which_child[d]]
  OBVIOUS
<1>5. u = Replace(t3, p, t.which_child[d], b)
  BY <1>2, <1>3, <1>4 DEF treap_rotate
<1>6. /\ t2 \in Treaps /\ t2.root = t.root /\ t2.value = t.value /\ t2.priority = t.priority
      /\ \A w \in Vma : \A r \in Sides : t2.child[w][r] = IF w = d /\ r = s THEN c ELSE t.child[w][r]
      /\ \A w \in Vma : t2.parent[w] = IF w = c THEN d ELSE t.parent[w]
      /\ \A w \in Vma : t2.which_child[w] = IF w = c THEN s ELSE t.which_child[w]
  BY ONLY <1>2, t \in Treaps, d \in Vma, c \in Node, s \in Sides, AdoptFields
<1>7. /\ t1 \in Treaps /\ t1.root = t2.root /\ t1.value = t2.value /\ t1.priority = t2.priority
      /\ \A w \in Vma : \A r \in Sides : t1.child[w][r] = IF w = b /\ r = o THEN d ELSE t2.child[w][r]
      /\ \A w \in Vma : t1.parent[w] = IF w = d THEN b ELSE t2.parent[w]
      /\ \A w \in Vma : t1.which_child[w] = IF w = d THEN o ELSE t2.which_child[w]
  <2>1. d \in Node
    BY ONLY d \in Vma DEF Node
  <2> QED BY ONLY <1>1, <1>3, <1>6, <2>1, b \in Vma, AdoptFields
<1>8. /\ t3 \in Treaps /\ t3.root = t.root /\ t3.value = t.value /\ t3.priority = t.priority
      /\ \A w \in Vma : t3.parent[w] = IF w = b THEN p ELSE IF w = d THEN b
                                       ELSE IF w = c THEN d ELSE t.parent[w]
      /\ \A w \in Vma : t3.which_child[w] =
                 IF w = b THEN t.which_child[d] ELSE IF w = d THEN o
                 ELSE IF w = c THEN s ELSE t.which_child[w]
      /\ \A w \in Vma : \A r \in Sides : t3.child[w][r] =
            IF w = d /\ r = s THEN c ELSE IF w = b /\ r = o THEN d ELSE t.child[w][r]
  <2>1. PICK q : q = t.which_child[d] /\ q \in Sides
    BY ONLY t \in Treaps, d \in Vma DEF Treaps
  <2>2. /\ t3.root = t1.root /\ t3.value = t1.value /\ t3.priority = t1.priority
        /\ t3.parent = [t1.parent EXCEPT ![b] = p]
        /\ t3.which_child = [t1.which_child EXCEPT ![b] = q]
        /\ t3.child = t1.child
        /\ t3 = [root |-> t3.root, value |-> t3.value, which_child |-> t3.which_child,
                 priority |-> t3.priority, parent |-> t3.parent, child |-> t3.child]
    BY ONLY <1>4, <1>7, <2>1 DEF Treaps
  <2>3. t3 \in Treaps
    <3>1. /\ t1.parent \in [Vma -> Node] /\ t1.which_child \in [Vma -> Sides]
          /\ t1.child \in [Vma -> [Sides -> Node]]
      BY ONLY <1>7 DEF Treaps, Node
    <3>2. t3.parent \in [Vma -> Node] /\ t3.which_child \in [Vma -> Sides]
      BY ONLY <2>1, <2>2, <3>1, b \in Vma, p \in Node
    <3> QED BY ONLY <1>7, <2>2, <3>1, <3>2 DEF Treaps, Node
  <2>4. \A w \in Vma : /\ t3.parent[w] = IF w = b THEN p ELSE t1.parent[w]
                       /\ t3.which_child[w] = IF w = b THEN q ELSE t1.which_child[w]
    BY ONLY <1>7, <2>2, b \in Vma DEF Treaps
  <2> QED BY ONLY <1>6, <1>7, <2>1, <2>2, <2>3, <2>4, b # d
<1>9. /\ u \in Treaps /\ u.value = t3.value /\ u.priority = t3.priority
      /\ u.parent = t3.parent /\ u.which_child = t3.which_child
      /\ u.root = IF p = NULL THEN b ELSE t3.root
      /\ \A w \in Vma : \A r \in Sides :
            u.child[w][r] = IF w = p /\ r = t.which_child[d] THEN b ELSE t3.child[w][r]
  <2>1. t.which_child[d] \in Sides
    BY ONLY t \in Treaps, d \in Vma DEF Treaps
  <2>2. b \in Node
    BY DEF Node
  <2> QED BY ONLY <1>5, <1>8, <2>1, <2>2, p \in Node, ReplaceFields
<1> QED BY ONLY <1>8, <1>9, p # b, p # d

(* A child is below its node. *)
IsChild(t, v, s, k) == k = t.child[v][s] /\ k # NULL

LEMMA ChildFacts ==
    ASSUME NEW t, NEW M, NEW sub, NEW v, NEW s, NEW k,
           Linked(t, M), Spans(t, M, sub), v \in M, s \in Sides, IsChild(t, v, s, k)
    PROVE  /\ k \in M /\ k # v /\ t.parent[k] = v /\ t.which_child[k] = s
           /\ k \in sub[k] /\ k \in sub[v] /\ v \notin sub[k] /\ sub[k] \subseteq sub[v]
<1>1. k \in M /\ t.parent[k] = v /\ t.which_child[k] = s
  BY ONLY Linked(t, M), v \in M, s \in Sides, IsChild(t, v, s, k) DEF Linked, IsChild
<1>2. k \in sub[k] /\ v \notin sub[k]
  BY ONLY <1>1, Spans(t, M, sub), v \in M, s \in Sides, IsChild(t, v, s, k)
     DEF Spans, Under, IsChild
<1>3. Under(t, sub, v, s, k)
  BY ONLY <1>2, IsChild(t, v, s, k) DEF Under, IsChild
<1>4. k \in sub[v]
  BY ONLY <1>1, <1>3, Spans(t, M, sub), v \in M, s \in Sides DEF Spans, Sides
<1>5. sub[k] \subseteq sub[v]
  BY ONLY <1>1, <1>4, Spans(t, M, sub), v \in M DEF Spans
<1> QED BY ONLY <1>1, <1>2, <1>4, <1>5

LEMMA SideFacts ==
    ASSUME NEW s, NEW o, s \in Sides, o = 1 - s
    PROVE  /\ o \in Sides /\ o # s /\ \A r \in Sides : r = s \/ r = o
           /\ LEFT_CHILD \in Sides /\ RIGHT_CHILD \in Sides
           /\ s = 1 - o
           /\ (s = LEFT_CHILD /\ o = RIGHT_CHILD) \/ (s = RIGHT_CHILD /\ o = LEFT_CHILD)
BY DEF Sides, LEFT_CHILD, RIGHT_CHILD

(* The structs of a rotation: the child b of d on the side s, its child c  *)
(* on the other side o, and the parent p of d.  They are different.        *)
Structs(t, d, s, o, b, c, p) == o = 1 - s /\ b = t.child[d][s] /\ c = t.child[b][o] /\ p = t.parent[d]

Different(M, d, b, c, p) ==
    /\ b \in M /\ c \in M \cup {NULL} /\ p \in M \cup {NULL}
    /\ b # d /\ c # b /\ c # d /\ p # b /\ p # d

LEMMA RotateStructs ==
    ASSUME NEW t, NEW M, NEW sub, NEW d, NEW s, NEW o, NEW b, NEW c, NEW p,
           Linked(t, M), Spans(t, M, sub), d \in M, s \in Sides, b # NULL,
           Structs(t, d, s, o, b, c, p), \A v \in M : t.which_child[v] \in Sides
    PROVE  Different(M, d, b, c, p)
<1>0. o = 1 - s /\ b = t.child[d][s] /\ c = t.child[b][o] /\ p = t.parent[d]
  BY ONLY Structs(t, d, s, o, b, c, p) DEF Structs
<1>1. o \in Sides
  BY ONLY <1>0, s \in Sides, SideFacts
<1>2. b \in M /\ b # d /\ d \notin sub[b] /\ b \in sub[b]
  <2>1. IsChild(t, d, s, b)
    BY <1>0 DEF IsChild
  <2> QED BY ONLY <2>1, Linked(t, M), Spans(t, M, sub), d \in M, s \in Sides, ChildFacts
<1>3. c # NULL => c \in M /\ c # b /\ c \in sub[b]
  <2>1. c # NULL => IsChild(t, b, o, c)
    BY <1>0 DEF IsChild
  <2> QED BY ONLY <1>1, <1>2, <2>1, Linked(t, M), Spans(t, M, sub), ChildFacts
<1>4. p \in M \cup {NULL} /\ (p # NULL => t.child[p][t.which_child[d]] = d)
  BY ONLY <1>0, Linked(t, M), d \in M DEF Linked
<1>5. M \subseteq Vma /\ NULL \notin Vma
  BY TreapConstants DEF Linked
<1>6. CASE p # NULL
  <2>1. PICK q : q = t.which_child[d] /\ q \in Sides
    BY d \in M, \A v \in M : t.which_child[v] \in Sides
  <2>2. p \in M /\ IsChild(t, p, q, d)
    BY ONLY <1>4, <1>5, <1>6, <2>1, d \in M DEF IsChild
  <2>3. d # p /\ d \in sub[p]
    BY ONLY <2>1, <2>2, Linked(t, M), Spans(t, M, sub), ChildFacts
  <2> QED BY ONLY <1>2, <1>3, <1>4, <1>5, <2>3, d \in M DEF Different
<1>7. CASE p = NULL
  BY ONLY <1>2, <1>3, <1>5, <1>7, d \in M DEF Different
<1> QED BY ONLY <1>6, <1>7

(* The subtrees of a child, in terms of Under. *)
LEMMA UnderFacts ==
    ASSUME NEW t, NEW M, NEW sub, Linked(t, M), Spans(t, M, sub)
    PROVE  /\ \A v \in M : \A s \in Sides : \A x : Under(t, sub, v, s, x) =>
                 /\ x \in M /\ x \in sub[v] /\ x # v
                 /\ t.parent[x] = v \/ Under(t, sub, v, s, t.parent[x])
                 /\ \A y \in sub[x] : Under(t, sub, v, s, y)
           /\ \A v \in M : v \in sub[v] /\ sub[v] \subseteq M
<1>1. ASSUME NEW v, NEW s, NEW x, v \in M, s \in Sides, Under(t, sub, v, s, x)
      PROVE  /\ x \in M /\ x \in sub[v] /\ x # v
             /\ t.parent[x] = v \/ Under(t, sub, v, s, t.parent[x])
             /\ \A y \in sub[x] : Under(t, sub, v, s, y)
  <2>1. PICK k : k = t.child[v][s]
    OBVIOUS
  <2>2. IsChild(t, v, s, k) /\ x \in sub[k]
    BY <1>1, <2>1 DEF Under, IsChild
  <2>3. /\ k \in M /\ t.parent[k] = v /\ k \in sub[k] /\ v \notin sub[k] /\ sub[k] \subseteq sub[v]
    BY ONLY <1>1, <2>2, Linked(t, M), Spans(t, M, sub), ChildFacts
  <2>4. sub[k] \subseteq M /\ sub[x] \subseteq sub[k] /\ (x # k => t.parent[x] \in sub[k])
    BY ONLY <2>2, <2>3, Spans(t, M, sub) DEF Spans
  <2>5. \A y : y \in sub[k] => Under(t, sub, v, s, y)
    BY ONLY <2>1, <2>2 DEF Under, IsChild
  <2> QED BY ONLY <2>2, <2>3, <2>4, <2>5
<1>2. \A v \in M : v \in sub[v] /\ sub[v] \subseteq M
  BY ONLY Spans(t, M, sub) DEF Spans
<1> QED BY ONLY <1>1, <1>2

(* The subtrees after a rotation. *)
Turned(t, M, sub, sub2, d, o, b) ==
    /\ sub2[b] = sub[d]
    /\ sub2[d] \subseteq M
    /\ \A x \in M : x \in sub2[d] <=> x = d \/ Under(t, sub, b, o, x) \/ Under(t, sub, d, o, x)
    /\ \A w \in M : w # b /\ w # d => sub2[w] = sub[w]

LEMMA TurnedExists ==
    ASSUME NEW t, NEW M, NEW sub, NEW d, NEW o, NEW b, d \in M, b \in M, b # d
    PROVE  \E sub2 : Turned(t, M, sub, sub2, d, o, b)
<1>1. PICK D : D = {x \in M : x = d \/ Under(t, sub, b, o, x) \/ Under(t, sub, d, o, x)}
  OBVIOUS
<1>2. PICK sub2 : sub2 = [w \in M |-> IF w = b THEN sub[d] ELSE IF w = d THEN D ELSE sub[w]]
  OBVIOUS
<1>3. sub2[b] = sub[d] /\ sub2[d] = D /\ \A w \in M : w # b /\ w # d => sub2[w] = sub[w]
  BY ONLY <1>2, d \in M, b \in M, b # d
<1>4. D \subseteq M
      /\ \A x \in M : x \in D <=> x = d \/ Under(t, sub, b, o, x) \/ Under(t, sub, d, o, x)
  BY ONLY <1>1
<1> QED BY ONLY <1>3, <1>4 DEF Turned

(* The links after a rotation, field by field. *)
RotatedLinks(t, u, d, s, o, b, c, p) ==
    /\ u.root = IF p = NULL THEN b ELSE t.root
    /\ \A w \in Vma : u.parent[w] = IF w = b THEN p ELSE IF w = d THEN b
                                    ELSE IF w = c THEN d ELSE t.parent[w]
    /\ \A w \in Vma : u.which_child[w] =
          IF w = b THEN t.which_child[d] ELSE IF w = d THEN o
          ELSE IF w = c THEN s ELSE t.which_child[w]
    /\ \A w \in Vma : \A r \in Sides : u.child[w][r] =
          IF w = d /\ r = s THEN c ELSE IF w = b /\ r = o THEN d
          ELSE IF w = p /\ r = t.which_child[d] THEN b ELSE t.child[w][r]

(* The structs of a rotation of d, and how they hang together. *)
Rotates(t, M, sub, d, s, o, b, c, p) ==
    /\ M \subseteq Vma /\ NULL \notin M
    /\ d \in M /\ b \in M /\ c \in M \cup {NULL} /\ p \in M \cup {NULL}
    /\ b # d /\ c # b /\ c # d /\ p # b /\ p # d
    /\ s \in Sides /\ o \in Sides /\ o # s /\ \A r \in Sides : r = s \/ r = o
    /\ t.child[d][s] = b /\ t.child[b][o] = c /\ t.parent[d] = p
    /\ t.parent[b] = d /\ t.which_child[b] = s /\ t.which_child[d] \in Sides
    /\ c # NULL => t.parent[c] = b /\ t.which_child[c] = o
    /\ p # NULL => t.child[p][t.which_child[d]] = d
    /\ p = NULL => t.root = d
    /\ t.root # b /\ (t.root = d => p = NULL)

LEMMA RotatesFacts ==
    ASSUME NEW t, NEW M, NEW sub, NEW d, NEW s, NEW b, NEW u,
           t \in Treaps, Linked(t, M), Spans(t, M, sub), d \in M, s \in Sides,
           IsChild(t, d, s, b), u = treap_rotate(t, d, s)
    PROVE  /\ u \in Treaps /\ u.value = t.value /\ u.priority = t.priority
           /\ \E o, c, p : Rotates(t, M, sub, d, s, o, b, c, p)
                           /\ RotatedLinks(t, u, d, s, o, b, c, p)
<1>1. PICK o, c, p : o = 1 - s /\ c = t.child[b][o] /\ p = t.parent[d]
  OBVIOUS
<1>2. M \subseteq Vma /\ NULL \notin Vma
  BY TreapConstants DEF Linked
<1>3. \A v \in M : t.which_child[v] \in Sides
  BY ONLY <1>2, t \in Treaps DEF Treaps
<1>4. b = t.child[d][s] /\ b # NULL
  BY ONLY IsChild(t, d, s, b) DEF IsChild
<1>5. /\ b \in M /\ c \in M \cup {NULL} /\ p \in M \cup {NULL}
      /\ b # d /\ c # b /\ c # d /\ p # b /\ p # d
  <2>1. Structs(t, d, s, o, b, c, p) /\ b # NULL
    BY ONLY <1>1, <1>4 DEF Structs
  <2>2. Different(M, d, b, c, p)
    BY ONLY <1>3, <2>1, Linked(t, M), Spans(t, M, sub), d \in M, s \in Sides, RotateStructs
  <2> QED BY ONLY <2>2 DEF Different
<1>6. o \in Sides /\ o # s /\ \A r \in Sides : r = s \/ r = o
  BY ONLY <1>1, s \in Sides, SideFacts
<1>7. t.parent[b] = d /\ t.which_child[b] = s
  BY ONLY IsChild(t, d, s, b), Linked(t, M), Spans(t, M, sub), d \in M, s \in Sides, ChildFacts
<1>8. c # NULL => t.parent[c] = b /\ t.which_child[c] = o
  BY ONLY <1>1, <1>5, <1>6, Linked(t, M) DEF Linked
<1>9. /\ p # NULL => t.child[p][t.which_child[d]] = d
      /\ p = NULL => t.root = d
      /\ t.root = d => p = NULL
  BY ONLY <1>1, <1>2, Linked(t, M), d \in M DEF Linked
<1>10. t.root # b
  BY ONLY <1>2, <1>4, <1>7, Linked(t, M), d \in M DEF Linked
<1>11. Rotates(t, M, sub, d, s, o, b, c, p)
  BY ONLY <1>1, <1>2, <1>3, <1>4, <1>5, <1>6, <1>7, <1>8, <1>9, <1>10, d \in M, s \in Sides DEF Rotates
<1>12. d \in Vma /\ b \in Vma /\ c \in Node /\ p \in Node
  BY ONLY <1>2, <1>5, d \in M DEF Node
<1>13. /\ u \in Treaps /\ u.value = t.value /\ u.priority = t.priority
       /\ RotatedLinks(t, u, d, s, o, b, c, p)
  BY ONLY <1>1, <1>4, <1>5, <1>12, t \in Treaps, s \in Sides, u = treap_rotate(t, d, s),
          RotateFields DEF RotatedLinks
<1> QED BY ONLY <1>11, <1>13

(* The sides of a node after a rotation of d, when b is its child on the   *)
(* side s and o the other side.                                            *)
TurnedSides(t, u, M, sub, sub2, d, s, o, b) ==
    \A x \in M :
       /\ Under(u, sub2, d, s, x) <=> Under(t, sub, b, o, x)
       /\ Under(u, sub2, d, o, x) <=> Under(t, sub, d, o, x)
       /\ Under(u, sub2, b, s, x) <=> Under(t, sub, b, s, x)
       /\ Under(u, sub2, b, o, x) <=> x = d \/ Under(t, sub, b, o, x) \/ Under(t, sub, d, o, x)
       /\ \A w \in M : \A r \in Sides :
             w # b /\ w # d => (Under(u, sub2, w, r, x) <=> Under(t, sub, w, r, x))

LEMMA RotateSides ==
    ASSUME NEW t, NEW M, NEW sub, NEW d, NEW s, NEW o, NEW b, NEW c, NEW p, NEW u, NEW sub2,
           Linked(t, M), Spans(t, M, sub), Rotates(t, M, sub, d, s, o, b, c, p),
           RotatedLinks(t, u, d, s, o, b, c, p), Turned(t, M, sub, sub2, d, o, b)
    PROVE  TurnedSides(t, u, M, sub, sub2, d, s, o, b)
<1>1. ASSUME NEW w \in M, NEW r \in Sides
      PROVE  t.child[w][r] = NULL \/ (t.child[w][r] \in M /\ t.parent[t.child[w][r]] = w
                                      /\ t.which_child[t.child[w][r]] = r)
  BY ONLY <1>1, Linked(t, M) DEF Linked
<1>2. \A w \in M : \A r \in Sides : u.child[w][r] =
          IF w = d /\ r = s THEN c ELSE IF w = b /\ r = o THEN d
          ELSE IF w = p /\ r = t.which_child[d] THEN b ELSE t.child[w][r]
  BY ONLY Rotates(t, M, sub, d, s, o, b, c, p), RotatedLinks(t, u, d, s, o, b, c, p)
     DEF Rotates, RotatedLinks
<1>3. ASSUME NEW x \in M
      PROVE  Under(u, sub2, d, s, x) <=> Under(t, sub, b, o, x)
  <2>1. u.child[d][s] = c /\ t.child[b][o] = c /\ (c # NULL => sub2[c] = sub[c])
    BY ONLY <1>2, Rotates(t, M, sub, d, s, o, b, c, p), Turned(t, M, sub, sub2, d, o, b)
       DEF Rotates, Turned
  <2> QED BY ONLY <2>1 DEF Under
<1>4. ASSUME NEW x \in M
      PROVE  Under(u, sub2, d, o, x) <=> Under(t, sub, d, o, x)
  <2>1. PICK e : e = t.child[d][o]
    OBVIOUS
  <2>2. e = NULL \/ (e \in M /\ e # b /\ e # d)
    BY ONLY <1>1, <2>1, Linked(t, M), Rotates(t, M, sub, d, s, o, b, c, p) DEF Rotates
  <2>3. u.child[d][o] = e /\ (e # NULL => sub2[e] = sub[e])
    BY ONLY <1>2, <2>1, <2>2, Rotates(t, M, sub, d, s, o, b, c, p), Turned(t, M, sub, sub2, d, o, b)
       DEF Rotates, Turned
  <2> QED BY ONLY <2>1, <2>3 DEF Under
<1>5. ASSUME NEW x \in M
      PROVE  Under(u, sub2, b, s, x) <=> Under(t, sub, b, s, x)
  <2>1. PICK e : e = t.child[b][s]
    OBVIOUS
  <2>2. e = NULL \/ (e \in M /\ e # b /\ e # d)
    BY ONLY <1>1, <2>1, Linked(t, M), Rotates(t, M, sub, d, s, o, b, c, p) DEF Rotates
  <2>3. u.child[b][s] = e /\ (e # NULL => sub2[e] = sub[e])
    BY ONLY <1>2, <2>1, <2>2, Rotates(t, M, sub, d, s, o, b, c, p), Turned(t, M, sub, sub2, d, o, b)
       DEF Rotates, Turned
  <2> QED BY ONLY <2>1, <2>3 DEF Under
<1>6. ASSUME NEW x \in M
      PROVE  Under(u, sub2, b, o, x) <=> x = d \/ Under(t, sub, b, o, x) \/ Under(t, sub, d, o, x)
  <2>1. u.child[b][o] = d /\ d # NULL
    BY ONLY <1>2, Rotates(t, M, sub, d, s, o, b, c, p) DEF Rotates
  <2>2. x \in sub2[d] <=> x = d \/ Under(t, sub, b, o, x) \/ Under(t, sub, d, o, x)
    BY ONLY <1>6, Turned(t, M, sub, sub2, d, o, b) DEF Turned
  <2>3. Under(u, sub2, b, o, x) <=> x \in sub2[d]
    BY ONLY <2>1 DEF Under
  <2> QED BY ONLY <2>2, <2>3
<1>7. ASSUME NEW x \in M, NEW w \in M, NEW r \in Sides, w # b, w # d
      PROVE  Under(u, sub2, w, r, x) <=> Under(t, sub, w, r, x)
  <2>1. CASE w = p /\ r = t.which_child[d]
    <3>1. u.child[w][r] = b /\ t.child[w][r] = d /\ b # NULL /\ d # NULL /\ sub2[b] = sub[d]
      BY ONLY <1>2, <1>7, <2>1, Rotates(t, M, sub, d, s, o, b, c, p), Turned(t, M, sub, sub2, d, o, b)
         DEF Rotates, Turned
    <3> QED BY ONLY <3>1 DEF Under
  <2>2. CASE ~(w = p /\ r = t.which_child[d])
    <3>1. PICK e : e = t.child[w][r]
      OBVIOUS
    <3>2. e = NULL \/ (e \in M /\ e # b /\ e # d)
      BY ONLY <1>1, <1>7, <2>2, <3>1, Rotates(t, M, sub, d, s, o, b, c, p) DEF Rotates
    <3>3. u.child[w][r] = e /\ (e # NULL => sub2[e] = sub[e])
      BY ONLY <1>2, <1>7, <2>2, <3>1, <3>2, Rotates(t, M, sub, d, s, o, b, c, p),
              Turned(t, M, sub, sub2, d, o, b) DEF Rotates, Turned
    <3> QED BY ONLY <3>1, <3>3 DEF Under
  <2> QED BY ONLY <2>1, <2>2
<1> QED BY ONLY <1>3, <1>4, <1>5, <1>6, <1>7 DEF TurnedSides

(* A rotation keeps the links. *)
LEMMA RotateLinked ==
    ASSUME NEW t, NEW M, NEW sub, NEW d, NEW s, NEW o, NEW b, NEW c, NEW p, NEW u,
           t \in Treaps, Linked(t, M), Rotates(t, M, sub, d, s, o, b, c, p),
           RotatedLinks(t, u, d, s, o, b, c, p)
    PROVE  Linked(u, M)
<1>1. /\ M \subseteq Vma /\ NULL \notin M
      /\ d \in M /\ b \in M /\ c \in M \cup {NULL} /\ p \in M \cup {NULL}
      /\ b # d /\ c # b /\ c # d /\ p # b /\ p # d
      /\ s \in Sides /\ o \in Sides /\ o # s /\ \A r \in Sides : r = s \/ r = o
  BY ONLY Rotates(t, M, sub, d, s, o, b, c, p) DEF Rotates
<1>2. \A w \in M : u.parent[w] = IF w = b THEN p ELSE IF w = d THEN b
                                 ELSE IF w = c THEN d ELSE t.parent[w]
  BY ONLY <1>1, RotatedLinks(t, u, d, s, o, b, c, p) DEF RotatedLinks
<1>3. \A w \in M : u.which_child[w] =
          IF w = b THEN t.which_child[d] ELSE IF w = d THEN o
          ELSE IF w = c THEN s ELSE t.which_child[w]
  BY ONLY <1>1, RotatedLinks(t, u, d, s, o, b, c, p) DEF RotatedLinks
<1>4. \A w \in M : \A r \in Sides : u.child[w][r] =
          IF w = d /\ r = s THEN c ELSE IF w = b /\ r = o THEN d
          ELSE IF w = p /\ r = t.which_child[d] THEN b ELSE t.child[w][r]
  BY ONLY <1>1, RotatedLinks(t, u, d, s, o, b, c, p) DEF RotatedLinks
<1>5. u.root = IF p = NULL THEN b ELSE t.root
  BY ONLY RotatedLinks(t, u, d, s, o, b, c, p) DEF RotatedLinks
<1>6. /\ u.root \in M \cup {NULL} /\ (u.root = NULL <=> M = {})
      /\ u.root # NULL => u.parent[u.root] = NULL
  <2>1. t.root \in M \cup {NULL} /\ (t.root = NULL <=> M = {})
        /\ (t.root # NULL => t.parent[t.root] = NULL)
    BY ONLY Linked(t, M) DEF Linked
  <2>2. t.root # b /\ (t.root = d => p = NULL) /\ (c # NULL => t.parent[c] = b)
    BY ONLY Rotates(t, M, sub, d, s, o, b, c, p) DEF Rotates
  <2>3. CASE p = NULL
    BY ONLY <1>1, <1>2, <1>5, <2>3
  <2>4. CASE p # NULL
    BY ONLY <1>1, <1>2, <1>5, <2>1, <2>2, <2>4
  <2> QED BY ONLY <2>3, <2>4
<1>7. ASSUME NEW w \in M
      PROVE  /\ u.parent[w] \in M \cup {NULL}
             /\ u.parent[w] = NULL => u.root = w
             /\ u.parent[w] # NULL => u.child[u.parent[w]][u.which_child[w]] = w
  <2>1. /\ t.parent[w] \in M \cup {NULL}
        /\ t.parent[w] = NULL => t.root = w
        /\ t.parent[w] # NULL => t.child[t.parent[w]][t.which_child[w]] = w
    BY ONLY <1>7, Linked(t, M) DEF Linked
  <2>2. /\ t.child[d][s] = b /\ t.child[b][o] = c /\ t.parent[d] = p
        /\ t.which_child[d] \in Sides /\ (p = NULL => t.root = d)
    BY ONLY Rotates(t, M, sub, d, s, o, b, c, p) DEF Rotates
  <2>3. CASE w = b
    BY ONLY <1>1, <1>2, <1>3, <1>4, <1>5, <2>2, <2>3
  <2>4. CASE w = d
    BY ONLY <1>1, <1>2, <1>3, <1>4, <1>5, <2>2, <2>4
  <2>5. CASE w = c
    BY ONLY <1>1, <1>2, <1>3, <1>4, <1>5, <1>7, <2>2, <2>5
  <2>6. CASE w # b /\ w # d /\ w # c
    <3>1. u.parent[w] = t.parent[w] /\ u.which_child[w] = t.which_child[w]
      BY ONLY <1>2, <1>3, <1>7, <2>6
    <3>2. t.parent[w] = NULL => p # NULL
      BY ONLY <2>1, <2>2, <2>6
    <3>3. t.parent[w] # NULL =>
             u.child[t.parent[w]][t.which_child[w]] = t.child[t.parent[w]][t.which_child[w]]
      <4>1. t.which_child[w] \in Sides
        BY ONLY <1>1, <1>7, t \in Treaps DEF Treaps
      <4>2. p # NULL => t.child[p][t.which_child[d]] = d
        BY ONLY Rotates(t, M, sub, d, s, o, b, c, p) DEF Rotates
      <4> QED BY ONLY <1>4, <2>1, <2>2, <2>6, <4>1, <4>2
    <3> QED BY ONLY <1>5, <2>1, <3>1, <3>2, <3>3
  <2> QED BY ONLY <2>3, <2>4, <2>5, <2>6
<1>8. ASSUME NEW w \in M, NEW r \in Sides, u.child[w][r] # NULL
      PROVE  /\ u.child[w][r] \in M
             /\ u.parent[u.child[w][r]] = w /\ u.which_child[u.child[w][r]] = r
  <2>1. t.child[w][r] = NULL \/ (t.child[w][r] \in M /\ t.parent[t.child[w][r]] = w
                                      /\ t.which_child[t.child[w][r]] = r)
    BY ONLY <1>8, Linked(t, M) DEF Linked
  <2>2. /\ t.parent[d] = p /\ t.parent[b] = d /\ t.which_child[b] = s
        /\ (c # NULL => t.parent[c] = b /\ t.which_child[c] = o)
    BY ONLY Rotates(t, M, sub, d, s, o, b, c, p) DEF Rotates
  <2>3. CASE w = d /\ r = s
    BY ONLY <1>1, <1>2, <1>3, <1>4, <1>8, <2>3
  <2>4. CASE w = b /\ r = o
    BY ONLY <1>1, <1>2, <1>3, <1>4, <1>8, <2>4
  <2>5. CASE w = p /\ r = t.which_child[d]
    BY ONLY <1>1, <1>2, <1>3, <1>4, <1>8, <2>5
  <2>6. CASE ~(w = d /\ r = s) /\ ~(w = b /\ r = o) /\ ~(w = p /\ r = t.which_child[d])
    <3>1. PICK e : e = t.child[w][r]
      OBVIOUS
    <3>2. u.child[w][r] = e
      BY ONLY <1>4, <1>8, <2>6, <3>1
    <3>3. e \in M /\ t.parent[e] = w /\ t.which_child[e] = r
      BY ONLY <1>8, <2>1, <3>1, <3>2
    <3>4. e # b /\ e # d /\ e # c
      BY ONLY <1>1, <2>2, <2>6, <3>3
    <3> QED BY ONLY <1>2, <1>3, <3>2, <3>3, <3>4
  <2> QED BY ONLY <2>3, <2>4, <2>5, <2>6
<1> QED BY ONLY <1>1, <1>6, <1>7, <1>8 DEF Linked

(* A rotation keeps what the subtrees are. *)
LEMMA RotateSpans ==
    ASSUME NEW t, NEW M, NEW sub, NEW d, NEW s, NEW o, NEW b, NEW c, NEW p, NEW u, NEW sub2,
           Linked(t, M), Spans(t, M, sub), Rotates(t, M, sub, d, s, o, b, c, p),
           RotatedLinks(t, u, d, s, o, b, c, p), Turned(t, M, sub, sub2, d, o, b)
    PROVE  Spans(u, M, sub2) /\ sub2[d] \subseteq sub[d] /\ b \notin sub2[d] /\ d \notin sub[b]
<1>1. /\ M \subseteq Vma /\ NULL \notin M
      /\ d \in M /\ b \in M /\ c \in M \cup {NULL} /\ p \in M \cup {NULL}
      /\ b # d /\ c # b /\ c # d /\ p # b /\ p # d
      /\ s \in Sides /\ o \in Sides /\ o # s /\ \A r \in Sides : r = s \/ r = o
  BY ONLY Rotates(t, M, sub, d, s, o, b, c, p) DEF Rotates
<1>2. TurnedSides(t, u, M, sub, sub2, d, s, o, b)
  BY ONLY Linked(t, M), Spans(t, M, sub), Rotates(t, M, sub, d, s, o, b, c, p),
          RotatedLinks(t, u, d, s, o, b, c, p), Turned(t, M, sub, sub2, d, o, b), RotateSides
<1>3. /\ sub2[b] = sub[d] /\ sub2[d] \subseteq M
      /\ \A x \in M : x \in sub2[d] <=> x = d \/ Under(t, sub, b, o, x) \/ Under(t, sub, d, o, x)
      /\ \A w \in M : w # b /\ w # d => sub2[w] = sub[w]
  BY ONLY Turned(t, M, sub, sub2, d, o, b) DEF Turned
<1>4. /\ \A v \in M : \A x \in M :
            x \in sub[v] <=> x = v \/ Under(t, sub, v, s, x) \/ Under(t, sub, v, o, x)
      /\ \A v \in M : \A x \in M : ~(Under(t, sub, v, s, x) /\ Under(t, sub, v, o, x))
      /\ \A v \in M : ~Under(t, sub, v, s, v) /\ ~Under(t, sub, v, o, v)
  BY ONLY <1>1, Spans(t, M, sub) DEF Spans
<1>5. /\ \A v \in M : \A x \in sub[v] : x # v => t.parent[x] \in sub[v]
      /\ \A v \in M : \A x \in sub[v] : sub[x] \subseteq sub[v]
      /\ \A v \in M : v \in sub[v] /\ sub[v] \subseteq M
      /\ t.root # NULL => sub[t.root] = M
  BY ONLY Spans(t, M, sub) DEF Spans
<1>6. \A v \in M : \A r \in Sides : \A x : Under(t, sub, v, r, x) =>
                 /\ x \in M /\ x \in sub[v] /\ x # v
                 /\ t.parent[x] = v \/ Under(t, sub, v, r, t.parent[x])
                 /\ \A y \in sub[x] : Under(t, sub, v, r, y)
  BY ONLY Linked(t, M), Spans(t, M, sub), UnderFacts
<1>7. \A x \in M : x \in sub[b] <=> Under(t, sub, d, s, x)
  <2>1. t.child[d][s] = b /\ b # NULL
    BY ONLY <1>1, Rotates(t, M, sub, d, s, o, b, c, p) DEF Rotates
  <2> QED BY ONLY <2>1 DEF Under
<1>8. d \notin sub[b] /\ b \in sub[d] /\ sub[b] \subseteq sub[d]
  BY ONLY <1>1, <1>4, <1>5, <1>7
<1>9. \A x \in M : Under(t, sub, b, o, x) => x \in sub[b] /\ ~Under(t, sub, d, o, x)
  BY ONLY <1>1, <1>4, <1>6, <1>7
<1>10. sub2[d] \subseteq sub[d] /\ b \notin sub2[d] /\ d \in sub2[d]
  <2>1. \A x \in sub2[d] : x \in M /\ x \in sub[d]
    BY ONLY <1>1, <1>3, <1>4, <1>5, <1>8, <1>9
  <2>2. ~Under(t, sub, b, o, b) /\ ~Under(t, sub, d, o, b)
    BY ONLY <1>1, <1>4, <1>5, <1>7
  <2> QED BY ONLY <1>1, <1>3, <2>1, <2>2
<1>11. \A v \in M : sub2[v] \subseteq M /\ v \in sub2[v]
  BY ONLY <1>1, <1>3, <1>5, <1>8, <1>10
<1>12. ASSUME NEW v \in M, NEW x \in M
       PROVE  /\ x \in sub2[v] <=> x = v \/ Under(u, sub2, v, s, x) \/ Under(u, sub2, v, o, x)
              /\ ~(Under(u, sub2, v, s, x) /\ Under(u, sub2, v, o, x))
  <2>1. CASE v = d
    BY ONLY <1>1, <1>2, <1>3, <1>9, <1>12, <2>1 DEF TurnedSides
  <2>2. CASE v = b
    <3>1. x \in sub2[b] <=> x = d \/ x \in sub[b] \/ Under(t, sub, d, o, x)
      BY ONLY <1>1, <1>3, <1>4, <1>7, <1>12
    <3>2. x \in sub[b] <=> x = b \/ Under(t, sub, b, s, x) \/ Under(t, sub, b, o, x)
      BY ONLY <1>1, <1>4, <1>12
    <3>3. ~(Under(t, sub, b, s, x) /\ (x = d \/ Under(t, sub, b, o, x) \/ Under(t, sub, d, o, x)))
      BY ONLY <1>1, <1>4, <1>7, <1>8, <1>12, <3>2
    <3> QED BY ONLY <1>2, <1>12, <2>2, <3>1, <3>2, <3>3 DEF TurnedSides
  <2>3. CASE v # b /\ v # d
    BY ONLY <1>1, <1>2, <1>3, <1>4, <1>12, <2>3 DEF TurnedSides
  <2> QED BY ONLY <2>1, <2>2, <2>3
<1>13. ASSUME NEW v \in M
       PROVE  ~Under(u, sub2, v, s, v) /\ ~Under(u, sub2, v, o, v)
  <2>1. CASE v = d
    BY ONLY <1>1, <1>2, <1>4, <1>8, <1>9, <2>1 DEF TurnedSides
  <2>2. CASE v = b
    BY ONLY <1>1, <1>2, <1>4, <1>5, <1>7, <2>2 DEF TurnedSides
  <2>3. CASE v # b /\ v # d
    BY ONLY <1>1, <1>2, <1>4, <1>13, <2>3 DEF TurnedSides
  <2> QED BY ONLY <2>1, <2>2, <2>3
<1>14. /\ t.parent[d] = p /\ t.parent[b] = d /\ (c # NULL => t.parent[c] = b)
       /\ (p = NULL => t.root = d) /\ t.root # b /\ (t.root = d => p = NULL)
  BY ONLY Rotates(t, M, sub, d, s, o, b, c, p) DEF Rotates
<1>15. \A w \in M : u.parent[w] = IF w = b THEN p ELSE IF w = d THEN b
                                  ELSE IF w = c THEN d ELSE t.parent[w]
  BY ONLY <1>1, RotatedLinks(t, u, d, s, o, b, c, p) DEF RotatedLinks
<1>16. ASSUME NEW v \in M, NEW x \in sub2[v]
       PROVE  /\ x # v => u.parent[x] \in sub2[v]
              /\ sub2[x] \subseteq sub2[v]
  <2>0. x \in M
    BY ONLY <1>11, <1>16
  <2>1. CASE v = b
    <3>1. x \in sub[d]
      BY ONLY <1>3, <1>16, <2>1
    <3>2. x # d => t.parent[x] \in sub[d]
      BY ONLY <1>1, <1>5, <3>1
    <3>3. sub[x] \subseteq sub[d]
      BY ONLY <1>1, <1>5, <3>1
    <3>4. d \in sub[d]
      BY ONLY <1>1, <1>5
    <3>5. x # b => u.parent[x] \in sub[d]
      BY ONLY <1>8, <1>15, <2>0, <3>2, <3>4
    <3>6. sub2[x] \subseteq sub[d]
      BY ONLY <1>3, <1>10, <2>0, <3>3
    <3> QED BY ONLY <1>3, <2>1, <3>5, <3>6
  <2>2. CASE v = d /\ x = d
    BY ONLY <2>2
  <2>3. CASE v = d /\ x # d
    <3>1. PICK w, r : /\ w \in M /\ r \in Sides /\ Under(t, sub, w, r, x)
                      /\ (w = b \/ w = d) /\ r = o
      BY ONLY <1>1, <1>3, <1>16, <2>0, <2>3
    <3>2. \A y \in M : Under(t, sub, w, r, y) => y \in sub2[d]
      BY ONLY <1>3, <3>1
    <3>3. /\ t.parent[x] = w \/ Under(t, sub, w, r, t.parent[x])
          /\ \A y \in sub[x] : Under(t, sub, w, r, y)
      BY ONLY <1>6, <3>1
    <3>4. \A y : Under(t, sub, w, r, y) => y \in M
      BY ONLY <1>6, <3>1
    <3>5. x # b /\ sub2[x] = sub[x]
      BY ONLY <1>3, <1>10, <1>16, <2>0, <2>3
    <3>6. u.parent[x] \in sub2[d]
      <4>1. CASE x = c
        BY ONLY <1>10, <1>15, <2>0, <2>3, <3>5, <4>1
      <4>2. CASE x # c
        <5>1. u.parent[x] = t.parent[x]
          BY ONLY <1>15, <2>0, <2>3, <3>5, <4>2
        <5>2. CASE t.parent[x] = w
          <6>1. CASE w = d
            BY ONLY <1>10, <5>1, <5>2, <6>1
          <6>2. CASE w = b
            <7>1. PICK k : k = t.child[b][o]
              OBVIOUS
            <7>2. k = c /\ k # NULL /\ x \in sub[c]
              BY ONLY <3>1, <6>2, <7>1, Rotates(t, M, sub, d, s, o, b, c, p) DEF Under, Rotates
            <7>3. t.parent[x] \in sub[c] /\ sub[c] \subseteq M
              BY ONLY <1>1, <1>5, <4>2, <7>2
            <7>4. Under(t, sub, b, o, t.parent[x])
              BY ONLY <7>1, <7>2, <7>3 DEF Under
            <7> QED BY ONLY <3>1, <3>2, <3>4, <5>1, <6>2, <7>4
          <6> QED BY ONLY <3>1, <6>1, <6>2
        <5>3. CASE Under(t, sub, w, r, t.parent[x])
          BY ONLY <3>2, <3>4, <5>1, <5>3
        <5> QED BY ONLY <3>3, <5>2, <5>3
      <4> QED BY ONLY <4>1, <4>2
    <3> QED BY ONLY <2>3, <3>2, <3>3, <3>4, <3>5, <3>6
  <2>4. CASE v # b /\ v # d
    <3>1. sub2[v] = sub[v] /\ x \in sub[v]
      BY ONLY <1>3, <1>16, <2>4
    <3>2. b \in sub[v] => d \in sub[v]
      BY ONLY <1>5, <1>14, <1>16, <2>4
    <3>3. d \in sub[v] => sub[d] \subseteq sub[v] /\ p \in sub[v]
      BY ONLY <1>5, <1>14, <1>16, <2>4
    <3>4. x = b \/ x = d => u.parent[x] \in sub[v] /\ sub2[x] \subseteq sub[v]
      BY ONLY <1>1, <1>3, <1>8, <1>10, <1>15, <3>1, <3>2, <3>3
    <3>5. x # b /\ x # d => sub2[x] = sub[x] /\ sub[x] \subseteq sub[v]
      BY ONLY <1>3, <1>5, <1>16, <2>0, <3>1
    <3>6. x = c /\ x # v => d \in sub[v]
      <4>1. x = c /\ x # v => b \in sub[v]
        BY ONLY <1>1, <1>5, <1>14, <1>16, <2>0, <3>1
      <4> QED BY ONLY <3>2, <4>1
    <3>7. x # v /\ x # b /\ x # d => u.parent[x] \in sub[v]
      BY ONLY <1>5, <1>15, <1>16, <2>0, <3>1, <3>6
    <3> QED BY ONLY <3>1, <3>4, <3>5, <3>7
  <2> QED BY ONLY <2>1, <2>2, <2>3, <2>4
<1>17. u.root # NULL => sub2[u.root] = M
  <2>1. u.root = IF p = NULL THEN b ELSE t.root
    BY ONLY RotatedLinks(t, u, d, s, o, b, c, p) DEF RotatedLinks
  <2>2. t.root \in M \cup {NULL}
    BY ONLY Linked(t, M) DEF Linked
  <2>3. CASE p = NULL
    BY ONLY <1>1, <1>3, <1>5, <1>14, <2>1, <2>3
  <2>4. CASE p # NULL
    BY ONLY <1>3, <1>5, <1>14, <2>1, <2>2, <2>4
  <2> QED BY ONLY <2>3, <2>4
<1>18. \A v \in M : \A x \in M : x \in sub2[v] <=> x = v \/ \E r \in Sides : Under(u, sub2, v, r, x)
  BY ONLY <1>1, <1>12
<1>19. \A v \in M : \A x \in M : \A q \in Sides : \A r \in Sides :
          Under(u, sub2, v, q, x) /\ Under(u, sub2, v, r, x) => q = r
  BY ONLY <1>1, <1>12
<1>20. \A v \in M : \A r \in Sides : ~Under(u, sub2, v, r, v)
  BY ONLY <1>1, <1>13
<1>21. Spans(u, M, sub2)
  BY ONLY <1>11, <1>16, <1>17, <1>18, <1>19, <1>20 DEF Spans
<1> QED BY ONLY <1>8, <1>10, <1>21

(* A rotation keeps the order. *)
LEMMA RotateSorted ==
    ASSUME NEW t, NEW M, NEW sub, NEW d, NEW s, NEW o, NEW b, NEW c, NEW p, NEW u, NEW sub2,
           t \in Treaps, u.value = t.value,
           Linked(t, M), Spans(t, M, sub), Sorted(t, M, sub), Rotates(t, M, sub, d, s, o, b, c, p),
           RotatedLinks(t, u, d, s, o, b, c, p), Turned(t, M, sub, sub2, d, o, b)
    PROVE  Sorted(u, M, sub2)
<1>1. /\ M \subseteq Vma /\ NULL \notin M /\ d \in M /\ b \in M /\ b # d
      /\ s \in Sides /\ o \in Sides /\ o # s /\ \A r \in Sides : r = s \/ r = o
  BY ONLY Rotates(t, M, sub, d, s, o, b, c, p) DEF Rotates
<1>2. TurnedSides(t, u, M, sub, sub2, d, s, o, b)
  BY ONLY Linked(t, M), Spans(t, M, sub), Rotates(t, M, sub, d, s, o, b, c, p),
          RotatedLinks(t, u, d, s, o, b, c, p), Turned(t, M, sub, sub2, d, o, b), RotateSides
<1>3. \A v \in M : \A r \in Sides : \A x \in M :
         Under(t, sub, v, r, x) => Ordered(r, t.value[x], t.value[v])
  BY ONLY Sorted(t, M, sub) DEF Sorted
<1>4. \A v \in M : t.value[v] \in Int
  BY ONLY <1>1, t \in Treaps, TreapConstants DEF Treaps
<1>5. Ordered(s, t.value[b], t.value[d])
  <2>1. t.child[d][s] = b /\ b # NULL
    BY ONLY <1>1, Rotates(t, M, sub, d, s, o, b, c, p) DEF Rotates
  <2>2. b \in sub[b]
    BY ONLY <1>1, Spans(t, M, sub) DEF Spans
  <2>3. Under(t, sub, d, s, b)
    BY ONLY <2>1, <2>2 DEF Under
  <2> QED BY ONLY <1>1, <1>3, <2>3
<1>6. \A x \in Int : \A y \in Int :
         Ordered(s, x, y) <=> Ordered(o, y, x)
  BY ONLY <1>1 DEF Ordered, Sides, LEFT_CHILD, RIGHT_CHILD
<1>7. \A x \in Int : \A y \in Int : \A z \in Int :
         Ordered(o, x, y) /\ Ordered(o, y, z) => Ordered(o, x, z)
  BY ONLY <1>1 DEF Ordered, Sides, LEFT_CHILD, RIGHT_CHILD
<1>8. Ordered(o, t.value[d], t.value[b])
  BY ONLY <1>1, <1>4, <1>5, <1>6
<1>9. \A x \in M : Under(t, sub, b, o, x) => Under(t, sub, d, s, x)
  <2>1. t.child[d][s] = b /\ b # NULL
    BY ONLY <1>1, Rotates(t, M, sub, d, s, o, b, c, p) DEF Rotates
  <2>2. \A x \in M : Under(t, sub, b, o, x) => x \in sub[b]
    BY ONLY <1>1, Linked(t, M), Spans(t, M, sub), UnderFacts
  <2> QED BY ONLY <2>1, <2>2 DEF Under
<1>10. ASSUME NEW v \in M, NEW r \in Sides, NEW x \in M, Under(u, sub2, v, r, x)
       PROVE  Ordered(r, t.value[x], t.value[v])
  <2>1. CASE v = d /\ r = s
    BY ONLY <1>1, <1>2, <1>3, <1>9, <1>10, <2>1 DEF TurnedSides
  <2>2. CASE v = d /\ r = o
    BY ONLY <1>1, <1>2, <1>3, <1>10, <2>2 DEF TurnedSides
  <2>3. CASE v = b /\ r = s
    BY ONLY <1>1, <1>2, <1>3, <1>10, <2>3 DEF TurnedSides
  <2>4. CASE v = b /\ r = o
    <3>1. x = d \/ Under(t, sub, b, o, x) \/ Under(t, sub, d, o, x)
      BY ONLY <1>2, <1>10, <2>4 DEF TurnedSides
    <3>2. CASE x = d
      BY ONLY <1>8, <2>4, <3>2
    <3>3. CASE Under(t, sub, b, o, x)
      BY ONLY <1>1, <1>3, <1>10, <2>4, <3>3
    <3>4. CASE Under(t, sub, d, o, x)
      <4>1. Ordered(o, t.value[x], t.value[d])
        BY ONLY <1>1, <1>3, <1>10, <3>4
      <4> QED BY ONLY <1>1, <1>4, <1>7, <1>8, <1>10, <2>4, <4>1
    <3> QED BY ONLY <3>1, <3>2, <3>3, <3>4
  <2>5. CASE v # b /\ v # d
    BY ONLY <1>2, <1>3, <1>10, <2>5 DEF TurnedSides
  <2> QED BY ONLY <1>1, <1>10, <2>1, <2>2, <2>3, <2>4, <2>5
<1> QED BY ONLY <1>10, u.value = t.value DEF Sorted

(* The struct w is the same in two treaps. *)
Same(t, u, w) ==
    /\ u.parent[w] = t.parent[w] /\ u.which_child[w] = t.which_child[w]
    /\ \A r \in Sides : u.child[w][r] = t.child[w][r]

(* A rotation of d keeps the tree.  b has then the subtree that d had, and *)
(* d a smaller one.                                                        *)
LEMMA RotateTree ==
    ASSUME NEW t, NEW M, NEW sub, NEW d, NEW s, NEW b, NEW u,
           t \in Treaps, Tree(t, M, sub), d \in M, s \in Sides,
           IsChild(t, d, s, b), u = treap_rotate(t, d, s)
    PROVE  /\ u \in Treaps /\ u.value = t.value /\ u.priority = t.priority
           /\ \A w \in Vma \ M : Same(t, u, w)
           /\ \E sub2 : /\ Tree(u, M, sub2) /\ sub2[b] = sub[d] /\ d \in sub[d] /\ d \notin sub[b]
                        /\ sub[b] \subseteq sub[d] /\ sub2[d] \subseteq sub[d] /\ b \in sub[d] /\ b \notin sub2[d]
<1>1. Linked(t, M) /\ Spans(t, M, sub) /\ Sorted(t, M, sub)
  BY ONLY Tree(t, M, sub) DEF Tree
<1>2. u \in Treaps /\ u.value = t.value /\ u.priority = t.priority
  BY ONLY <1>1, t \in Treaps, d \in M, s \in Sides, IsChild(t, d, s, b), u = treap_rotate(t, d, s),
          RotatesFacts
<1>3. PICK o, c, p : Rotates(t, M, sub, d, s, o, b, c, p) /\ RotatedLinks(t, u, d, s, o, b, c, p)
  BY ONLY <1>1, t \in Treaps, d \in M, s \in Sides, IsChild(t, d, s, b), u = treap_rotate(t, d, s),
          RotatesFacts
<1>4. b \in M /\ b # d
  BY ONLY <1>3 DEF Rotates
<1>5. PICK sub2 : Turned(t, M, sub, sub2, d, o, b)
  BY ONLY <1>4, d \in M, TurnedExists
<1>6. Linked(u, M)
  BY ONLY <1>1, <1>3, t \in Treaps, RotateLinked
<1>7. Spans(u, M, sub2) /\ sub2[d] \subseteq sub[d] /\ b \notin sub2[d] /\ d \notin sub[b]
  BY ONLY <1>1, <1>3, <1>5, RotateSpans
<1>8. Sorted(u, M, sub2)
  BY ONLY <1>1, <1>2, <1>3, <1>5, t \in Treaps, RotateSorted
<1>9. b \in sub[d] /\ sub[b] \subseteq sub[d]
  BY ONLY <1>1, d \in M, s \in Sides, IsChild(t, d, s, b), ChildFacts
<1>10. d \in sub[d] /\ sub2[b] = sub[d]
  BY ONLY <1>1, <1>5, d \in M DEF Spans, Turned
<1>11. ASSUME NEW w \in Vma \ M
       PROVE  Same(t, u, w)
  <2>1. w # b /\ w # d /\ w # c /\ w # p
    BY ONLY <1>3, <1>11, TreapConstants DEF Rotates
  <2> QED BY ONLY <1>3, <1>11, <2>1 DEF RotatedLinks, Same
<1>12. Tree(u, M, sub2)
  BY ONLY <1>6, <1>7, <1>8 DEF Tree
<1> QED BY ONLY <1>2, <1>7, <1>9, <1>10, <1>11, <1>12

(* The tree depends on the fields of its members. *)
LEMMA SameTree ==
    ASSUME NEW t, NEW u, NEW M, NEW sub, Tree(t, M, sub), u.root = t.root,
           \A w \in M : Same(t, u, w) /\ u.value[w] = t.value[w],
           \A w \in M : t.which_child[w] \in Sides
    PROVE  Tree(u, M, sub)
<1>1. /\ \A w \in M : u.parent[w] = t.parent[w] /\ u.which_child[w] = t.which_child[w]
      /\ \A w \in M : \A r \in Sides : u.child[w][r] = t.child[w][r]
  BY DEF Same
<1>2. \A w \in M : \A r \in Sides : \A x : Under(u, sub, w, r, x) <=> Under(t, sub, w, r, x)
  BY ONLY <1>1 DEF Under
<1>3. Linked(t, M) /\ Spans(t, M, sub) /\ Sorted(t, M, sub)
  BY ONLY Tree(t, M, sub) DEF Tree
<1>4. Linked(u, M)
  <2>1. ASSUME NEW w \in M
        PROVE  /\ u.parent[w] \in M \cup {NULL}
               /\ u.parent[w] = NULL => u.root = w
               /\ u.parent[w] # NULL => u.child[u.parent[w]][u.which_child[w]] = w
    BY ONLY <1>1, <1>3, <2>1, u.root = t.root, \A x \in M : t.which_child[x] \in Sides DEF Linked
  <2>2. ASSUME NEW w \in M, NEW r \in Sides, u.child[w][r] # NULL
        PROVE  /\ u.child[w][r] \in M
               /\ u.parent[u.child[w][r]] = w /\ u.which_child[u.child[w][r]] = r
    BY ONLY <1>1, <1>3, <2>2 DEF Linked
  <2>3. /\ M \subseteq Vma /\ u.root \in M \cup {NULL} /\ (u.root = NULL <=> M = {})
        /\ u.root # NULL => u.parent[u.root] = NULL
    BY ONLY <1>1, <1>3, u.root = t.root DEF Linked
  <2> QED BY ONLY <2>1, <2>2, <2>3 DEF Linked
<1>5. Spans(u, M, sub)
  <2>1. /\ \A v \in M : sub[v] \subseteq M /\ v \in sub[v]
        /\ \A v \in M : \A x \in M : x \in sub[v] <=> x = v \/ \E s \in Sides : Under(t, sub, v, s, x)
        /\ \A v \in M : \A s \in Sides : ~Under(t, sub, v, s, v)
        /\ \A v \in M : \A x \in M : \A r \in Sides : \A s \in Sides :
              Under(t, sub, v, r, x) /\ Under(t, sub, v, s, x) => r = s
        /\ \A v \in M : \A x \in sub[v] : x # v => t.parent[x] \in sub[v]
        /\ \A v \in M : \A x \in sub[v] : sub[x] \subseteq sub[v]
        /\ t.root # NULL => sub[t.root] = M
    BY ONLY <1>3 DEF Spans
  <2>2. \A v \in M : \A x \in sub[v] : x # v => u.parent[x] \in sub[v]
    BY ONLY <1>1, <2>1
  <2>3. \A v \in M : \A x \in M : x \in sub[v] <=> x = v \/ \E s \in Sides : Under(u, sub, v, s, x)
    BY ONLY <1>2, <2>1
  <2>4. /\ \A v \in M : \A s \in Sides : ~Under(u, sub, v, s, v)
        /\ \A v \in M : \A x \in M : \A r \in Sides : \A s \in Sides :
              Under(u, sub, v, r, x) /\ Under(u, sub, v, s, x) => r = s
    BY ONLY <1>2, <2>1
  <2> QED BY ONLY <2>1, <2>2, <2>3, <2>4, u.root = t.root DEF Spans
<1>6. Sorted(u, M, sub)
  <2>1. \A w \in M : u.value[w] = t.value[w]
    OBVIOUS
  <2> QED BY ONLY <1>2, <1>3, <2>1 DEF Sorted
<1> QED BY ONLY <1>4, <1>5, <1>6 DEF Tree

(* The treap y holds the values and priorities of t, and the structs       *)
(* outside M as they are.                                                  *)
Like(t, y, M) == y.value = t.value /\ y.priority = t.priority /\ \A w \in Vma \ M : Same(t, y, w)

LEMMA LikeFacts ==
    ASSUME NEW M
    PROVE  /\ \A t : Like(t, t, M)
           /\ \A t, u, y : Like(t, u, M) /\ Like(u, y, M) => Like(t, y, M)
BY DEF Like, Same

(* The subtrees after v is hung below p. *)
Hung(M, sub, sub2, p, v) ==
    /\ sub2[v] = {v}
    /\ \A w \in M : sub2[w] = {x \in M \cup {v} : x \in sub[w] \/ (x = v /\ p \in sub[w])}

(* The value x has a free place below p. *)
Placed(t, M, sub, x, p) ==
    \A w \in M : \A r \in Sides : Under(t, sub, w, r, p) => Ordered(r, x, t.value[w])

HasPlace(t, M, sub, x, p, s) ==
    /\ p \in M /\ s \in Sides /\ t.child[p][s] = NULL
    /\ Ordered(s, x, t.value[p]) /\ Placed(t, M, sub, x, p)

(* A leaf is hung where the search for its value ends. *)
Hangs(t, u, N) == u \in Treaps /\ Like(t, u, N) /\ \E sub2 : Tree(u, N, sub2)

Bare(t, v) == \A r \in Sides : t.child[v][r] = NULL

LEMMA HangTree ==
    ASSUME NEW t, NEW M, NEW sub, NEW p, NEW s, NEW v, NEW u, NEW N,
           t \in Treaps, Tree(t, M, sub), v \in Vma, v \notin M,
           Bare(t, v), HasPlace(t, M, sub, t.value[v], p, s), u = Adopt(t, p, s, v), N = M \cup {v}
    PROVE  Hangs(t, u, N)
<1>0. /\ p \in M /\ s \in Sides /\ t.child[p][s] = NULL
      /\ Ordered(s, t.value[v], t.value[p])
      /\ \A w \in M : \A r \in Sides : Under(t, sub, w, r, p) => Ordered(r, t.value[v], t.value[w])
      /\ \A r \in Sides : t.child[v][r] = NULL
  BY DEF HasPlace, Placed, Bare
<1>1. Linked(t, M) /\ Spans(t, M, sub) /\ Sorted(t, M, sub)
  BY ONLY Tree(t, M, sub) DEF Tree
<1>2. M \subseteq Vma /\ NULL \notin Vma /\ p # v /\ v # NULL /\ p \in Vma /\ v \in Node
  BY <1>0, <1>1, TreapConstants DEF Linked, Node
<1>3. /\ u \in Treaps /\ u.root = t.root /\ u.value = t.value /\ u.priority = t.priority
      /\ \A w \in Vma : \A r \in Sides : u.child[w][r] = IF w = p /\ r = s THEN v ELSE t.child[w][r]
      /\ \A w \in Vma : u.parent[w] = IF w = v THEN p ELSE t.parent[w]
      /\ \A w \in Vma : u.which_child[w] = IF w = v THEN s ELSE t.which_child[w]
  BY ONLY <1>2, t \in Treaps, <1>0, u = Adopt(t, p, s, v), AdoptFields
<1>4. N = M \cup {v}
  OBVIOUS
<1>5. Like(t, u, N)
  BY ONLY <1>0, <1>3, <1>4 DEF Same, Like
<1>6. PICK sub2 : Hung(M, sub, sub2, p, v)
  <2>1. PICK f : f = [w \in M \cup {v} |-> IF w = v THEN {v} ELSE
                        {x \in M \cup {v} : x \in sub[w] \/ (x = v /\ p \in sub[w])}]
    OBVIOUS
  <2> QED BY <2>1 DEF Hung
<1>7. /\ sub2[v] = {v}
      /\ \A w \in M : sub2[w] \subseteq N
      /\ \A w \in M : \A x \in N : x \in sub2[w] <=> x \in sub[w] \/ (x = v /\ p \in sub[w])
  BY ONLY <1>4, <1>6 DEF Hung
<1>8. /\ \A w \in M : w \in sub[w] /\ sub[w] \subseteq M
      /\ \A w \in M : \A x \in M : x \in sub[w] <=> x = w \/ \E r \in Sides : Under(t, sub, w, r, x)
      /\ \A w \in M : \A r \in Sides : ~Under(t, sub, w, r, w)
      /\ \A w \in M : \A x \in M : \A q \in Sides : \A r \in Sides :
            Under(t, sub, w, q, x) /\ Under(t, sub, w, r, x) => q = r
      /\ \A w \in M : \A x \in sub[w] : x # w => t.parent[x] \in sub[w]
      /\ \A w \in M : \A x \in sub[w] : sub[x] \subseteq sub[w]
      /\ t.root # NULL => sub[t.root] = M
  BY ONLY <1>1 DEF Spans
<1>9. /\ t.root \in M \cup {NULL} /\ (t.root = NULL <=> M = {})
      /\ t.root # NULL => t.parent[t.root] = NULL
      /\ \A w \in M :
            /\ t.parent[w] \in M \cup {NULL}
            /\ t.parent[w] = NULL => t.root = w
            /\ t.parent[w] # NULL => t.child[t.parent[w]][t.which_child[w]] = w
            /\ \A r \in Sides : t.child[w][r] # NULL =>
                  /\ t.child[w][r] \in M
                  /\ t.parent[t.child[w][r]] = w /\ t.which_child[t.child[w][r]] = r
  BY ONLY <1>1 DEF Linked
<1>10. \A r \in Sides : u.child[v][r] = NULL
  BY ONLY <1>0, <1>2, <1>3, v \in Vma
<1>11. \A r \in Sides : \A x : ~Under(u, sub2, v, r, x)
  BY ONLY <1>10 DEF Under
<1>12. ASSUME NEW w \in M, NEW r \in Sides
       PROVE  /\ \A x \in M : Under(u, sub2, w, r, x) <=> Under(t, sub, w, r, x)
              /\ Under(u, sub2, w, r, v) <=> (w = p /\ r = s) \/ Under(t, sub, w, r, p)
  <2>1. CASE w = p /\ r = s
    <3>1. u.child[w][r] = v /\ t.child[w][r] = NULL
      BY ONLY <1>2, <1>3, <2>1, <1>0, <1>0
    <3>2. \A x : Under(u, sub2, w, r, x) <=> x = v
      BY ONLY <1>2, <1>7, <3>1 DEF Under
    <3>3. \A x : ~Under(t, sub, w, r, x)
      BY ONLY <3>1 DEF Under
    <3> QED BY ONLY <2>1, <3>2, <3>3, v \notin M
  <2>2. CASE ~(w = p /\ r = s)
    <3>1. PICK k : k = t.child[w][r]
      OBVIOUS
    <3>2. u.child[w][r] = k
      BY ONLY <1>2, <1>3, <1>12, <2>2, <3>1
    <3>3. k = NULL \/ k \in M
      BY ONLY <1>9, <1>12, <3>1
    <3>4. /\ \A x : Under(u, sub2, w, r, x) <=> k # NULL /\ x \in sub2[k]
          /\ \A x : Under(t, sub, w, r, x) <=> k # NULL /\ x \in sub[k]
      BY ONLY <3>1, <3>2 DEF Under
    <3>5. k # NULL => /\ \A x \in M : x \in sub2[k] <=> x \in sub[k]
                      /\ v \in sub2[k] <=> p \in sub[k]
      BY ONLY <1>4, <1>7, <1>8, <3>3, v \notin M
    <3> QED BY ONLY <2>2, <3>4, <3>5
  <2> QED BY ONLY <2>1, <2>2
<1>13. Linked(u, N)
  <2>1. /\ N \subseteq Vma /\ u.root \in N \cup {NULL} /\ (u.root = NULL <=> N = {})
        /\ (u.root # NULL => u.parent[u.root] = NULL)
    BY ONLY <1>2, <1>3, <1>4, <1>9, v \in Vma, v \notin M, <1>0
  <2>2. ASSUME NEW w \in N
        PROVE  /\ u.parent[w] \in N \cup {NULL}
               /\ u.parent[w] = NULL => u.root = w
               /\ u.parent[w] # NULL => u.child[u.parent[w]][u.which_child[w]] = w
    <3>1. CASE w = v
      <4>1. u.parent[w] = p /\ u.which_child[w] = s
        BY ONLY <1>3, <3>1, v \in Vma
      <4>2. u.child[p][s] = w
        BY ONLY <1>2, <1>3, <3>1, <1>0
      <4>3. p \in N /\ p # NULL
        BY ONLY <1>2, <1>4, <1>0
      <4> QED BY ONLY <4>1, <4>2, <4>3
    <3>2. CASE w # v
      <4>1. w \in M /\ w \in Vma /\ u.parent[w] = t.parent[w] /\ u.which_child[w] = t.which_child[w]
        BY ONLY <1>2, <1>3, <1>4, <2>2, <3>2
      <4>2. t.which_child[w] \in Sides
        BY ONLY <4>1, t \in Treaps DEF Treaps
      <4>3. t.parent[w] # NULL => ~(t.parent[w] = p /\ t.which_child[w] = s)
        BY ONLY <1>2, <1>9, <4>1, <1>0
      <4>4. t.parent[w] # NULL =>
               u.child[t.parent[w]][t.which_child[w]] = t.child[t.parent[w]][t.which_child[w]]
        BY ONLY <1>2, <1>3, <1>9, <4>1, <4>2, <4>3
      <4> QED BY ONLY <1>3, <1>4, <1>9, <4>1, <4>4
    <3> QED BY ONLY <3>1, <3>2
  <2>3. ASSUME NEW w \in N, NEW r \in Sides, u.child[w][r] # NULL
        PROVE  /\ u.child[w][r] \in N
               /\ u.parent[u.child[w][r]] = w /\ u.which_child[u.child[w][r]] = r
    <3>1. w \in M
      BY ONLY <1>4, <1>10, <2>3
    <3>2. CASE w = p /\ r = s
      BY ONLY <1>2, <1>3, <1>4, <2>3, <3>1, <3>2, v \in Vma
    <3>3. CASE ~(w = p /\ r = s)
      <4>1. PICK k : k = t.child[w][r]
        OBVIOUS
      <4>2. u.child[w][r] = k
        BY ONLY <1>2, <1>3, <2>3, <3>1, <3>3, <4>1
      <4>3. k \in M /\ t.parent[k] = w /\ t.which_child[k] = r
        BY ONLY <1>9, <2>3, <3>1, <4>1, <4>2
      <4>4. u.parent[k] = w /\ u.which_child[k] = r
        BY ONLY <1>2, <1>3, <4>3, v \notin M
      <4> QED BY ONLY <1>4, <4>2, <4>3, <4>4
    <3> QED BY ONLY <3>2, <3>3
  <2> QED BY ONLY <2>1, <2>2, <2>3 DEF Linked
<1>14. \A w \in N : sub2[w] \subseteq N /\ w \in sub2[w]
  BY ONLY <1>4, <1>7, <1>8
<1>15. \A w \in N : \A x \in N : x \in sub2[w] <=> x = w \/ \E r \in Sides : Under(u, sub2, w, r, x)
  <2>1. ASSUME NEW w \in M, NEW x \in M
        PROVE  x \in sub2[w] <=> x = w \/ \E r \in Sides : Under(u, sub2, w, r, x)
    BY ONLY <1>4, <1>7, <1>8, <1>12, <2>1, v \notin M
  <2>2. ASSUME NEW w \in M
        PROVE  v \in sub2[w] <=> v = w \/ \E r \in Sides : Under(u, sub2, w, r, v)
    <3>1. v \in sub2[w] <=> p \in sub[w]
      BY ONLY <1>4, <1>7, <1>8, <2>2, v \notin M
    <3>2. p \in sub[w] <=> p = w \/ \E r \in Sides : Under(t, sub, w, r, p)
      BY ONLY <1>8, <2>2, <1>0
    <3> QED BY ONLY <1>12, <2>2, <3>1, <3>2, v \notin M, <1>0
  <2>3. ASSUME NEW x \in N
        PROVE  x \in sub2[v] <=> x = v \/ \E r \in Sides : Under(u, sub2, v, r, x)
    BY ONLY <1>7, <1>11
  <2> QED BY ONLY <1>4, <2>1, <2>2, <2>3
<1>16. /\ \A w \in N : \A r \in Sides : ~Under(u, sub2, w, r, w)
       /\ \A w \in N : \A x \in N : \A q \in Sides : \A r \in Sides :
             Under(u, sub2, w, q, x) /\ Under(u, sub2, w, r, x) => q = r
  <2>1. \A r \in Sides : ~Under(t, sub, p, r, p)
    BY ONLY <1>8, <1>0
  <2>2. \A w \in M : \A q \in Sides : \A r \in Sides :
             Under(u, sub2, w, q, v) /\ Under(u, sub2, w, r, v) => q = r
    BY ONLY <1>8, <1>12, <2>1, <1>0
  <2> QED BY ONLY <1>4, <1>8, <1>11, <1>12, <2>2
<1>17. ASSUME NEW w \in N, NEW x \in sub2[w]
       PROVE  (x # w => u.parent[x] \in sub2[w]) /\ sub2[x] \subseteq sub2[w]
  <2>1. CASE w = v
    BY ONLY <1>7, <1>17, <2>1
  <2>2. CASE w # v /\ x = v
    <3>1. w \in M /\ p \in sub[w] /\ u.parent[v] = p
      BY ONLY <1>2, <1>3, <1>4, <1>7, <1>8, <1>14, <1>17, <2>2, v \in Vma, v \notin M
    <3>2. p \in sub2[w] /\ v \in sub2[w]
      BY ONLY <1>4, <1>7, <1>17, <2>2, <3>1, <1>0
    <3> QED BY ONLY <1>7, <2>2, <3>1, <3>2
  <2>3. CASE w # v /\ x # v
    <3>1. w \in M /\ x \in M /\ x \in sub[w]
      BY ONLY <1>4, <1>7, <1>14, <1>17, <2>3
    <3>2. sub[x] \subseteq sub[w] /\ sub[w] \subseteq M
      BY ONLY <1>8, <3>1
    <3>3. \A y \in sub2[x] : y \in sub2[w]
      BY ONLY <1>4, <1>7, <1>14, <3>1, <3>2
    <3>4. x # w => t.parent[x] \in sub[w]
      BY ONLY <1>8, <3>1
    <3>5. u.parent[x] = t.parent[x]
      BY ONLY <1>2, <1>3, <2>3, <3>1
    <3> QED BY ONLY <1>4, <1>7, <3>1, <3>2, <3>3, <3>4, <3>5
  <2> QED BY ONLY <2>1, <2>2, <2>3
<1>18. u.root # NULL => sub2[u.root] = N
  <2>1. t.root \in M /\ sub[t.root] = M
    BY ONLY <1>8, <1>9, <1>0
  <2>2. \A x \in N : x \in sub2[t.root]
    BY ONLY <1>4, <1>7, <2>1, <1>0
  <2>3. PICK z : z = t.root /\ z \in M
    BY ONLY <2>1
  <2>4. sub2[z] \subseteq N /\ \A x \in N : x \in sub2[z]
    BY ONLY <1>7, <2>2, <2>3
  <2>5. sub2[z] = N
    BY ONLY <2>4
  <2> QED BY ONLY <1>3, <2>3, <2>5
<1>19. Spans(u, N, sub2)
  BY ONLY <1>14, <1>15, <1>16, <1>17, <1>18 DEF Spans
<1>20. Sorted(u, N, sub2)
  <2>1. ASSUME NEW w \in N, NEW r \in Sides, NEW x \in N, Under(u, sub2, w, r, x)
        PROVE  Ordered(r, t.value[x], t.value[w])
    <3>1. w \in M
      BY ONLY <1>4, <1>11, <2>1
    <3>2. CASE x = v
      BY ONLY <1>12, <2>1, <3>1, <3>2, <1>0
    <3>3. CASE x # v
      BY ONLY <1>1, <1>4, <1>12, <2>1, <3>1, <3>3 DEF Sorted
    <3> QED BY ONLY <3>2, <3>3
  <2> QED BY ONLY <1>3, <2>1 DEF Sorted
<1>21. Tree(u, N, sub2)
  BY ONLY <1>4, <1>13, <1>19, <1>20 DEF Tree
<1> QED BY ONLY <1>3, <1>5, <1>21 DEF Hangs

(* The first leaf. *)
LEMMA PlantTree ==
    ASSUME NEW t, NEW sub, NEW v, NEW u, t \in Treaps, Tree(t, {}, sub), v \in Vma,
           \A r \in Sides : t.child[v][r] = NULL, t.parent[v] = NULL, u = [t EXCEPT !.root = v]
    PROVE  /\ u \in Treaps /\ u.value = t.value /\ u.priority = t.priority
           /\ \A w \in Vma \ {v} : Same(t, u, w)
           /\ \E sub2 : Tree(u, {v}, sub2)
<1>1. v # NULL
  BY TreapConstants
<1>2. /\ u \in Treaps /\ u.root = v /\ u.value = t.value /\ u.priority = t.priority
      /\ u.parent = t.parent /\ u.which_child = t.which_child /\ u.child = t.child
  BY ONLY t \in Treaps, v \in Vma, u = [t EXCEPT !.root = v] DEF Treaps
<1>3. PICK sub2 : sub2 = [w \in {v} |-> {v}]
  OBVIOUS
<1>4. sub2[v] = {v}
  BY ONLY <1>3
<1>5. u.parent[v] = NULL /\ \A r \in Sides : u.child[v][r] = NULL
  BY <1>2
<1>6. \A r \in Sides : \A x : ~Under(u, sub2, v, r, x)
  BY ONLY <1>5 DEF Under
<1>7. Linked(u, {v})
  BY ONLY <1>1, <1>2, <1>5, v \in Vma DEF Linked
<1>8. Spans(u, {v}, sub2)
  BY ONLY <1>2, <1>4, <1>6 DEF Spans
<1>9. Sorted(u, {v}, sub2)
  BY ONLY <1>6 DEF Sorted
<1>10. \A w \in Vma \ {v} : Same(t, u, w)
  BY ONLY <1>2 DEF Same
<1> QED BY ONLY <1>2, <1>7, <1>8, <1>9, <1>10 DEF Tree

(* A leaf is unhooked. *)
Unhooks(t, v, u) ==
    /\ \A r \in Sides : t.child[v][r] = NULL
    /\ u = Replace(t, t.parent[v], t.which_child[v], NULL)

LEMMA UnhookTree ==
    ASSUME NEW t, NEW M, NEW sub, NEW v, NEW u, t \in Treaps, Tree(t, M, sub), v \in M,
           Unhooks(t, v, u)
    PROVE  /\ u \in Treaps /\ u.value = t.value /\ u.priority = t.priority
           /\ \A w \in Vma \ M : Same(t, u, w)
           /\ \E sub2 : Tree(u, M \ {v}, sub2)
<1>1. Linked(t, M) /\ Spans(t, M, sub) /\ Sorted(t, M, sub)
  BY ONLY Tree(t, M, sub) DEF Tree
<1>2. M \subseteq Vma /\ NULL \notin Vma /\ v # NULL /\ v \in Vma
  BY <1>1, TreapConstants DEF Linked
<1>0. /\ \A r \in Sides : t.child[v][r] = NULL
      /\ u = Replace(t, t.parent[v], t.which_child[v], NULL)
  BY DEF Unhooks
<1>3. PICK p, q : p = t.parent[v] /\ q = t.which_child[v]
  OBVIOUS
<1>4. p \in Node /\ q \in Sides /\ NULL \in Node
  BY ONLY <1>2, <1>3, t \in Treaps DEF Treaps, Node
<1>5. /\ u \in Treaps /\ u.value = t.value /\ u.priority = t.priority
      /\ u.parent = t.parent /\ u.which_child = t.which_child
      /\ u.root = IF p = NULL THEN NULL ELSE t.root
      /\ \A w \in Vma : \A r \in Sides :
            u.child[w][r] = IF w = p /\ r = q THEN NULL ELSE t.child[w][r]
  BY ONLY <1>3, <1>4, <1>0, t \in Treaps, ReplaceFields
<1>6. PICK N : N = M \ {v}
  OBVIOUS
<1>7. PICK sub2 : sub2 = [w \in M |-> sub[w] \ {v}]
  OBVIOUS
<1>8. \A w \in M : sub2[w] = sub[w] \ {v}
  BY ONLY <1>7
<1>9. /\ \A w \in M : w \in sub[w] /\ sub[w] \subseteq M
      /\ \A w \in M : \A x \in M : x \in sub[w] <=> x = w \/ \E r \in Sides : Under(t, sub, w, r, x)
      /\ \A w \in M : \A r \in Sides : ~Under(t, sub, w, r, w)
      /\ \A w \in M : \A x \in M : \A y \in Sides : \A r \in Sides :
            Under(t, sub, w, y, x) /\ Under(t, sub, w, r, x) => y = r
      /\ \A w \in M : \A x \in sub[w] : x # w => t.parent[x] \in sub[w]
      /\ \A w \in M : \A x \in sub[w] : sub[x] \subseteq sub[w]
      /\ t.root # NULL => sub[t.root] = M
  BY ONLY <1>1 DEF Spans
<1>10. /\ t.root \in M \cup {NULL} /\ (t.root = NULL <=> M = {})
       /\ t.root # NULL => t.parent[t.root] = NULL
       /\ \A w \in M :
            /\ t.parent[w] \in M \cup {NULL}
            /\ t.parent[w] = NULL => t.root = w
            /\ t.parent[w] # NULL => t.child[t.parent[w]][t.which_child[w]] = w
            /\ \A r \in Sides : t.child[w][r] # NULL =>
                  /\ t.child[w][r] \in M
                  /\ t.parent[t.child[w][r]] = w /\ t.which_child[t.child[w][r]] = r
  BY ONLY <1>1 DEF Linked
<1>11. sub[v] = {v}
  <2>1. \A r \in Sides : \A x : ~Under(t, sub, v, r, x)
    BY ONLY <1>0 DEF Under
  <2>2. \A x \in sub[v] : x = v
    BY ONLY <1>9, <2>1, v \in M
  <2> QED BY ONLY <1>9, <2>2, v \in M
<1>12. ASSUME NEW x \in M, t.parent[x] = v
       PROVE  FALSE
  <2>1. t.which_child[x] \in Sides
    BY ONLY <1>2, <1>12, t \in Treaps DEF Treaps
  <2>2. t.child[v][t.which_child[x]] = x /\ x # NULL
    BY ONLY <1>2, <1>10, <1>12
  <2> QED BY ONLY <2>1, <2>2, <1>0
<1>13. ASSUME NEW w \in M, NEW r \in Sides, t.child[w][r] = v
       PROVE  w = p /\ r = q
  BY ONLY <1>2, <1>3, <1>10, <1>13
<1>14. ASSUME NEW w \in N, NEW r \in Sides
       PROVE  \A x \in N : Under(u, sub2, w, r, x) <=> Under(t, sub, w, r, x)
  <2>1. w \in M /\ w \in Vma
    BY ONLY <1>2, <1>6, <1>14
  <2>2. PICK k : k = t.child[w][r]
    OBVIOUS
  <2>3. \A x : Under(t, sub, w, r, x) <=> k # NULL /\ x \in sub[k]
    BY ONLY <2>2 DEF Under
  <2>4. CASE w = p /\ r = q
    <3>1. k = v
      BY ONLY <1>2, <1>3, <1>10, <2>1, <2>2, <2>4, v \in M
    <3>2. u.child[w][r] = NULL
      BY ONLY <1>5, <1>14, <2>1, <2>4
    <3>3. \A x : ~Under(u, sub2, w, r, x)
      BY ONLY <3>2 DEF Under
    <3> QED BY ONLY <1>6, <1>11, <2>3, <3>1, <3>3
  <2>5. CASE ~(w = p /\ r = q)
    <3>1. u.child[w][r] = k
      BY ONLY <1>5, <1>14, <2>1, <2>2, <2>5
    <3>2. k # v /\ (k = NULL \/ k \in M)
      BY ONLY <1>10, <1>13, <1>14, <2>1, <2>2, <2>5
    <3>3. \A x : Under(u, sub2, w, r, x) <=> k # NULL /\ x \in sub2[k]
      BY ONLY <3>1 DEF Under
    <3>4. k # NULL => \A x \in N : x \in sub2[k] <=> x \in sub[k]
      BY ONLY <1>6, <1>8, <3>2
    <3> QED BY ONLY <2>3, <3>3, <3>4
  <2> QED BY ONLY <2>4, <2>5
<1>15. Linked(u, N)
  <2>1. /\ N \subseteq Vma /\ u.root \in N \cup {NULL} /\ (u.root = NULL <=> N = {})
        /\ (u.root # NULL => u.parent[u.root] = NULL)
    <3>1. CASE p = NULL
      <4>1. t.root = v
        BY ONLY <1>3, <1>10, <3>1, v \in M
      <4>2. M = {v}
        BY ONLY <1>2, <1>9, <1>11, <4>1
      <4> QED BY ONLY <1>5, <1>6, <3>1, <4>2
    <3>2. CASE p # NULL
      <4>1. t.root # v
        BY ONLY <1>2, <1>3, <1>10, <3>2
      <4> QED BY ONLY <1>2, <1>5, <1>6, <1>10, <3>2, <4>1, v \in M
    <3> QED BY ONLY <3>1, <3>2
  <2>2. ASSUME NEW w \in N
        PROVE  /\ u.parent[w] \in N \cup {NULL}
               /\ u.parent[w] = NULL => u.root = w
               /\ u.parent[w] # NULL => u.child[u.parent[w]][u.which_child[w]] = w
    <3>1. w \in M /\ w # v /\ t.which_child[w] \in Sides
      BY ONLY <1>2, <1>6, <2>2, t \in Treaps DEF Treaps
    <3>2. t.parent[w] # v
      BY ONLY <1>12, <3>1
    <3>3. t.parent[w] = NULL => t.root = w /\ p # NULL
      BY ONLY <1>3, <1>10, <3>1, v \in M
    <3>4. t.parent[w] # NULL => ~(t.parent[w] = p /\ t.which_child[w] = q)
      BY ONLY <1>3, <1>10, <3>1, v \in M
    <3>5. t.parent[w] # NULL =>
             u.child[t.parent[w]][t.which_child[w]] = t.child[t.parent[w]][t.which_child[w]]
      BY ONLY <1>2, <1>5, <1>10, <3>1, <3>4
    <3> QED BY ONLY <1>5, <1>6, <1>10, <3>1, <3>2, <3>3, <3>5
  <2>3. ASSUME NEW w \in N, NEW r \in Sides, u.child[w][r] # NULL
        PROVE  /\ u.child[w][r] \in N
               /\ u.parent[u.child[w][r]] = w /\ u.which_child[u.child[w][r]] = r
    <3>1. w \in M /\ w \in Vma
      BY ONLY <1>2, <1>6, <2>3
    <3>2. PICK k : k = t.child[w][r]
      OBVIOUS
    <3>3. u.child[w][r] = k /\ ~(w = p /\ r = q)
      BY ONLY <1>5, <2>3, <3>1, <3>2
    <3>4. k \in M /\ t.parent[k] = w /\ t.which_child[k] = r /\ k # v
      BY ONLY <1>10, <1>13, <2>3, <3>1, <3>2, <3>3
    <3> QED BY ONLY <1>5, <1>6, <3>3, <3>4
  <2> QED BY ONLY <2>1, <2>2, <2>3 DEF Linked
<1>16. Spans(u, N, sub2)
  <2>1. \A w \in N : w \in M /\ w # v /\ sub2[w] \subseteq N /\ w \in sub2[w]
    BY ONLY <1>6, <1>8, <1>9
  <2>2. \A w \in N : \A x \in N : x \in sub2[w] <=> x \in sub[w]
    BY ONLY <1>6, <1>8
  <2>3. \A w \in N : \A x \in N : x \in sub2[w] <=> x = w \/ \E r \in Sides : Under(u, sub2, w, r, x)
    BY ONLY <1>9, <1>14, <2>1, <2>2
  <2>4. \A w \in N : \A r \in Sides : ~Under(u, sub2, w, r, w)
    BY ONLY <1>9, <1>14, <2>1
  <2>5. \A w \in N : \A x \in N : \A y \in Sides : \A r \in Sides :
            Under(u, sub2, w, y, x) /\ Under(u, sub2, w, r, x) => y = r
    BY ONLY <1>9, <1>14, <2>1
  <2>6. ASSUME NEW w \in N, NEW x \in sub2[w]
        PROVE  (x # w => u.parent[x] \in sub2[w]) /\ sub2[x] \subseteq sub2[w]
    <3>1. w \in M /\ x \in M /\ x \in sub[w] /\ x # v
      BY ONLY <1>6, <1>8, <2>1, <2>6
    <3>2. sub[x] \subseteq sub[w] /\ (x # w => t.parent[x] \in sub[w])
      BY ONLY <1>9, <3>1
    <3>3. t.parent[x] # v
      BY ONLY <1>12, <3>1
    <3> QED BY ONLY <1>5, <1>8, <3>1, <3>2, <3>3
  <2>7. u.root # NULL => sub2[u.root] = N
    BY ONLY <1>5, <1>6, <1>8, <1>9, <1>10
  <2> QED BY ONLY <2>1, <2>3, <2>4, <2>5, <2>6, <2>7 DEF Spans
<1>17. Sorted(u, N, sub2)
  BY ONLY <1>1, <1>5, <1>6, <1>14 DEF Sorted
<1>18. \A w \in Vma \ M : Same(t, u, w)
  <2>1. p \in M \cup {NULL}
    BY ONLY <1>3, <1>10, v \in M
  <2> QED BY ONLY <1>2, <1>5, <2>1 DEF Same
<1>19. Tree(u, M \ {v}, sub2)
  BY ONLY <1>6, <1>15, <1>16, <1>17 DEF Tree
<1> QED BY ONLY <1>5, <1>18, <1>19

(* Induction, over a set of numbers. *)
LEMMA SetInduction ==
    ASSUME NEW S, 0 \in S, \A n \in Nat : n \in S => n + 1 \in S
    PROVE  \A n \in Nat : n \in S
<1> SUFFICES ASSUME NEW n \in Nat, n \notin S PROVE FALSE
  OBVIOUS
<1> DEFINE U == {k \in Nat : k \notin S}
<1>1. n \in U
  OBVIOUS
<1>2. PICK R : R = OpToRel(<, Nat)
  OBVIOUS
<1>3. IsWellFoundedOn(R, Nat)
  BY <1>2, NatLessThanWellFounded
<1>4. \E x \in U : \A y \in U : ~(<<y, x>> \in R)
  <2>1. U \subseteq Nat
    OBVIOUS
  <2> HIDE DEF U
  <2> QED BY <1>1, <1>3, <2>1, WFMin
<1>5. PICK x \in U : \A y \in U : ~(<<y, x>> \in R)
  BY <1>4
<1>6. x # 0 /\ x - 1 \in Nat /\ x - 1 \in U
  OBVIOUS
<1>7. <<x - 1, x>> \in R
  BY <1>2, <1>6 DEF OpToRel
<1> QED BY <1>5, <1>6, <1>7

(* The states of a loop. *)
LoopRun(g, F, x, n) == g = [i \in 0..n |-> IF i = 0 THEN x ELSE F[g[i - 1]]]

LEMMA LoopRuns ==
    ASSUME NEW F, NEW x, NEW m, m \in Nat
    PROVE  \E g : LoopRun(g, F, x, m)
<1> DEFINE S == {n \in Nat : \E g : LoopRun(g, F, x, n)}
<1>1. 0 \in S
  <2>1. PICK g : g = [i \in 0..0 |-> x]
    OBVIOUS
  <2>2. g = [i \in 0..0 |-> IF i = 0 THEN x ELSE F[g[i - 1]]]
    <3>1. \A i \in 0..0 : i = 0
      OBVIOUS
    <3> QED BY ONLY <2>1, <3>1
  <2> QED BY <2>2 DEF LoopRun
<1>2. ASSUME NEW n \in Nat, n \in S PROVE n + 1 \in S
  <2>1. PICK g : LoopRun(g, F, x, n)
    BY <1>2
  <2>2. PICK k : k = n + 1 /\ k \in Nat /\ k # 0 /\ k - 1 = n /\ n \in 0..n /\ k \notin 0..n
    BY ONLY n \in Nat
  <2>3. \A i \in 0..k : i = k \/ (i \in 0..n /\ (i # 0 => i - 1 \in 0..n))
    BY ONLY <2>2, n \in Nat
  <2>4. PICK y : y = F[g[n]]
    OBVIOUS
  <2>5. PICK h : h = [i \in 0..k |-> IF i = k THEN y ELSE g[i]]
    OBVIOUS
  <2>6. \A i \in 0..n : h[i] = g[i] /\ i \in 0..k
    BY ONLY <2>2, <2>5, n \in Nat
  <2>7. ASSUME NEW i \in 0..k PROVE h[i] = IF i = 0 THEN x ELSE F[h[i - 1]]
    <3>1. CASE i = k
      <4>1. h[k] = y /\ h[k - 1] = g[n]
        BY ONLY <2>2, <2>5, <2>6, <2>7, <3>1
      <4> QED BY ONLY <2>2, <2>4, <3>1, <4>1
    <3>2. CASE i # k
      <4>1. i \in 0..n /\ (i # 0 => i - 1 \in 0..n)
        BY ONLY <2>3, <2>7, <3>2
      <4>2. g[i] = IF i = 0 THEN x ELSE F[g[i - 1]]
        BY ONLY <2>1, <4>1 DEF LoopRun
      <4>3. h[i] = g[i] /\ (i # 0 => h[i - 1] = g[i - 1])
        BY ONLY <2>6, <4>1
      <4> QED BY ONLY <4>2, <4>3
    <3> QED BY ONLY <3>1, <3>2
  <2>8. DOMAIN h = 0..k /\ h = [i \in 0..k |-> h[i]]
    BY ONLY <2>5
  <2>9. LoopRun(h, F, x, k)
    BY ONLY <2>7, <2>8 DEF LoopRun
  <2> QED BY <2>2, <2>9
<1>3. \A n \in Nat : n \in S
  <2> HIDE DEF S
  <2> QED BY ONLY <1>1, <1>2, SetInduction
<1> QED BY <1>3

(* The state of a loop is in P[0] at its start and in P[i] after i turns.  *)
LEMMA LoopInvariant ==
    ASSUME NEW F, NEW x, NEW P, x \in P[0], Turns \in Nat,
           \A i \in Nat : \A y : y \in P[i] => F[y] \in P[i + 1]
    PROVE  Loop(F, x) \in P[Turns]
<1>1. PICK n : n = Turns /\ n \in Nat
  OBVIOUS
<1>2. PICK g : g = CHOOSE h : LoopRun(h, F, x, n)
  OBVIOUS
<1>3. LoopRun(g, F, x, n)
  BY ONLY <1>1, <1>2, LoopRuns
<1>4. Loop(F, x) = g[n]
  BY ONLY <1>1, <1>2 DEF Loop, LoopRun
<1> DEFINE S == {i \in Nat : i <= n => g[i] \in P[i]}
<1>5. 0 \in S
  <2>1. 0 \in 0..n /\ g[0] = x
    BY ONLY <1>1, <1>3 DEF LoopRun
  <2> QED BY <2>1
<1>6. ASSUME NEW i \in Nat, i \in S PROVE i + 1 \in S
  <2>1. SUFFICES ASSUME i + 1 <= n PROVE g[i + 1] \in P[i + 1]
    OBVIOUS
  <2>2. g[i] \in P[i]
    BY <1>1, <1>6, <2>1
  <2>3. PICK k : k = i + 1 /\ k \in 0..n /\ k # 0 /\ k - 1 = i
    BY ONLY <1>1, <2>1, i \in Nat
  <2>4. g[k] = F[g[i]]
    BY ONLY <1>3, <2>3 DEF LoopRun
  <2>5. F[g[i]] \in P[i + 1]
    BY <2>2
  <2> QED BY ONLY <2>3, <2>4, <2>5
<1>7. n \in S
  <2> HIDE DEF S
  <2> QED BY ONLY <1>1, <1>5, <1>6, SetInduction
<1> QED BY ONLY <1>1, <1>4, <1>7

LEMMA TurnsFacts == Turns \in Nat /\ \A M : M \subseteq Vma => IsFiniteSet(M) /\ Cardinality(M) \in Nat
                                                                 /\ Cardinality(M) <= Turns
<1>1. IsFiniteSet(Vma)
  BY TreapConstants
<1>2. Turns \in Nat
  BY <1>1, FS_CardinalityType DEF Turns
<1>3. \A M : M \subseteq Vma => IsFiniteSet(M) /\ Cardinality(M) <= Turns
  BY <1>1, FS_Subset, FS_CardinalityType DEF Turns
<1>4. \A M : IsFiniteSet(M) => Cardinality(M) \in Nat
  BY FS_CardinalityType
<1> QED BY <1>2, <1>3, <1>4

LEMMA CardinalityGrows ==
    ASSUME NEW A, NEW B, NEW x, A \subseteq B, B \subseteq Vma, x \in B, x \notin A
    PROVE  /\ Cardinality(A) \in Nat /\ Cardinality(B) \in Nat
           /\ Cardinality(A) < Cardinality(B) /\ Cardinality(B) <= Turns
<1>1. IsFiniteSet(B) /\ IsFiniteSet(A) /\ Cardinality(B) <= Turns
  BY TurnsFacts
<1>2. A # B
  OBVIOUS
<1>3. Cardinality(A) <= Cardinality(B) /\ Cardinality(A) # Cardinality(B)
  BY <1>1, <1>2, FS_Subset
<1>4. Cardinality(A) \in Nat /\ Cardinality(B) \in Nat
  BY <1>1, FS_CardinalityType
<1> QED BY ONLY <1>1, <1>3, <1>4

(* The states of the loop of treap_insert: it has ended, or the subtree of *)
(* v has more nodes than there were turns.                                 *)
Rising(t, y, M, v, i) ==
    /\ y \in Treaps /\ Like(t, y, M)
    /\ \E sub : Tree(y, M, sub) /\ (RotateUp(y, v) = y \/ Cardinality(sub[v]) > i)

LEMMA RisingStep ==
    ASSUME NEW t, NEW y, NEW M, NEW v, NEW i, i \in Nat, v \in M, Rising(t, y, M, v, i)
    PROVE  Rising(t, RotateUp(y, v), M, v, i + 1)
<1>1. y \in Treaps /\ Like(t, y, M)
  BY DEF Rising
<1>2. PICK sub : Tree(y, M, sub) /\ (RotateUp(y, v) = y \/ Cardinality(sub[v]) > i)
  BY DEF Rising
<1>3. CASE RotateUp(y, v) = y
  BY ONLY <1>1, <1>2, <1>3 DEF Rising
<1>4. CASE RotateUp(y, v) # y
  <2>1. PICK p, q : p = y.parent[v] /\ q = y.which_child[v]
    OBVIOUS
  <2>2. PICK u : u = RotateUp(y, v)
    OBVIOUS
  <2>3. p # NULL /\ u = treap_rotate(y, p, q)
    BY ONLY <1>4, <2>1, <2>2 DEF RotateUp
  <2>4. Linked(y, M) /\ Spans(y, M, sub)
    BY ONLY <1>2 DEF Tree
  <2>5. M \subseteq Vma /\ NULL \notin M
    BY ONLY <2>4, TreapConstants DEF Linked
  <2>6. q \in Sides
    BY ONLY <1>1, <2>1, <2>5, v \in M DEF Treaps
  <2>7. p \in M /\ IsChild(y, p, q, v)
    BY ONLY <2>1, <2>3, <2>4, <2>5, v \in M DEF Linked, IsChild
  <2>8. /\ u \in Treaps /\ u.value = y.value /\ u.priority = y.priority
        /\ \A w \in Vma \ M : Same(y, u, w)
    BY ONLY <1>1, <1>2, <2>3, <2>6, <2>7, RotateTree
  <2>9. PICK sub2 : /\ Tree(u, M, sub2) /\ sub2[v] = sub[p] /\ p \in sub[p] /\ p \notin sub[v]
                    /\ sub[v] \subseteq sub[p]
    BY ONLY <1>1, <1>2, <2>3, <2>6, <2>7, RotateTree
  <2>10. Like(y, u, M)
    BY ONLY <2>8 DEF Like
  <2>11. Like(t, u, M)
    BY ONLY <1>1, <2>10, LikeFacts
  <2>12. sub[p] \subseteq Vma
    BY ONLY <2>4, <2>5, <2>7 DEF Spans
  <2>13. Cardinality(sub[v]) \in Nat /\ Cardinality(sub[p]) \in Nat
         /\ Cardinality(sub[v]) < Cardinality(sub[p])
    BY ONLY <2>9, <2>12, CardinalityGrows
  <2>14. Cardinality(sub2[v]) > i + 1
    BY ONLY <1>2, <1>4, <2>9, <2>13, i \in Nat
  <2> QED BY ONLY <2>2, <2>8, <2>9, <2>11, <2>14 DEF Rising
<1> QED BY ONLY <1>3, <1>4

(* SiftUp keeps the tree, and its loop ends.                               *)
LEMMA SiftUpTree ==
    ASSUME NEW t, NEW M, NEW sub, NEW v, NEW u,
           t \in Treaps, Tree(t, M, sub), v \in M, u = SiftUp(t, v)
    PROVE  u \in Treaps /\ Like(t, u, M) /\ RotateUp(u, v) = u /\ \E sub2 : Tree(u, M, sub2)
<1>1. PICK F : F = [y \in Treaps |-> RotateUp(y, v)]
  OBVIOUS
<1>2. u = Loop(F, t)
  BY <1>1 DEF SiftUp
<1>3. PICK P : P = [i \in Nat |-> {y \in Treaps : Rising(t, y, M, v, i)}]
  OBVIOUS
<1>4. \A i \in Nat : \A y : y \in P[i] <=> y \in Treaps /\ Rising(t, y, M, v, i)
  BY ONLY <1>3
<1>5. /\ M \subseteq Vma /\ \A s : Tree(u, M, s) => s[v] \subseteq M /\ v \in s[v]
      /\ sub[v] \subseteq M /\ v \in sub[v]
  BY DEF Tree, Linked, Spans
<1>6. t \in P[0]
  <2>1. Cardinality({}) < Cardinality(sub[v]) /\ Cardinality({}) \in Nat /\ Cardinality(sub[v]) \in Nat
    <3>1. {} \subseteq sub[v] /\ sub[v] \subseteq Vma /\ v \in sub[v] /\ v \notin {}
      BY ONLY <1>5
    <3> QED BY ONLY <3>1, CardinalityGrows
  <2>2. Cardinality(sub[v]) > 0
    BY ONLY <2>1
  <2>3. Like(t, t, M)
    BY ONLY LikeFacts
  <2>4. Rising(t, t, M, v, 0)
    BY ONLY <2>2, <2>3, t \in Treaps, Tree(t, M, sub) DEF Rising
  <2> QED BY ONLY <1>4, <2>4, t \in Treaps
<1>7. \A i \in Nat : \A y : y \in P[i] => F[y] \in P[i + 1]
  <2>1. ASSUME NEW i \in Nat, NEW y, y \in P[i] PROVE F[y] \in P[i + 1]
    <3>1. y \in Treaps /\ Rising(t, y, M, v, i)
      BY ONLY <1>4, <2>1
    <3>2. PICK z : z = RotateUp(y, v)
      OBVIOUS
    <3>3. F[y] = z
      BY ONLY <1>1, <3>1, <3>2
    <3>4. PICK k : k = i + 1 /\ k \in Nat
      BY ONLY i \in Nat
    <3>5. Rising(t, z, M, v, k)
      BY ONLY <3>1, <3>2, <3>4, v \in M, i \in Nat, RisingStep
    <3>6. z \in Treaps
      BY ONLY <3>5 DEF Rising
    <3> QED BY ONLY <1>4, <3>3, <3>4, <3>5, <3>6
  <2> QED BY ONLY <2>1
<1>8. Turns \in Nat
  BY TurnsFacts
<1>9. u \in P[Turns]
  BY ONLY <1>2, <1>6, <1>7, <1>8, LoopInvariant
<1>10. u \in Treaps /\ Rising(t, u, M, v, Turns)
  BY ONLY <1>4, <1>8, <1>9
<1>11. PICK sub2 : Tree(u, M, sub2) /\ (RotateUp(u, v) = u \/ Cardinality(sub2[v]) > Turns)
  BY ONLY <1>10 DEF Rising
<1>12. sub2[v] \subseteq Vma
  BY ONLY <1>5, <1>11
<1>13. Cardinality(sub2[v]) \in Nat /\ Cardinality(sub2[v]) <= Turns
  BY ONLY <1>12, TurnsFacts
<1>14. Like(t, u, M)
  BY ONLY <1>10 DEF Rising
<1>15. RotateUp(u, v) = u
  BY ONLY <1>8, <1>11, <1>13
<1> QED BY ONLY <1>10, <1>11, <1>14, <1>15

(* The states of the loop of treap_remove: v is a leaf, or its subtree has *)
(* one node less for each turn.                                            *)
Sinking(t, y, M, v, i) ==
    /\ y \in Treaps /\ Like(t, y, M)
    /\ \E sub : Tree(y, M, sub) /\ ((\A s \in Sides : y.child[v][s] = NULL)
                                    \/ Cardinality(sub[v]) + i <= Turns)

LEMMA SinkingStep ==
    ASSUME NEW t, NEW y, NEW M, NEW v, NEW i, i \in Nat, v \in M, Sinking(t, y, M, v, i)
    PROVE  Sinking(t, RotateDown(y, v), M, v, i + 1)
<1>1. y \in Treaps /\ Like(t, y, M)
  BY DEF Sinking
<1>2. PICK sub : Tree(y, M, sub) /\ ((\A s \in Sides : y.child[v][s] = NULL)
                                    \/ Cardinality(sub[v]) + i <= Turns)
  BY DEF Sinking
<1>3. PICK u : u = RotateDown(y, v)
  OBVIOUS
<1>4. LEFT_CHILD \in Sides /\ RIGHT_CHILD \in Sides
  BY DEF Sides
<1>5. CASE \A s \in Sides : y.child[v][s] = NULL
  <2>1. u = y
    BY ONLY <1>3, <1>4, <1>5 DEF RotateDown
  <2> QED BY ONLY <1>1, <1>2, <1>3, <1>5, <2>1 DEF Sinking
<1>6. CASE ~\A s \in Sides : y.child[v][s] = NULL
  <2>1. PICK s : s \in Sides /\ y.child[v][s] # NULL /\ u = treap_rotate(y, v, s)
    BY ONLY <1>3, <1>4, <1>6 DEF RotateDown, Sides
  <2>2. PICK b : b = y.child[v][s]
    OBVIOUS
  <2>3. IsChild(y, v, s, b)
    BY ONLY <2>1, <2>2 DEF IsChild
  <2>4. /\ u \in Treaps /\ u.value = y.value /\ u.priority = y.priority
        /\ \A w \in Vma \ M : Same(y, u, w)
    BY ONLY <1>1, <1>2, <2>1, <2>3, v \in M, RotateTree
  <2>5. PICK sub2 : /\ Tree(u, M, sub2) /\ sub2[v] \subseteq sub[v] /\ b \in sub[v] /\ b \notin sub2[v]
    BY ONLY <1>1, <1>2, <2>1, <2>3, v \in M, RotateTree
  <2>6. Like(y, u, M)
    BY ONLY <2>4 DEF Like
  <2>7. Like(t, u, M)
    BY ONLY <1>1, <2>6, LikeFacts
  <2>8. sub[v] \subseteq Vma
    BY ONLY <1>2, v \in M DEF Tree, Linked, Spans
  <2>9. Cardinality(sub2[v]) \in Nat /\ Cardinality(sub[v]) \in Nat
        /\ Cardinality(sub2[v]) < Cardinality(sub[v])
    BY ONLY <2>5, <2>8, CardinalityGrows
  <2>10. Cardinality(sub2[v]) + (i + 1) <= Turns
    <3>1. Turns \in Nat
      BY TurnsFacts
    <3> QED BY ONLY <1>2, <1>6, <2>9, <3>1, i \in Nat
  <2> QED BY ONLY <1>3, <2>4, <2>5, <2>7, <2>10 DEF Sinking
<1> QED BY ONLY <1>5, <1>6

(* SiftDown keeps the tree, and makes v a leaf.                            *)
LEMMA SiftDownTree ==
    ASSUME NEW t, NEW M, NEW sub, NEW v, NEW u,
           t \in Treaps, Tree(t, M, sub), v \in M, u = SiftDown(t, v)
    PROVE  /\ u \in Treaps /\ Like(t, u, M) /\ \A s \in Sides : u.child[v][s] = NULL
           /\ \E sub2 : Tree(u, M, sub2)
<1>1. PICK F : F = [y \in Treaps |-> RotateDown(y, v)]
  OBVIOUS
<1>2. u = Loop(F, t)
  BY <1>1 DEF SiftDown
<1>3. PICK P : P = [i \in Nat |-> {y \in Treaps : Sinking(t, y, M, v, i)}]
  OBVIOUS
<1>4. \A i \in Nat : \A y : y \in P[i] <=> y \in Treaps /\ Sinking(t, y, M, v, i)
  BY ONLY <1>3
<1>5. /\ M \subseteq Vma /\ \A s : Tree(u, M, s) => s[v] \subseteq M /\ v \in s[v]
      /\ sub[v] \subseteq M /\ v \in sub[v]
  BY DEF Tree, Linked, Spans
<1>6. t \in P[0]
  <2>1. sub[v] \subseteq Vma
    BY ONLY <1>5
  <2>2. Cardinality(sub[v]) \in Nat /\ Cardinality(sub[v]) <= Turns
    BY ONLY <2>1, TurnsFacts
  <2>3. Cardinality(sub[v]) + 0 <= Turns
    BY ONLY <2>2
  <2>4. Like(t, t, M)
    BY ONLY LikeFacts
  <2>5. Sinking(t, t, M, v, 0)
    BY ONLY <2>3, <2>4, t \in Treaps, Tree(t, M, sub) DEF Sinking
  <2> QED BY ONLY <1>4, <2>5, t \in Treaps
<1>7. \A i \in Nat : \A y : y \in P[i] => F[y] \in P[i + 1]
  <2>1. ASSUME NEW i \in Nat, NEW y, y \in P[i] PROVE F[y] \in P[i + 1]
    <3>1. y \in Treaps /\ Sinking(t, y, M, v, i)
      BY ONLY <1>4, <2>1
    <3>2. PICK z : z = RotateDown(y, v)
      OBVIOUS
    <3>3. F[y] = z
      BY ONLY <1>1, <3>1, <3>2
    <3>4. PICK k : k = i + 1 /\ k \in Nat
      BY ONLY i \in Nat
    <3>5. Sinking(t, z, M, v, k)
      BY ONLY <3>1, <3>2, <3>4, v \in M, i \in Nat, SinkingStep
    <3>6. z \in Treaps
      BY ONLY <3>5 DEF Sinking
    <3> QED BY ONLY <1>4, <3>3, <3>4, <3>5, <3>6
  <2> QED BY ONLY <2>1
<1>8. Turns \in Nat
  BY TurnsFacts
<1>9. u \in P[Turns]
  BY ONLY <1>2, <1>6, <1>7, <1>8, LoopInvariant
<1>10. u \in Treaps /\ Sinking(t, u, M, v, Turns)
  BY ONLY <1>4, <1>8, <1>9
<1>11. PICK sub2 : Tree(u, M, sub2) /\ ((\A s \in Sides : u.child[v][s] = NULL)
                                        \/ Cardinality(sub2[v]) + Turns <= Turns)
  BY ONLY <1>10 DEF Sinking
<1>12. Cardinality({}) < Cardinality(sub2[v]) /\ Cardinality({}) \in Nat /\ Cardinality(sub2[v]) \in Nat
  <2>1. {} \subseteq sub2[v] /\ sub2[v] \subseteq Vma /\ v \in sub2[v] /\ v \notin {}
    BY ONLY <1>5, <1>11
  <2> QED BY ONLY <2>1, CardinalityGrows
<1>13. Like(t, u, M)
  BY ONLY <1>10 DEF Sinking
<1>14. \A s \in Sides : u.child[v][s] = NULL
  BY ONLY <1>8, <1>11, <1>12
<1> QED BY ONLY <1>10, <1>11, <1>13, <1>14

(* The states of the search of treap_insert. *)
Descending(t, M, sub, x, i, y) ==
    /\ y \in M /\ Placed(t, M, sub, x, y)
    /\ t.child[y][SideOf(t, x, y)] = NULL \/ Cardinality(sub[y]) + i <= Turns

LEMMA SideOfFacts ==
    ASSUME NEW t, NEW x, NEW y, x \in Int, t.value[y] \in Int
    PROVE  SideOf(t, x, y) \in Sides /\ Ordered(SideOf(t, x, y), x, t.value[y])
BY DEF SideOf, Ordered, Sides, LEFT_CHILD, RIGHT_CHILD

LEMMA ChildIsSmaller ==
    ASSUME NEW t, NEW M, NEW sub, NEW v, NEW s, NEW k, NEW i, i \in Nat,
           Tree(t, M, sub), v \in M, s \in Sides, IsChild(t, v, s, k),
           Cardinality(sub[v]) + i <= Turns
    PROVE  Cardinality(sub[k]) + (i + 1) <= Turns
<1>1. Linked(t, M) /\ Spans(t, M, sub)
  BY ONLY Tree(t, M, sub) DEF Tree
<1>2. v \notin sub[k] /\ sub[k] \subseteq sub[v]
  BY ONLY <1>1, v \in M, s \in Sides, IsChild(t, v, s, k), ChildFacts
<1>3. sub[v] \subseteq Vma /\ v \in sub[v]
  BY ONLY <1>1, v \in M DEF Linked, Spans
<1>4. /\ Cardinality(sub[k]) \in Nat /\ Cardinality(sub[v]) \in Nat
      /\ Cardinality(sub[k]) < Cardinality(sub[v])
  BY ONLY <1>2, <1>3, CardinalityGrows
<1>5. Turns \in Nat
  BY TurnsFacts
<1> QED BY ONLY <1>4, <1>5, i \in Nat, Cardinality(sub[v]) + i <= Turns

LEMMA NotEmptyAtEnd ==
    ASSUME NEW t, NEW M, NEW sub, NEW v, Tree(t, M, sub), v \in M
    PROVE  ~(Cardinality(sub[v]) + Turns <= Turns) /\ Cardinality(sub[v]) + 0 <= Turns
<1>1. {} \subseteq sub[v] /\ sub[v] \subseteq Vma /\ v \in sub[v] /\ v \notin {}
  BY DEF Tree, Linked, Spans
<1>2. /\ Cardinality({}) \in Nat /\ Cardinality(sub[v]) \in Nat
      /\ Cardinality({}) < Cardinality(sub[v]) /\ Cardinality(sub[v]) <= Turns
  BY ONLY <1>1, CardinalityGrows
<1>3. Turns \in Nat
  BY TurnsFacts
<1> QED BY ONLY <1>2, <1>3

LEMMA DescendStep ==
    ASSUME NEW t, NEW M, NEW sub, NEW x, NEW i, NEW y, t \in Treaps, Tree(t, M, sub),
           x \in Int, i \in Nat, Descending(t, M, sub, x, i, y)
    PROVE  Descending(t, M, sub, x, i + 1, Lower(t, x, y))
<1>1. Linked(t, M) /\ Spans(t, M, sub)
  BY ONLY Tree(t, M, sub) DEF Tree
<1>2. y \in M /\ Placed(t, M, sub, x, y)
      /\ (t.child[y][SideOf(t, x, y)] = NULL \/ Cardinality(sub[y]) + i <= Turns)
  BY ONLY Descending(t, M, sub, x, i, y) DEF Descending
<1>3. t.value[y] \in Int
  BY ONLY <1>1, <1>2, t \in Treaps, TreapConstants DEF Linked, Treaps
<1>4. PICK s : s = SideOf(t, x, y)
  OBVIOUS
<1>5. s \in Sides /\ Ordered(s, x, t.value[y])
  BY ONLY <1>3, <1>4, x \in Int, SideOfFacts
<1>6. PICK k : k = t.child[y][s]
  OBVIOUS
<1>7. CASE k = NULL
  <2>1. Lower(t, x, y) = y
    BY ONLY <1>4, <1>6, <1>7 DEF Lower
  <2>2. t.child[y][SideOf(t, x, y)] = NULL
    BY ONLY <1>4, <1>6, <1>7
  <2> QED BY ONLY <1>2, <2>1, <2>2 DEF Descending
<1>8. CASE k # NULL
  <2>1. Lower(t, x, y) = k /\ IsChild(t, y, s, k)
    BY ONLY <1>4, <1>6, <1>8 DEF Lower, IsChild
  <2>2. k \in M /\ t.parent[k] = y /\ k \in sub[k]
    BY ONLY <1>1, <1>2, <1>5, <2>1, ChildFacts
  <2>3. Under(t, sub, y, s, k)
    BY ONLY <1>6, <1>8, <2>2 DEF Under
  <2>4. Placed(t, M, sub, x, k)
    <3>1. ASSUME NEW w \in M, NEW r \in Sides, Under(t, sub, w, r, k)
          PROVE  Ordered(r, x, t.value[w])
      <4>1. CASE w = y
        <5>1. r = s
          BY ONLY <1>1, <1>2, <1>5, <2>2, <2>3, <3>1, <4>1 DEF Spans
        <5> QED BY ONLY <1>5, <4>1, <5>1
      <4>2. CASE w # y
        <5>1. t.parent[k] = w \/ Under(t, sub, w, r, t.parent[k])
          BY ONLY <1>1, <3>1, UnderFacts
        <5>2. Under(t, sub, w, r, y)
          BY ONLY <2>2, <4>2, <5>1
        <5> QED BY ONLY <1>2, <3>1, <5>2 DEF Placed
      <4> QED BY ONLY <4>1, <4>2
    <3> QED BY ONLY <3>1 DEF Placed
  <2>5. Cardinality(sub[k]) + (i + 1) <= Turns
    <3>1. Cardinality(sub[y]) + i <= Turns
      BY ONLY <1>2, <1>4, <1>6, <1>8
    <3> QED BY ONLY <1>2, <1>5, <2>1, <3>1, Tree(t, M, sub), i \in Nat, ChildIsSmaller
  <2> QED BY ONLY <2>1, <2>2, <2>4, <2>5 DEF Descending
<1> QED BY ONLY <1>7, <1>8

(* The search of treap_insert ends at a free place for the value. *)
LEMMA DescendPlace ==
    ASSUME NEW t, NEW M, NEW sub, NEW x, NEW p, t \in Treaps, Tree(t, M, sub), x \in Int,
           t.root # NULL, p = Descend(t, x)
    PROVE  HasPlace(t, M, sub, x, p, SideOf(t, x, p))
<1>1. PICK F : F = [y \in Vma |-> Lower(t, x, y)]
  OBVIOUS
<1>2. p = Loop(F, t.root)
  BY <1>1 DEF Descend
<1>3. PICK P : P = [i \in Nat |-> {y \in Vma : Descending(t, M, sub, x, i, y)}]
  OBVIOUS
<1>4. \A i \in Nat : \A y : y \in P[i] <=> y \in Vma /\ Descending(t, M, sub, x, i, y)
  BY ONLY <1>3
<1>5. PICK z : z = t.root
  OBVIOUS
<1>6. M \subseteq Vma /\ z \in M
  BY <1>5 DEF Tree, Linked
<1>7. z \in P[0]
  <2>1. \A w \in M : \A r \in Sides : ~Under(t, sub, w, r, z)
    <3>1. ASSUME NEW w \in M, NEW r \in Sides, Under(t, sub, w, r, z) PROVE FALSE
      <4>1. Linked(t, M) /\ Spans(t, M, sub)
        BY ONLY Tree(t, M, sub) DEF Tree
      <4>2. t.parent[z] = NULL
        BY ONLY <1>5, <4>1, t.root # NULL DEF Linked
      <4>3. t.parent[z] = w \/ Under(t, sub, w, r, t.parent[z])
        BY ONLY <3>1, <4>1, UnderFacts
      <4>4. \A q : Under(t, sub, w, r, q) => q \in M
        BY ONLY <3>1, <4>1, UnderFacts
      <4> QED BY ONLY <1>6, <3>1, <4>2, <4>3, <4>4, TreapConstants
    <3> QED BY ONLY <3>1
  <2>2. Placed(t, M, sub, x, z)
    BY ONLY <2>1 DEF Placed
  <2>3. Cardinality(sub[z]) + 0 <= Turns
    BY ONLY <1>6, Tree(t, M, sub), NotEmptyAtEnd
  <2>4. Descending(t, M, sub, x, 0, z)
    BY ONLY <1>6, <2>2, <2>3 DEF Descending
  <2> QED BY ONLY <1>4, <1>6, <2>4
<1>8. \A i \in Nat : \A y : y \in P[i] => F[y] \in P[i + 1]
  <2>1. ASSUME NEW i \in Nat, NEW y, y \in P[i] PROVE F[y] \in P[i + 1]
    <3>1. y \in Vma /\ Descending(t, M, sub, x, i, y)
      BY ONLY <1>4, <2>1
    <3>2. PICK k : k = Lower(t, x, y)
      OBVIOUS
    <3>3. F[y] = k
      BY ONLY <1>1, <3>1, <3>2
    <3>4. PICK j : j = i + 1 /\ j \in Nat
      BY ONLY i \in Nat
    <3>5. Descending(t, M, sub, x, j, k)
      BY ONLY <3>1, <3>2, <3>4, t \in Treaps, Tree(t, M, sub), x \in Int, i \in Nat, DescendStep
    <3>6. k \in Vma
      BY ONLY <1>6, <3>5 DEF Descending
    <3> QED BY ONLY <1>4, <3>3, <3>4, <3>5, <3>6
  <2> QED BY ONLY <2>1
<1>9. Turns \in Nat
  BY TurnsFacts
<1>10. p \in P[Turns]
  BY ONLY <1>2, <1>5, <1>7, <1>8, <1>9, LoopInvariant
<1>11. Descending(t, M, sub, x, Turns, p)
  BY ONLY <1>4, <1>9, <1>10
<1>12. p \in M /\ Placed(t, M, sub, x, p)
       /\ (t.child[p][SideOf(t, x, p)] = NULL \/ Cardinality(sub[p]) + Turns <= Turns)
  BY ONLY <1>11 DEF Descending
<1>13. ~(Cardinality(sub[p]) + Turns <= Turns)
  BY ONLY <1>12, Tree(t, M, sub), NotEmptyAtEnd
<1>14. t.value[p] \in Int
  BY ONLY <1>6, <1>12, t \in Treaps, TreapConstants DEF Treaps
<1>15. SideOf(t, x, p) \in Sides /\ Ordered(SideOf(t, x, p), x, t.value[p])
  BY ONLY <1>14, x \in Int, SideOfFacts
<1> QED BY ONLY <1>12, <1>13, <1>15 DEF HasPlace

(* A struct as treap_init leaves it. *)
Idle(t, w) ==
    /\ t.which_child[w] = LEFT_CHILD /\ t.priority[w] = 0 /\ t.parent[w] = NULL
    /\ \A s \in Sides : t.child[w][s] = NULL

LEMMA InitFacts ==
    ASSUME NEW t, NEW v, NEW x, NEW u, t \in Treaps, v \in Vma, x \in 0..MaxValue,
           u = treap_init(t, v, x)
    PROVE  /\ u \in Treaps /\ u.root = t.root /\ Idle(u, v)
           /\ \A w \in Vma : u.value[w] = IF w = v THEN x ELSE t.value[w]
           /\ \A w \in Vma \ {v} : Same(t, u, w) /\ u.priority[w] = t.priority[w]
<1>1. PICK k : k = [c \in Sides |-> NULL]
  OBVIOUS
<1>2. NULL \in Node /\ LEFT_CHILD \in Sides
  BY DEF Node, Sides
<1>3. k \in [Sides -> Node] /\ \A s \in Sides : k[s] = NULL
  BY ONLY <1>1, <1>2
<1>4. u = [t EXCEPT !.value[v] = x, !.which_child[v] = LEFT_CHILD, !.priority[v] = 0,
                    !.parent[v] = NULL, !.child[v] = k]
  BY ONLY <1>1, u = treap_init(t, v, x) DEF treap_init
<1>5. PICK A : A = {0} \cup {PriorityOf(rnd) : rnd \in Draws}
  OBVIOUS
<1>6. 0 \in A
  BY ONLY <1>5
<1>7. /\ t.value \in [Vma -> 0..MaxValue] /\ t.which_child \in [Vma -> Sides]
      /\ t.priority \in [Vma -> A] /\ t.parent \in [Vma -> Node]
      /\ t.child \in [Vma -> [Sides -> Node]] /\ t.root \in Node
  BY ONLY <1>5, t \in Treaps DEF Treaps, Node
<1>8. /\ u.root = t.root /\ u.value = [t.value EXCEPT ![v] = x]
      /\ u.which_child = [t.which_child EXCEPT ![v] = LEFT_CHILD]
      /\ u.priority = [t.priority EXCEPT ![v] = 0]
      /\ u.parent = [t.parent EXCEPT ![v] = NULL] /\ u.child = [t.child EXCEPT ![v] = k]
      /\ u = [root |-> u.root, value |-> u.value, which_child |-> u.which_child,
              priority |-> u.priority, parent |-> u.parent, child |-> u.child]
  BY ONLY <1>4, t \in Treaps DEF Treaps
<1>9. /\ u.value \in [Vma -> 0..MaxValue] /\ u.which_child \in [Vma -> Sides]
      /\ u.priority \in [Vma -> A]
  BY ONLY <1>2, <1>6, <1>7, <1>8, v \in Vma, x \in 0..MaxValue
<1>10. u.parent \in [Vma -> Node] /\ u.child \in [Vma -> [Sides -> Node]]
  BY ONLY <1>2, <1>3, <1>7, <1>8, v \in Vma
<1>11. u \in Treaps
  BY ONLY <1>5, <1>7, <1>8, <1>9, <1>10 DEF Treaps, Node
<1>12. /\ \A w \in Vma : u.value[w] = IF w = v THEN x ELSE t.value[w]
       /\ \A w \in Vma : u.which_child[w] = IF w = v THEN LEFT_CHILD ELSE t.which_child[w]
       /\ \A w \in Vma : u.priority[w] = IF w = v THEN 0 ELSE t.priority[w]
  BY ONLY <1>7, <1>8
<1>13. /\ \A w \in Vma : u.parent[w] = IF w = v THEN NULL ELSE t.parent[w]
       /\ \A w \in Vma : u.child[w] = IF w = v THEN k ELSE t.child[w]
  BY ONLY <1>7, <1>8
<1>14. Idle(u, v)
  BY ONLY <1>3, <1>12, <1>13, v \in Vma DEF Idle
<1>15. \A w \in Vma \ {v} : Same(t, u, w) /\ u.priority[w] = t.priority[w]
  BY ONLY <1>12, <1>13 DEF Same
<1> QED BY ONLY <1>8, <1>11, <1>12, <1>14, <1>15

(* The priority of a struct does not matter for the tree. *)
IsPriority(x) == x = 0 \/ \E rnd \in Draws : x = PriorityOf(rnd)

GetsPriority(t, u, v) == \E x : IsPriority(x) /\ u = [t EXCEPT !.priority[v] = x]

DiffersAtMost(t, u, v) ==
    /\ u.root = t.root /\ u.value = t.value /\ u.parent = t.parent
    /\ u.which_child = t.which_child /\ u.child = t.child
    /\ \A w \in Vma \ {v} : u.priority[w] = t.priority[w]

LEMMA PriorityTree ==
    ASSUME NEW t, NEW M, NEW sub, NEW v, NEW u, t \in Treaps, Tree(t, M, sub), v \in Vma,
           GetsPriority(t, u, v)
    PROVE  u \in Treaps /\ DiffersAtMost(t, u, v) /\ Tree(u, M, sub)
<1>x. PICK x : IsPriority(x) /\ u = [t EXCEPT !.priority[v] = x]
  BY DEF GetsPriority
<1>1. PICK A : A = {0} \cup {PriorityOf(rnd) : rnd \in Draws}
  OBVIOUS
<1>2. x \in A
  BY ONLY <1>1, <1>x DEF IsPriority
<1>3. t.priority \in [Vma -> A]
  BY ONLY <1>1, t \in Treaps DEF Treaps
<1>4. /\ u.root = t.root /\ u.value = t.value /\ u.parent = t.parent
      /\ u.which_child = t.which_child /\ u.child = t.child
      /\ u.priority = [t.priority EXCEPT ![v] = x]
      /\ u = [root |-> u.root, value |-> u.value, which_child |-> u.which_child,
              priority |-> u.priority, parent |-> u.parent, child |-> u.child]
  BY ONLY <1>x, t \in Treaps DEF Treaps
<1>5. u.priority \in [Vma -> A] /\ \A w \in Vma \ {v} : u.priority[w] = t.priority[w]
  BY ONLY <1>2, <1>3, <1>4, v \in Vma
<1>6. u \in Treaps
  BY ONLY <1>1, <1>4, <1>5, t \in Treaps DEF Treaps
<1>7. \A w \in M : Same(t, u, w) /\ u.value[w] = t.value[w]
  BY ONLY <1>4 DEF Same
<1>8. \A w \in M : t.which_child[w] \in Sides
  BY ONLY t \in Treaps, Tree(t, M, sub) DEF Treaps, Tree, Linked
<1>9. Tree(u, M, sub)
  BY ONLY <1>4, <1>7, <1>8, Tree(t, M, sub), SameTree
<1> QED BY ONLY <1>4, <1>5, <1>6, <1>9 DEF DiffersAtMost

(* treap_insert adds v to the tree. *)
Inserted(t, u, M, v) ==
    /\ u \in Treaps /\ u.value = t.value
    /\ \A w \in Vma \ (M \cup {v}) : Same(t, u, w) /\ u.priority[w] = t.priority[w]
    /\ \E sub2 : Tree(u, M \cup {v}, sub2)

LEMMA InsertTree ==
    ASSUME NEW t, NEW M, NEW sub, NEW v, NEW rnd, NEW u, t \in Treaps, Tree(t, M, sub),
           v \in Vma, v \notin M, Idle(t, v), rnd \in Draws, u = treap_insert(t, v, rnd)
    PROVE  Inserted(t, u, M, v)
<1>1. PICK x : x = PriorityOf(rnd)
  OBVIOUS
<1>2. PICK t1 : t1 = [t EXCEPT !.priority[v] = x]
  OBVIOUS
<1>3. IsPriority(x)
  BY ONLY <1>1, rnd \in Draws DEF IsPriority
<1>4. /\ t1 \in Treaps /\ t1.root = t.root /\ t1.value = t.value /\ t1.parent = t.parent
      /\ t1.which_child = t.which_child /\ t1.child = t.child
      /\ \A w \in Vma \ {v} : t1.priority[w] = t.priority[w]
      /\ Tree(t1, M, sub)
  <2>1. GetsPriority(t, t1, v)
    BY ONLY <1>2, <1>3 DEF GetsPriority
  <2>2. t1 \in Treaps /\ DiffersAtMost(t, t1, v) /\ Tree(t1, M, sub)
    BY ONLY <2>1, t \in Treaps, Tree(t, M, sub), v \in Vma, PriorityTree
  <2> QED BY ONLY <2>2 DEF DiffersAtMost
<1>5. t1.parent[v] = NULL /\ \A r \in Sides : t1.child[v][r] = NULL
  BY ONLY <1>4, Idle(t, v) DEF Idle
<1>6. \A w \in Vma : Same(t, t1, w)
  BY ONLY <1>4 DEF Same
<1>7. CASE t.root = NULL
  <2>1. u = [t1 EXCEPT !.root = v]
    BY ONLY <1>1, <1>2, <1>7, u = treap_insert(t, v, rnd) DEF treap_insert
  <2>2. M = {}
    BY ONLY <1>7, Tree(t, M, sub) DEF Tree, Linked
  <2>3. /\ u \in Treaps /\ u.value = t1.value /\ u.priority = t1.priority
        /\ \A w \in Vma \ {v} : Same(t1, u, w)
        /\ \E sub2 : Tree(u, {v}, sub2)
    <3>1. Tree(t1, {}, sub)
      BY ONLY <1>4, <2>2
    <3> QED BY ONLY <1>4, <1>5, <2>1, <3>1, v \in Vma, PlantTree
  <2>4. M \cup {v} = {v}
    BY ONLY <2>2
  <2>5. \A w \in Vma \ {v} : Same(t, u, w)
    BY ONLY <1>6, <2>3 DEF Same
  <2> QED BY ONLY <1>4, <2>3, <2>4, <2>5 DEF Inserted
<1>8. CASE t.root # NULL
  <2>1. PICK y : y = t1.value[v]
    OBVIOUS
  <2>2. y \in Int
    BY ONLY <1>4, <2>1, v \in Vma, TreapConstants DEF Treaps
  <2>3. PICK p : p = Descend(t1, y)
    OBVIOUS
  <2>4. PICK s : s = SideOf(t1, y, p)
    OBVIOUS
  <2>5. PICK t2 : t2 = Adopt(t1, p, s, v)
    OBVIOUS
  <2>6. u = SiftUp(t2, v)
    BY ONLY <1>1, <1>2, <1>8, <2>1, <2>3, <2>4, <2>5, u = treap_insert(t, v, rnd) DEF treap_insert
  <2>7. t1.root # NULL
    BY ONLY <1>4, <1>8
  <2>8. HasPlace(t1, M, sub, t1.value[v], p, s)
    <3>1. HasPlace(t1, M, sub, y, p, SideOf(t1, y, p))
      BY ONLY <1>4, <2>2, <2>3, <2>7, DescendPlace
    <3> QED BY ONLY <2>1, <2>4, <3>1
  <2>9. PICK N : N = M \cup {v}
    OBVIOUS
  <2>10. t2 \in Treaps /\ Like(t1, t2, N) /\ \E sub2 : Tree(t2, N, sub2)
    <3>1. t1 \in Treaps /\ Tree(t1, M, sub)
      BY ONLY <1>4
    <3>2. Bare(t1, v)
      BY ONLY <1>5 DEF Bare
    <3>3. Hangs(t1, t2, N)
      BY ONLY <2>5, <2>8, <2>9, <3>1, <3>2, v \in Vma, v \notin M, HangTree
    <3> QED BY ONLY <3>3 DEF Hangs
  <2>11. PICK sub2 : Tree(t2, N, sub2)
    BY ONLY <2>10
  <2>12. v \in N
    BY ONLY <2>9
  <2>13. u \in Treaps /\ Like(t2, u, N) /\ \E sub3 : Tree(u, N, sub3)
    BY ONLY <2>6, <2>10, <2>11, <2>12, SiftUpTree
  <2>14. Like(t1, u, N)
    BY ONLY <2>10, <2>13, LikeFacts
  <2>15. /\ u.value = t1.value /\ u.priority = t1.priority
         /\ \A w \in Vma \ N : Same(t1, u, w)
    BY ONLY <2>14 DEF Like
  <2>16. \A w \in Vma \ N : Same(t, u, w)
    BY ONLY <1>6, <2>9, <2>15 DEF Same
  <2> QED BY ONLY <1>4, <2>9, <2>13, <2>15, <2>16 DEF Inserted
<1> QED BY ONLY <1>7, <1>8

(* treap_remove takes v from the tree and leaves it idle. *)
Removed(t, u, M, v) ==
    /\ u \in Treaps /\ u.value = t.value /\ Idle(u, v)
    /\ \A w \in Vma \ M : Same(t, u, w) /\ u.priority[w] = t.priority[w]
    /\ \E sub2 : Tree(u, M \ {v}, sub2)

LEMMA RemoveTree ==
    ASSUME NEW t, NEW M, NEW sub, NEW v, NEW u, t \in Treaps, Tree(t, M, sub),
           v \in M, u = treap_remove(t, v)
    PROVE  Removed(t, u, M, v)
<1>0. M \subseteq Vma /\ v \in Vma
  BY DEF Tree, Linked
<1>1. PICK t0 : t0 = [t EXCEPT !.priority[v] = 0]
  OBVIOUS
<1>2. /\ t0 \in Treaps /\ t0.root = t.root /\ t0.value = t.value /\ t0.parent = t.parent
      /\ t0.which_child = t.which_child /\ t0.child = t.child
      /\ \A w \in Vma \ {v} : t0.priority[w] = t.priority[w]
      /\ Tree(t0, M, sub)
  <2>1. GetsPriority(t, t0, v)
    BY ONLY <1>1 DEF GetsPriority, IsPriority
  <2>2. v \in Vma
    BY ONLY <1>0
  <2>3. t0 \in Treaps /\ DiffersAtMost(t, t0, v) /\ Tree(t0, M, sub)
    BY ONLY <2>1, <2>2, t \in Treaps, Tree(t, M, sub), PriorityTree
  <2> QED BY ONLY <2>3 DEF DiffersAtMost
<1>3. PICK t1 : t1 = SiftDown(t0, v)
  OBVIOUS
<1>4. /\ t1 \in Treaps /\ Like(t0, t1, M) /\ \A s \in Sides : t1.child[v][s] = NULL
      /\ \E sub2 : Tree(t1, M, sub2)
  BY ONLY <1>2, <1>3, v \in M, SiftDownTree
<1>5. PICK sub1 : Tree(t1, M, sub1)
  BY ONLY <1>4
<1>6. PICK t2 : t2 = Replace(t1, t1.parent[v], t1.which_child[v], NULL)
  OBVIOUS
<1>7. /\ t2 \in Treaps /\ t2.value = t1.value /\ t2.priority = t1.priority
      /\ \A w \in Vma \ M : Same(t1, t2, w)
      /\ \E sub2 : Tree(t2, M \ {v}, sub2)
  <2>1. Unhooks(t1, v, t2)
    BY ONLY <1>4, <1>6 DEF Unhooks
  <2> QED BY ONLY <1>4, <1>5, <2>1, v \in M, UnhookTree
<1>8. PICK y : y = t2.value[v]
  OBVIOUS
<1>9. u = treap_init(t2, v, y)
  BY ONLY <1>1, <1>3, <1>6, <1>8, u = treap_remove(t, v) DEF treap_remove
<1>10. t2.value \in [Vma -> 0..MaxValue] /\ y \in 0..MaxValue
  BY ONLY <1>0, <1>7, <1>8 DEF Treaps
<1>11. /\ u \in Treaps /\ u.root = t2.root /\ Idle(u, v)
       /\ \A w \in Vma : u.value[w] = IF w = v THEN y ELSE t2.value[w]
       /\ \A w \in Vma \ {v} : Same(t2, u, w) /\ u.priority[w] = t2.priority[w]
  BY ONLY <1>0, <1>7, <1>9, <1>10, InitFacts
<1>12. \A w \in Vma : u.value[w] = t2.value[w]
  BY ONLY <1>8, <1>11
<1>13. u.value = t2.value
  <2>1. u.value \in [Vma -> 0..MaxValue]
    BY ONLY <1>11 DEF Treaps
  <2> QED BY ONLY <1>10, <1>12, <2>1
<1>14. t1.value = t0.value /\ t1.priority = t0.priority /\ \A w \in Vma \ M : Same(t0, t1, w)
  BY ONLY <1>4 DEF Like
<1>15. \A w \in Vma \ M : Same(t, u, w)
  BY ONLY <1>2, <1>7, <1>11, <1>14, v \in M DEF Same
<1>16. PICK N : N = M \ {v}
  OBVIOUS
<1>17. PICK sub2 : Tree(t2, N, sub2)
  BY ONLY <1>7, <1>16
<1>18. \A w \in N : Same(t2, u, w) /\ u.value[w] = t2.value[w]
  BY ONLY <1>0, <1>11, <1>12, <1>16
<1>19. \A w \in N : t2.which_child[w] \in Sides
  BY ONLY <1>0, <1>7, <1>16 DEF Treaps
<1>20. Tree(u, N, sub2)
  BY ONLY <1>11, <1>17, <1>18, <1>19, SameTree
<1>21. \A w \in Vma \ M : u.priority[w] = t.priority[w]
  BY ONLY <1>2, <1>7, <1>11, <1>14, v \in M
<1> QED BY ONLY <1>2, <1>7, <1>11, <1>13, <1>14, <1>15, <1>16, <1>20, <1>21 DEF Removed

(* The searches go from a node y to its child k on the side s: they leave  *)
(* y and the nodes on the other side behind.                               *)
Leaves(t, M, sub, y, s, o, k, i) ==
    /\ k \in M \cup {NULL}
    /\ k # NULL => \A w \in sub[k] : w \in M /\ w \in sub[y] /\ Under(t, sub, y, s, w)
    /\ \A w \in sub[y] : w = y \/ (k # NULL /\ w \in sub[k]) \/ Under(t, sub, y, o, w)
    /\ k # NULL /\ Cardinality(sub[y]) + i <= Turns => Cardinality(sub[k]) + (i + 1) <= Turns

LEMMA ChildSearch ==
    ASSUME NEW t, NEW M, NEW sub, NEW y, NEW s, NEW o, NEW k, NEW i, Tree(t, M, sub), y \in M,
           s \in Sides, o = 1 - s, k = t.child[y][s], i \in Nat
    PROVE  Leaves(t, M, sub, y, s, o, k, i)
<1>1. Linked(t, M) /\ Spans(t, M, sub)
  BY ONLY Tree(t, M, sub) DEF Tree
<1>2. k \in M \cup {NULL}
  BY ONLY <1>1, y \in M, s \in Sides, k = t.child[y][s] DEF Linked
<1>3. ASSUME k # NULL, NEW w, w \in sub[k]
      PROVE  w \in M /\ w \in sub[y] /\ Under(t, sub, y, s, w)
  <2>1. IsChild(t, y, s, k)
    BY ONLY <1>3, k = t.child[y][s] DEF IsChild
  <2>2. w \in sub[y]
    BY ONLY <1>1, <1>3, <2>1, y \in M, s \in Sides, ChildFacts
  <2>3. w \in M
    BY ONLY <1>1, <2>2, y \in M DEF Spans
  <2>4. Under(t, sub, y, s, w)
    BY ONLY <1>3, k = t.child[y][s] DEF Under
  <2> QED BY ONLY <2>2, <2>3, <2>4
<1>4. ASSUME NEW w, w \in sub[y]
      PROVE  w = y \/ (k # NULL /\ w \in sub[k]) \/ Under(t, sub, y, o, w)
  <2>1. w \in M
    BY ONLY <1>1, <1>4, y \in M DEF Spans
  <2>2. w = y \/ \E r \in Sides : Under(t, sub, y, r, w)
    BY ONLY <1>1, <1>4, <2>1, y \in M DEF Spans
  <2>3. \A r \in Sides : r = s \/ r = o
    BY ONLY s \in Sides, o = 1 - s DEF Sides, LEFT_CHILD, RIGHT_CHILD
  <2>4. Under(t, sub, y, s, w) => k # NULL /\ w \in sub[k]
    BY ONLY k = t.child[y][s] DEF Under
  <2> QED BY ONLY <2>2, <2>3, <2>4
<1>5. ASSUME k # NULL, Cardinality(sub[y]) + i <= Turns
      PROVE  Cardinality(sub[k]) + (i + 1) <= Turns
  <2>1. IsChild(t, y, s, k)
    BY ONLY <1>5, k = t.child[y][s] DEF IsChild
  <2> QED BY ONLY <1>5, <2>1, Tree(t, M, sub), y \in M, s \in Sides, i \in Nat, ChildIsSmaller
<1> QED BY ONLY <1>2, <1>3, <1>4, <1>5 DEF Leaves

(* The address is in w, of the length len[w]. *)
Covers(t, len, w, addr) == t.value[w] <= addr /\ addr < t.value[w] + len[w]

Apart(t, len, M) ==
    \A v \in M : \A w \in M :
       v = w \/ t.value[v] + len[v] <= t.value[w] \/ t.value[w] + len[w] <= t.value[v]

(* The states of the search of vma_find. *)
Finding(t, M, sub, len, addr, i, y) ==
    /\ y \in M \cup {NULL}
    /\ \A w \in M : Covers(t, len, w, addr) => y # NULL /\ w \in sub[y]
    /\ y = NULL \/ Covers(t, len, y, addr) \/ Cardinality(sub[y]) + i <= Turns

Lengthy(t, len, M) == \A w \in M : t.value[w] \in Nat /\ len[w] \in Nat /\ len[w] > 0

(* What is on the other side of a node does not contain the address. *)
LEMMA FindSide ==
    ASSUME NEW t, NEW M, NEW sub, NEW len, NEW addr, NEW y, NEW w, Sorted(t, M, sub),
           Apart(t, len, M), Lengthy(t, len, M), addr \in Nat, y \in M, w \in M
    PROVE  /\ addr < t.value[y] /\ Under(t, sub, y, RIGHT_CHILD, w) => ~Covers(t, len, w, addr)
           /\ t.value[y] + len[y] <= addr /\ Under(t, sub, y, LEFT_CHILD, w) =>
                 ~Covers(t, len, w, addr)
<1>1. PICK a, b, c, d : a = t.value[y] /\ b = len[y] /\ c = t.value[w] /\ d = len[w]
  OBVIOUS
<1>2. a \in Nat /\ b \in Nat /\ b > 0 /\ c \in Nat /\ d \in Nat /\ d > 0
  BY ONLY <1>1, Lengthy(t, len, M), y \in M, w \in M DEF Lengthy
<1>3. Covers(t, len, w, addr) <=> c <= addr /\ addr < c + d
  BY ONLY <1>1 DEF Covers
<1>4. Under(t, sub, y, RIGHT_CHILD, w) => a <= c
  BY ONLY <1>1, Sorted(t, M, sub), y \in M, w \in M
     DEF Sorted, Ordered, Sides, LEFT_CHILD, RIGHT_CHILD
<1>5. Under(t, sub, y, LEFT_CHILD, w) => c <= a
  BY ONLY <1>1, Sorted(t, M, sub), y \in M, w \in M DEF Sorted, Ordered, Sides
<1>6. y = w \/ a + b <= c \/ c + d <= a
  BY ONLY <1>1, Apart(t, len, M), y \in M, w \in M DEF Apart
<1>7. y = w => a = c /\ b = d
  BY ONLY <1>1
<1> QED BY ONLY <1>1, <1>2, <1>3, <1>4, <1>5, <1>6, <1>7, addr \in Nat

LEMMA FindStep ==
    ASSUME NEW t, NEW M, NEW sub, NEW len, NEW addr, NEW i, NEW y, NEW k, Tree(t, M, sub),
           Apart(t, len, M), Lengthy(t, len, M), addr \in Nat, i \in Nat,
           Finding(t, M, sub, len, addr, i, y), k = FindNext(t, len, addr, y)
    PROVE  Finding(t, M, sub, len, addr, i + 1, k)
<1>1. Sorted(t, M, sub)
  BY ONLY Tree(t, M, sub) DEF Tree
<1>2. /\ y \in M \cup {NULL}
      /\ \A w \in M : Covers(t, len, w, addr) => y # NULL /\ w \in sub[y]
      /\ y = NULL \/ Covers(t, len, y, addr) \/ Cardinality(sub[y]) + i <= Turns
  BY ONLY Finding(t, M, sub, len, addr, i, y) DEF Finding
<1>3. CASE y = NULL
  <2>1. k = NULL
    BY ONLY <1>3, k = FindNext(t, len, addr, y) DEF FindNext
  <2> QED BY ONLY <1>2, <1>3, <2>1 DEF Finding
<1>4. CASE y # NULL /\ Covers(t, len, y, addr)
  <2>1. t.value[y] \in Nat /\ len[y] \in Nat
    BY ONLY <1>2, <1>4, Lengthy(t, len, M) DEF Lengthy
  <2>2. ~(addr < t.value[y]) /\ ~(t.value[y] + len[y] <= addr)
    BY ONLY <1>4, <2>1, addr \in Nat DEF Covers
  <2>3. k = y
    BY ONLY <1>4, <2>2, k = FindNext(t, len, addr, y) DEF FindNext
  <2> QED BY ONLY <1>2, <1>4, <2>3 DEF Finding
<1>5. CASE y # NULL /\ ~Covers(t, len, y, addr)
  <2>1. t.value[y] \in Nat /\ len[y] \in Nat /\ y \in M
    BY ONLY <1>2, <1>5, Lengthy(t, len, M) DEF Lengthy
  <2>2. addr < t.value[y] \/ t.value[y] + len[y] <= addr
    BY ONLY <1>5, <2>1, addr \in Nat DEF Covers
  <2>3. PICK s : s = IF addr < t.value[y] THEN LEFT_CHILD ELSE RIGHT_CHILD
    OBVIOUS
  <2>4. s \in Sides
    BY ONLY <2>3 DEF Sides
  <2>5. PICK o : o = 1 - s
    OBVIOUS
  <2>6. k = t.child[y][s]
    BY ONLY <1>5, <2>2, <2>3, k = FindNext(t, len, addr, y) DEF FindNext
  <2>7. /\ k \in M \cup {NULL}
        /\ k # NULL => \A w \in sub[k] : w \in M /\ w \in sub[y] /\ Under(t, sub, y, s, w)
        /\ \A w \in sub[y] : w = y \/ (k # NULL /\ w \in sub[k]) \/ Under(t, sub, y, o, w)
        /\ k # NULL /\ Cardinality(sub[y]) + i <= Turns => Cardinality(sub[k]) + (i + 1) <= Turns
    <3>1. y \in M
      BY ONLY <2>1
    <3>2. Leaves(t, M, sub, y, s, o, k, i)
      BY ONLY <2>4, <2>6, <2>5, <3>1, Tree(t, M, sub), i \in Nat, ChildSearch
    <3> QED BY ONLY <3>2 DEF Leaves
  <2>8. ASSUME NEW w \in M, Covers(t, len, w, addr) PROVE k # NULL /\ w \in sub[k]
    <3>1. w \in sub[y] /\ w # y
      BY ONLY <1>2, <1>5, <2>8
    <3>2. CASE addr < t.value[y]
      <4>1. o = RIGHT_CHILD
        BY ONLY <2>3, <2>5, <3>2 DEF LEFT_CHILD, RIGHT_CHILD
      <4>2. ~Under(t, sub, y, RIGHT_CHILD, w)
        BY ONLY <1>1, <2>1, <2>8, <3>2, Apart(t, len, M), Lengthy(t, len, M), addr \in Nat, FindSide
      <4> QED BY ONLY <2>7, <3>1, <4>1, <4>2
    <3>3. CASE ~(addr < t.value[y])
      <4>1. o = LEFT_CHILD /\ t.value[y] + len[y] <= addr
        BY ONLY <2>2, <2>3, <2>5, <3>3 DEF LEFT_CHILD, RIGHT_CHILD
      <4>2. ~Under(t, sub, y, LEFT_CHILD, w)
        BY ONLY <1>1, <2>1, <2>8, <4>1, Apart(t, len, M), Lengthy(t, len, M), addr \in Nat, FindSide
      <4> QED BY ONLY <2>7, <3>1, <4>1, <4>2
    <3> QED BY ONLY <3>2, <3>3
  <2>9. k = NULL \/ Cardinality(sub[k]) + (i + 1) <= Turns
    BY ONLY <1>2, <1>5, <2>7
  <2> QED BY ONLY <2>7, <2>8, <2>9 DEF Finding
<1> QED BY ONLY <1>3, <1>4, <1>5

(* vma_find is right in a tree of disjoint VMAs. *)
LEMMA FindTree ==
    ASSUME NEW t, NEW M, NEW sub, NEW len, NEW addr, NEW v, Tree(t, M, sub),
           Apart(t, len, M), Lengthy(t, len, M), addr \in Nat, v = vma_find(t, len, addr)
    PROVE  /\ v \in M \cup {NULL}
           /\ v = NULL => \A w \in M : ~Covers(t, len, w, addr)
           /\ v # NULL => Covers(t, len, v, addr)
<1>1. PICK F : F = [y \in Vma \cup {NULL} |-> FindNext(t, len, addr, y)]
  OBVIOUS
<1>2. v = Loop(F, t.root)
  BY <1>1 DEF vma_find
<1>3. PICK P : P = [i \in Nat |-> {y \in Vma \cup {NULL} : Finding(t, M, sub, len, addr, i, y)}]
  OBVIOUS
<1>4. \A i \in Nat : \A y : y \in P[i] <=> y \in Vma \cup {NULL} /\ Finding(t, M, sub, len, addr, i, y)
  BY ONLY <1>3
<1>5. PICK z : z = t.root
  OBVIOUS
<1>6. /\ M \subseteq Vma /\ z \in M \cup {NULL} /\ (z = NULL <=> M = {})
      /\ z # NULL => sub[z] = M
  BY <1>5 DEF Tree, Linked, Spans
<1>7. z \in P[0]
  <2>1. z = NULL \/ Cardinality(sub[z]) + 0 <= Turns
    BY ONLY <1>6, Tree(t, M, sub), NotEmptyAtEnd
  <2>2. Finding(t, M, sub, len, addr, 0, z)
    BY ONLY <1>6, <2>1 DEF Finding
  <2> QED BY ONLY <1>4, <1>6, <2>2
<1>8. \A i \in Nat : \A y : y \in P[i] => F[y] \in P[i + 1]
  <2>1. ASSUME NEW i \in Nat, NEW y, y \in P[i] PROVE F[y] \in P[i + 1]
    <3>1. y \in Vma \cup {NULL} /\ Finding(t, M, sub, len, addr, i, y)
      BY ONLY <1>4, <2>1
    <3>2. PICK k : k = FindNext(t, len, addr, y)
      OBVIOUS
    <3>3. F[y] = k
      BY ONLY <1>1, <3>1, <3>2
    <3>4. PICK j : j = i + 1 /\ j \in Nat
      BY ONLY i \in Nat
    <3>5. Finding(t, M, sub, len, addr, j, k)
      BY ONLY <3>1, <3>2, <3>4, Tree(t, M, sub), Apart(t, len, M), Lengthy(t, len, M),
              addr \in Nat, i \in Nat, FindStep
    <3>6. k \in Vma \cup {NULL}
      BY ONLY <1>6, <3>5 DEF Finding
    <3> QED BY ONLY <1>4, <3>3, <3>4, <3>5, <3>6
  <2> QED BY ONLY <2>1
<1>9. Turns \in Nat
  BY TurnsFacts
<1>10. v \in P[Turns]
  BY ONLY <1>2, <1>5, <1>7, <1>8, <1>9, LoopInvariant
<1>11. Finding(t, M, sub, len, addr, Turns, v)
  BY ONLY <1>4, <1>9, <1>10
<1>12. /\ v \in M \cup {NULL}
       /\ \A w \in M : Covers(t, len, w, addr) => v # NULL /\ w \in sub[v]
       /\ v = NULL \/ Covers(t, len, v, addr) \/ Cardinality(sub[v]) + Turns <= Turns
  BY ONLY <1>11 DEF Finding
<1>13. v # NULL => ~(Cardinality(sub[v]) + Turns <= Turns)
  BY ONLY <1>12, Tree(t, M, sub), NotEmptyAtEnd
<1> QED BY ONLY <1>12, <1>13

(* The states of the search of vma_alloc.  Every VMA that is large enough  *)
(* is still below `at`, or no smaller than `best`.                         *)
Fitting(t, M, sub, wanted, i, s) ==
    /\ s.at \in M \cup {NULL} /\ s.best \in M \cup {NULL}
    /\ s.best # NULL => wanted <= t.value[s.best] + 1
    /\ \A w \in M : wanted <= t.value[w] + 1 =>
          \/ s.at # NULL /\ w \in sub[s.at]
          \/ s.best # NULL /\ t.value[s.best] <= t.value[w]
    /\ s.at # NULL /\ s.best # NULL => \A w \in sub[s.at] : t.value[w] <= t.value[s.best]
    /\ s.at = NULL \/ t.value[s.at] + 1 = wanted \/ Cardinality(sub[s.at]) + i <= Turns

LEMMA FitStep ==
    ASSUME NEW t, NEW M, NEW sub, NEW wanted, NEW i, NEW s, NEW u, Tree(t, M, sub),
           \A w \in M : t.value[w] \in Nat, wanted \in Nat, i \in Nat,
           Fitting(t, M, sub, wanted, i, s), u = FitNext(t, wanted, s)
    PROVE  Fitting(t, M, sub, wanted, i + 1, u)
<1>1. Sorted(t, M, sub)
  BY ONLY Tree(t, M, sub) DEF Tree
<1>2. PICK y, b : y = s.at /\ b = s.best
  OBVIOUS
<1>3. /\ y \in M \cup {NULL} /\ b \in M \cup {NULL}
      /\ b # NULL => wanted <= t.value[b] + 1
      /\ \A w \in M : wanted <= t.value[w] + 1 =>
            (y # NULL /\ w \in sub[y]) \/ (b # NULL /\ t.value[b] <= t.value[w])
      /\ y # NULL /\ b # NULL => \A w \in sub[y] : t.value[w] <= t.value[b]
      /\ y = NULL \/ t.value[y] + 1 = wanted \/ Cardinality(sub[y]) + i <= Turns
  BY ONLY <1>2, Fitting(t, M, sub, wanted, i, s) DEF Fitting
<1>4. CASE y = NULL
  <2>1. u = s
    BY ONLY <1>2, <1>4, u = FitNext(t, wanted, s) DEF FitNext
  <2> QED BY ONLY <1>2, <1>3, <1>4, <2>1 DEF Fitting
<1>5. CASE y # NULL
  <2>1. PICK n : n = t.value[y]
    OBVIOUS
  <2>2. y \in M /\ n \in Nat
    BY ONLY <1>3, <1>5, <2>1, \A w \in M : t.value[w] \in Nat
  <2>3. CASE n + 1 = wanted
    <3>1. u = s
      BY ONLY <1>2, <1>5, <2>1, <2>2, <2>3, wanted \in Nat, u = FitNext(t, wanted, s) DEF FitNext
    <3>2. t.value[y] + 1 = wanted
      BY ONLY <2>1, <2>3
    <3> QED BY ONLY <1>2, <1>3, <3>1, <3>2 DEF Fitting
  <2>4. CASE n + 1 < wanted
    <3>1. PICK k : k = t.child[y][RIGHT_CHILD]
      OBVIOUS
    <3>2. u = [at |-> k, best |-> b]
      BY ONLY <1>2, <1>5, <2>1, <2>4, <3>1, u = FitNext(t, wanted, s) DEF FitNext
    <3>3. RIGHT_CHILD \in Sides /\ LEFT_CHILD \in Sides /\ LEFT_CHILD = 1 - RIGHT_CHILD
      BY ONLY TRUE DEF Sides, RIGHT_CHILD, LEFT_CHILD
    <3>4. /\ k \in M \cup {NULL}
          /\ k # NULL => \A w \in sub[k] :
                w \in M /\ w \in sub[y] /\ Under(t, sub, y, RIGHT_CHILD, w)
          /\ \A w \in sub[y] : w = y \/ (k # NULL /\ w \in sub[k])
                                     \/ Under(t, sub, y, LEFT_CHILD, w)
          /\ k # NULL /\ Cardinality(sub[y]) + i <= Turns =>
                Cardinality(sub[k]) + (i + 1) <= Turns
      <4>1. y \in M
        BY ONLY <2>2
      <4>2. Leaves(t, M, sub, y, RIGHT_CHILD, LEFT_CHILD, k, i)
        BY ONLY <3>1, <3>3, <4>1, Tree(t, M, sub), i \in Nat, ChildSearch
      <4> QED BY ONLY <4>2 DEF Leaves
    <3>5. ASSUME NEW w \in M, wanted <= t.value[w] + 1
          PROVE  (k # NULL /\ w \in sub[k]) \/ (b # NULL /\ t.value[b] <= t.value[w])
      <4>1. PICK m : m = t.value[w] /\ m \in Nat
        BY ONLY <3>5, \A x \in M : t.value[x] \in Nat
      <4>2. ~(m <= n)
        BY ONLY <2>2, <2>4, <3>5, <4>1, wanted \in Nat
      <4>3. w # y
        BY ONLY <2>1, <2>2, <4>1, <4>2
      <4>4. ~Under(t, sub, y, LEFT_CHILD, w)
        BY ONLY <1>1, <2>1, <2>2, <3>3, <3>5, <4>1, <4>2 DEF Sorted, Ordered
      <4> QED BY ONLY <1>3, <3>3, <3>4, <3>5, <4>3, <4>4
    <3>6. k # NULL /\ b # NULL => \A w \in sub[k] : t.value[w] <= t.value[b]
      BY ONLY <1>3, <1>5, <3>4
    <3>7. k = NULL \/ Cardinality(sub[k]) + (i + 1) <= Turns
      <4>1. ~(t.value[y] + 1 = wanted)
        BY ONLY <2>1, <2>2, <2>4, wanted \in Nat
      <4> QED BY ONLY <1>3, <1>5, <3>4, <4>1
    <3>8. u.at = k /\ u.best = b
      BY ONLY <3>2
    <3> QED BY ONLY <1>3, <3>4, <3>5, <3>6, <3>7, <3>8 DEF Fitting
  <2>5. CASE n + 1 > wanted
    <3>1. PICK k : k = t.child[y][LEFT_CHILD]
      OBVIOUS
    <3>2. u = [at |-> k, best |-> y]
      BY ONLY <1>2, <1>5, <2>1, <2>2, <2>5, <3>1, wanted \in Nat, u = FitNext(t, wanted, s)
         DEF FitNext
    <3>3. RIGHT_CHILD \in Sides /\ LEFT_CHILD \in Sides /\ RIGHT_CHILD = 1 - LEFT_CHILD
      BY ONLY TRUE DEF Sides, RIGHT_CHILD, LEFT_CHILD
    <3>4. /\ k \in M \cup {NULL}
          /\ k # NULL => \A w \in sub[k] :
                w \in M /\ w \in sub[y] /\ Under(t, sub, y, LEFT_CHILD, w)
          /\ \A w \in sub[y] : w = y \/ (k # NULL /\ w \in sub[k])
                                     \/ Under(t, sub, y, RIGHT_CHILD, w)
          /\ k # NULL /\ Cardinality(sub[y]) + i <= Turns =>
                Cardinality(sub[k]) + (i + 1) <= Turns
      <4>1. y \in M
        BY ONLY <2>2
      <4>2. Leaves(t, M, sub, y, LEFT_CHILD, RIGHT_CHILD, k, i)
        BY ONLY <3>1, <3>3, <4>1, Tree(t, M, sub), i \in Nat, ChildSearch
      <4> QED BY ONLY <4>2 DEF Leaves
    <3>5. ASSUME NEW w \in M, wanted <= t.value[w] + 1
          PROVE  (k # NULL /\ w \in sub[k]) \/ n <= t.value[w]
      <4>1. PICK m : m = t.value[w] /\ m \in Nat
        BY ONLY <3>5, \A x \in M : t.value[x] \in Nat
      <4>2. CASE w \in sub[y]
        <5>1. w = y => n = m
          BY ONLY <2>1, <4>1
        <5>2. Under(t, sub, y, RIGHT_CHILD, w) => n <= m
          BY ONLY <1>1, <2>1, <2>2, <3>5, <4>1
             DEF Sorted, Ordered, Sides, LEFT_CHILD, RIGHT_CHILD
        <5>3. w = y \/ (k # NULL /\ w \in sub[k]) \/ Under(t, sub, y, RIGHT_CHILD, w)
          BY ONLY <3>3, <3>4, <4>2
        <5>4. n <= n
          BY ONLY <2>2
        <5> QED BY ONLY <4>1, <5>1, <5>2, <5>3, <5>4
      <4>3. CASE w \notin sub[y]
        <5>1. PICK c : c = t.value[b]
          OBVIOUS
        <5>2. b # NULL /\ c <= m
          BY ONLY <1>3, <3>5, <4>1, <4>3, <5>1
        <5>3. b \in M /\ c \in Nat
          BY ONLY <1>3, <5>1, <5>2, \A x \in M : t.value[x] \in Nat
        <5>4. y \in sub[y]
          BY ONLY <2>2, Tree(t, M, sub) DEF Tree, Spans
        <5>5. n <= c
          BY ONLY <1>3, <1>5, <2>1, <5>1, <5>2, <5>4
        <5> QED BY ONLY <2>2, <4>1, <5>2, <5>3, <5>5
      <4> QED BY ONLY <4>2, <4>3
    <3>6. ASSUME k # NULL, NEW w \in sub[k] PROVE t.value[w] <= n
      <4>1. w \in M /\ Under(t, sub, y, LEFT_CHILD, w)
        BY ONLY <3>4, <3>6
      <4> QED BY ONLY <1>1, <2>1, <2>2, <3>3, <4>1 DEF Sorted, Ordered
    <3>7. k = NULL \/ Cardinality(sub[k]) + (i + 1) <= Turns
      <4>1. ~(t.value[y] + 1 = wanted)
        BY ONLY <2>1, <2>2, <2>5, wanted \in Nat
      <4> QED BY ONLY <1>3, <1>5, <3>4, <4>1
    <3>8. u.at = k /\ u.best = y
      BY ONLY <3>2
    <3>9. wanted <= n + 1
      BY ONLY <2>2, <2>5, wanted \in Nat
    <3> QED BY ONLY <1>5, <2>1, <2>2, <3>4, <3>5, <3>6, <3>7, <3>8, <3>9 DEF Fitting
  <2> QED BY ONLY <2>2, <2>3, <2>4, <2>5, wanted \in Nat
<1> QED BY ONLY <1>4, <1>5

(* best_fit is right in a tree. *)
LEMMA FitTree ==
    ASSUME NEW t, NEW M, NEW sub, NEW wanted, NEW v, Tree(t, M, sub),
           \A w \in M : t.value[w] \in Nat, wanted \in Nat, v = best_fit(t, wanted)
    PROVE  /\ v \in M \cup {NULL}
           /\ v = NULL => \A w \in M : t.value[w] + 1 < wanted
           /\ v # NULL => /\ wanted <= t.value[v] + 1
                          /\ \A w \in M : wanted <= t.value[w] + 1 => t.value[v] <= t.value[w]
<1> DEFINE S == [at : Vma \cup {NULL}, best : Vma \cup {NULL}]
<1>1. PICK F : F = [s \in S |-> FitNext(t, wanted, s)]
  OBVIOUS
<1>2. PICK z : z = [at |-> t.root, best |-> NULL]
  OBVIOUS
<1>3. PICK e : e = Loop(F, z)
  OBVIOUS
<1>4. v = IF e.at = NULL THEN e.best ELSE e.at
  BY <1>1, <1>2, <1>3 DEF best_fit
<1>5. PICK P : P = [i \in Nat |-> {s \in S : Fitting(t, M, sub, wanted, i, s)}]
  OBVIOUS
<1>6. \A i \in Nat : \A s : s \in P[i] <=> s \in S /\ Fitting(t, M, sub, wanted, i, s)
  BY ONLY <1>5
<1>7. /\ M \subseteq Vma /\ t.root \in M \cup {NULL} /\ (t.root = NULL <=> M = {})
      /\ t.root # NULL => sub[t.root] = M
  BY DEF Tree, Linked, Spans
<1>8. z \in P[0]
  <2>1. z.at = t.root /\ z.best = NULL /\ z \in S
    BY ONLY <1>2, <1>7
  <2>2. t.root = NULL \/ Cardinality(sub[t.root]) + 0 <= Turns
    BY ONLY <1>7, Tree(t, M, sub), NotEmptyAtEnd
  <2>3. Fitting(t, M, sub, wanted, 0, z)
    BY ONLY <1>7, <2>1, <2>2 DEF Fitting
  <2> QED BY ONLY <1>6, <2>1, <2>3
<1>9. \A i \in Nat : \A s : s \in P[i] => F[s] \in P[i + 1]
  <2>1. ASSUME NEW i \in Nat, NEW s, s \in P[i] PROVE F[s] \in P[i + 1]
    <3>1. s \in S /\ Fitting(t, M, sub, wanted, i, s)
      BY ONLY <1>6, <2>1
    <3>2. PICK k : k = FitNext(t, wanted, s)
      OBVIOUS
    <3>3. F[s] = k
      BY ONLY <1>1, <3>1, <3>2
    <3>4. PICK j : j = i + 1 /\ j \in Nat
      BY ONLY i \in Nat
    <3>5. Fitting(t, M, sub, wanted, j, k)
      BY ONLY <3>1, <3>2, <3>4, Tree(t, M, sub), \A w \in M : t.value[w] \in Nat,
              wanted \in Nat, i \in Nat, FitStep
    <3>6. k \in S
      <4>1. k.at \in Vma \cup {NULL} /\ k.best \in Vma \cup {NULL}
        BY ONLY <1>7, <3>5 DEF Fitting
      <4>2. k = s \/ \E a, b : k = [at |-> a, best |-> b]
        BY ONLY <3>2 DEF FitNext
      <4> QED BY ONLY <3>1, <4>1, <4>2
    <3> QED BY ONLY <1>6, <3>3, <3>4, <3>5, <3>6
  <2> QED BY ONLY <2>1
<1>10. Turns \in Nat
  BY TurnsFacts
<1>11. e \in P[Turns]
  BY ONLY <1>3, <1>8, <1>9, <1>10, LoopInvariant
<1>12. Fitting(t, M, sub, wanted, Turns, e)
  BY ONLY <1>6, <1>10, <1>11
<1>13. PICK y, b : y = e.at /\ b = e.best
  OBVIOUS
<1>14. /\ y \in M \cup {NULL} /\ b \in M \cup {NULL}
       /\ b # NULL => wanted <= t.value[b] + 1
       /\ \A w \in M : wanted <= t.value[w] + 1 =>
             (y # NULL /\ w \in sub[y]) \/ (b # NULL /\ t.value[b] <= t.value[w])
       /\ y = NULL \/ t.value[y] + 1 = wanted \/ Cardinality(sub[y]) + Turns <= Turns
  BY ONLY <1>12, <1>13 DEF Fitting
<1>15. y # NULL => y \in M /\ ~(Cardinality(sub[y]) + Turns <= Turns)
  BY ONLY <1>14, Tree(t, M, sub), NotEmptyAtEnd
<1>16. CASE y # NULL
  <2>1. v = y /\ y \in M /\ t.value[y] + 1 = wanted
    BY ONLY <1>4, <1>13, <1>14, <1>15, <1>16
  <2>2. ASSUME NEW w \in M, wanted <= t.value[w] + 1 PROVE t.value[y] <= t.value[w]
    BY ONLY <2>1, <2>2, \A x \in M : t.value[x] \in Nat
  <2>3. wanted <= t.value[y] + 1 /\ y # NULL
    BY ONLY <1>16, <2>1, wanted \in Nat
  <2> QED BY ONLY <2>1, <2>2, <2>3
<1>17. CASE y = NULL
  <2>1. v = b
    BY ONLY <1>4, <1>13, <1>17
  <2>2. CASE b = NULL
    <3>1. \A w \in M : ~(wanted <= t.value[w] + 1)
      BY ONLY <1>14, <1>17, <2>2
    <3>2. \A w \in M : t.value[w] + 1 < wanted
      BY ONLY <3>1, wanted \in Nat, \A w \in M : t.value[w] \in Nat
    <3> QED BY ONLY <1>14, <2>1, <2>2, <3>2
  <2>3. CASE b # NULL
    BY ONLY <1>14, <1>17, <2>1, <2>3
  <2> QED BY ONLY <2>2, <2>3
<1> QED BY ONLY <1>16, <1>17

(* A set of structs that the links from the root do not leave. *)
Closed(t, S) ==
    /\ t.root # NULL => t.root \in S
    /\ \A w \in S : \A s \in Sides : t.child[w][s] # NULL => t.child[w][s] \in S

(* The members of a tree are closed, and every closed set holds them: the  *)
(* parent of a member outside it is outside as well, and its subtree has   *)
(* more nodes.                                                             *)
LEMMA TreeIsClosed ==
    ASSUME NEW t, NEW M, NEW sub, Tree(t, M, sub)
    PROVE  Closed(t, M)
BY DEF Tree, Linked, Closed

LEMMA OutsideGrows ==
    ASSUME NEW t, NEW M, NEW sub, NEW S, NEW x, Tree(t, M, sub), Closed(t, S), x \in M, x \notin S,
           t.which_child[x] \in Sides
    PROVE  \E p \in M : p \notin S /\ Cardinality(sub[x]) + 1 <= Cardinality(sub[p])
<1>1. Linked(t, M) /\ Spans(t, M, sub)
  BY ONLY Tree(t, M, sub) DEF Tree
<1>2. PICK p, q : p = t.parent[x] /\ q = t.which_child[x]
  OBVIOUS
<1>3. p # NULL
  <2>1. p = NULL => t.root = x
    BY ONLY <1>1, <1>2, x \in M DEF Linked
  <2>2. x # NULL
    BY ONLY <1>1, x \in M, TreapConstants DEF Linked
  <2> QED BY ONLY <2>1, <2>2, x \notin S, Closed(t, S) DEF Closed
<1>4. p \in M /\ t.child[p][q] = x /\ q \in Sides /\ x # NULL
  BY ONLY <1>1, <1>2, <1>3, x \in M, t.which_child[x] \in Sides, TreapConstants DEF Linked
<1>5. p \notin S
  BY ONLY <1>4, x \notin S, Closed(t, S) DEF Closed
<1>6. IsChild(t, p, q, x)
  BY ONLY <1>4 DEF IsChild
<1>7. p \notin sub[x] /\ sub[x] \subseteq sub[p]
  BY ONLY <1>1, <1>4, <1>6, ChildFacts
<1>8. p \in sub[p] /\ sub[p] \subseteq Vma
  BY ONLY <1>1, <1>4 DEF Linked, Spans
<1>9. /\ Cardinality(sub[x]) \in Nat /\ Cardinality(sub[p]) \in Nat
      /\ Cardinality(sub[x]) < Cardinality(sub[p])
  BY ONLY <1>7, <1>8, CardinalityGrows
<1> QED BY ONLY <1>4, <1>5, <1>9

LEMMA ClosedHoldsTree ==
    ASSUME NEW t, NEW M, NEW sub, NEW S, Tree(t, M, sub), Closed(t, S),
           \A w \in M : t.which_child[w] \in Sides
    PROVE  M \subseteq S
<1> SUFFICES ASSUME NEW v \in M, v \notin S PROVE FALSE
  OBVIOUS
<1> DEFINE Z == {n \in Nat : \E x \in M : x \notin S /\ n <= Cardinality(sub[x])}
<1>0. \A x \in M : sub[x] \subseteq Vma
  BY DEF Tree, Linked, Spans
<1>1. \A x \in M : Cardinality(sub[x]) \in Nat /\ Cardinality(sub[x]) <= Turns
  BY ONLY <1>0, TurnsFacts
<1>2. 0 \in Z
  BY ONLY <1>1, v \in M, v \notin S
<1>3. \A n \in Nat : n \in Z => n + 1 \in Z
  <2>1. ASSUME NEW n \in Nat, n \in Z PROVE n + 1 \in Z
    <3>1. PICK x \in M : x \notin S /\ n <= Cardinality(sub[x])
      BY ONLY <2>1
    <3>2. t.which_child[x] \in Sides
      BY ONLY <3>1, \A w \in M : t.which_child[w] \in Sides
    <3>3. PICK p \in M : p \notin S /\ Cardinality(sub[x]) + 1 <= Cardinality(sub[p])
      BY ONLY <3>1, <3>2, Tree(t, M, sub), Closed(t, S), OutsideGrows
    <3>4. n + 1 <= Cardinality(sub[p])
      BY ONLY <1>1, <3>1, <3>3, n \in Nat
    <3> QED BY ONLY <3>3, <3>4, n \in Nat
  <2> QED BY ONLY <2>1
<1>4. Turns + 1 \in Z
  <2>1. Turns + 1 \in Nat
    BY TurnsFacts
  <2>2. \A n \in Nat : n \in Z
    <3> HIDE DEF Z
    <3> QED BY ONLY <1>2, <1>3, SetInduction
  <2> QED BY ONLY <2>1, <2>2
<1>5. Turns \in Nat
  BY TurnsFacts
<1> QED BY ONLY <1>1, <1>4, <1>5

(* t is a tree of the structs M, and the structs outside it are idle. *)
Sound(t, M) ==
    /\ t \in Treaps /\ M \subseteq Vma
    /\ \E sub : Tree(t, M, sub)
    /\ \A v \in Vma \ M : Idle(t, v)

(* The inductive invariant.  The VMAs BY_ADDR do not overlap. *)
Inv ==
    /\ Sound(T, members)
    /\ size \in [Vma -> Nat \ {0}]
    /\ which = "BY_ADDR" => Apart(T, size, members)

(* What Inv says of LinksAgree, HoldsMembers and the two searches. *)
LEMMA InvLinks == Inv => LinksAgree
BY DEF Inv, Sound, Tree, Linked, LinksAgree

LEMMA InvHolds == Inv => HoldsMembers
<1> SUFFICES ASSUME Inv PROVE HoldsMembers
  OBVIOUS
<1>1. PICK sub : Tree(T, members, sub)
  BY DEF Inv, Sound
<1>2. members \subseteq Vma /\ \A w \in Vma : T.which_child[w] \in Sides
  BY DEF Inv, Sound, Treaps
<1>3. \A v : v \in Reached <=> v \in Vma /\ \A S \in SUBSET Vma : Closed(T, S) => v \in S
  BY DEF Reached, Closed
<1>4. Closed(T, members)
  BY ONLY <1>1, TreeIsClosed
<1>5. \A S : Closed(T, S) => members \subseteq S
  BY ONLY <1>1, <1>2, ClosedHoldsTree
<1>6. Reached = members
  BY ONLY <1>2, <1>3, <1>4, <1>5
<1>7. \A v \in Vma \ members :
         /\ T.which_child[v] = LEFT_CHILD /\ T.priority[v] = 0 /\ T.parent[v] = NULL
         /\ \A s \in Sides : T.child[v][s] = NULL
  BY DEF Inv, Sound, Idle
<1> QED BY ONLY <1>6, <1>7 DEF HoldsMembers

LEMMA InvFinds == Inv => FindIsRight
<1> SUFFICES ASSUME Inv, which = "BY_ADDR", NEW addr \in 0..(MaxValue + MaxLen), NEW v,
                    v = vma_find(T, size, addr)
             PROVE  IF v = NULL THEN \A w \in members : ~Contains(w, addr)
                                ELSE v \in members /\ Contains(v, addr)
  BY DEF FindIsRight
<1>1. PICK sub : Tree(T, members, sub)
  BY DEF Inv, Sound
<1>2. Apart(T, size, members)
  BY DEF Inv, Sound
<1>3. Lengthy(T, size, members)
  BY TreapConstants DEF Inv, Sound, Treaps, Lengthy
<1>4. addr \in Nat
  BY TreapConstants
<1>5. /\ v \in members \cup {NULL}
      /\ v = NULL => \A w \in members : ~Covers(T, size, w, addr)
      /\ v # NULL => Covers(T, size, v, addr)
  BY ONLY <1>1, <1>2, <1>3, <1>4, v = vma_find(T, size, addr), FindTree
<1> QED BY ONLY <1>5 DEF Covers, Contains

LEMMA InvFits == Inv => BestFitIsRight
<1> SUFFICES ASSUME Inv, which = "BY_SIZE", NEW wanted \in 1..(MaxValue + 2), NEW v,
                    v = best_fit(T, wanted)
             PROVE  IF v = NULL THEN \A w \in members : T.value[w] + 1 < wanted
                    ELSE /\ v \in members /\ wanted <= T.value[v] + 1
                         /\ \A w \in members : wanted <= T.value[w] + 1 => T.value[v] <= T.value[w]
  BY DEF BestFitIsRight
<1>1. PICK sub : Tree(T, members, sub)
  BY DEF Inv, Sound
<1>2. \A w \in members : T.value[w] \in Nat
  BY TreapConstants DEF Inv, Sound, Treaps
<1>3. wanted \in Nat
  BY TreapConstants
<1>4. /\ v \in members \cup {NULL}
      /\ v = NULL => \A w \in members : T.value[w] + 1 < wanted
      /\ v # NULL => /\ wanted <= T.value[v] + 1
                     /\ \A w \in members : wanted <= T.value[w] + 1 => T.value[v] <= T.value[w]
  BY ONLY <1>1, <1>2, <1>3, v = best_fit(T, wanted), FitTree
<1> QED BY ONLY <1>4

LEMMA SoundInit ==
    ASSUME NEW t, NEW M, NEW v, NEW x, NEW u, Sound(t, M), v \in Vma, v \notin M,
           x \in 0..MaxValue, u = treap_init(t, v, x)
    PROVE  /\ Sound(u, M)
           /\ \A w \in Vma : u.value[w] = IF w = v THEN x ELSE t.value[w]
<1>1. t \in Treaps /\ M \subseteq Vma /\ \A w \in Vma \ M : Idle(t, w)
  BY ONLY Sound(t, M) DEF Sound
<1>2. PICK sub : Tree(t, M, sub)
  BY ONLY Sound(t, M) DEF Sound
<1>3. /\ u \in Treaps /\ u.root = t.root /\ Idle(u, v)
      /\ \A w \in Vma : u.value[w] = IF w = v THEN x ELSE t.value[w]
      /\ \A w \in Vma \ {v} : Same(t, u, w) /\ u.priority[w] = t.priority[w]
  BY ONLY <1>1, v \in Vma, x \in 0..MaxValue, u = treap_init(t, v, x), InitFacts
<1>4. \A w \in M : Same(t, u, w) /\ u.value[w] = t.value[w]
  BY ONLY <1>1, <1>3, v \notin M
<1>5. \A w \in M : t.which_child[w] \in Sides
  BY ONLY <1>1 DEF Treaps
<1>6. Tree(u, M, sub)
  BY ONLY <1>2, <1>3, <1>4, <1>5, SameTree
<1>7. \A w \in Vma \ M : Idle(u, w)
  BY ONLY <1>1, <1>3 DEF Idle, Same
<1> QED BY ONLY <1>1, <1>3, <1>6, <1>7 DEF Sound

LEMMA SoundInsert ==
    ASSUME NEW t, NEW M, NEW v, NEW rnd, NEW u, Sound(t, M), v \in Vma, v \notin M,
           rnd \in Draws, u = treap_insert(t, v, rnd)
    PROVE  Sound(u, M \cup {v}) /\ u.value = t.value
<1>1. t \in Treaps /\ M \subseteq Vma /\ \A w \in Vma \ M : Idle(t, w)
  BY ONLY Sound(t, M) DEF Sound
<1>2. PICK sub : Tree(t, M, sub)
  BY ONLY Sound(t, M) DEF Sound
<1>3. PICK N : N = M \cup {v}
  OBVIOUS
<1>4. Idle(t, v)
  BY ONLY <1>1, v \in Vma, v \notin M
<1>5. /\ u \in Treaps /\ u.value = t.value
      /\ \A w \in Vma \ (M \cup {v}) : Same(t, u, w) /\ u.priority[w] = t.priority[w]
      /\ \E sub2 : Tree(u, M \cup {v}, sub2)
  <2>1. t \in Treaps
    BY ONLY <1>1
  <2>2. Inserted(t, u, M, v)
    BY ONLY <1>2, <1>4, <2>1, v \in Vma, v \notin M, rnd \in Draws, u = treap_insert(t, v, rnd),
            InsertTree
  <2> QED BY ONLY <2>2 DEF Inserted
<1>6. \A w \in Vma \ N : Idle(u, w)
  BY ONLY <1>1, <1>3, <1>5 DEF Idle, Same
<1>7. N \subseteq Vma
  BY ONLY <1>1, <1>3, v \in Vma
<1> QED BY ONLY <1>3, <1>5, <1>6, <1>7 DEF Sound

LEMMA SoundRemove ==
    ASSUME NEW t, NEW M, NEW v, NEW u, Sound(t, M), v \in M, u = treap_remove(t, v)
    PROVE  Sound(u, M \ {v}) /\ u.value = t.value
<1>1. t \in Treaps /\ M \subseteq Vma /\ \A w \in Vma \ M : Idle(t, w)
  BY ONLY Sound(t, M) DEF Sound
<1>2. PICK sub : Tree(t, M, sub)
  BY ONLY Sound(t, M) DEF Sound
<1>3. PICK N : N = M \ {v}
  OBVIOUS
<1>4. /\ u \in Treaps /\ u.value = t.value /\ Idle(u, v)
      /\ \A w \in Vma \ M : Same(t, u, w) /\ u.priority[w] = t.priority[w]
      /\ \E sub2 : Tree(u, M \ {v}, sub2)
  <2>1. t \in Treaps
    BY ONLY <1>1
  <2>2. Removed(t, u, M, v)
    BY ONLY <1>2, <2>1, v \in M, u = treap_remove(t, v), RemoveTree
  <2> QED BY ONLY <2>2 DEF Removed
<1>5. \A w \in Vma \ M : Idle(u, w)
  BY ONLY <1>1, <1>4 DEF Idle, Same
<1>6. \A w \in Vma \ N : Idle(u, w)
  BY ONLY <1>3, <1>4, <1>5
<1>7. N \subseteq Vma
  BY ONLY <1>1, <1>3
<1> QED BY ONLY <1>3, <1>4, <1>6, <1>7 DEF Sound

(* The value of a struct outside the tree may change. *)
LEMMA SoundValue ==
    ASSUME NEW t, NEW M, NEW v, NEW x, NEW u, Sound(t, M), v \in Vma, v \notin M,
           x \in 0..MaxValue, u = [t EXCEPT !.value[v] = x]
    PROVE  Sound(u, M)
<1>1. t \in Treaps /\ M \subseteq Vma /\ \A w \in Vma \ M : Idle(t, w)
  BY ONLY Sound(t, M) DEF Sound
<1>2. PICK sub : Tree(t, M, sub)
  BY ONLY Sound(t, M) DEF Sound
<1>3. /\ u.root = t.root /\ u.priority = t.priority /\ u.parent = t.parent
      /\ u.which_child = t.which_child /\ u.child = t.child
      /\ u.value = [t.value EXCEPT ![v] = x]
      /\ u = [root |-> u.root, value |-> u.value, which_child |-> u.which_child,
              priority |-> u.priority, parent |-> u.parent, child |-> u.child]
  BY ONLY <1>1, u = [t EXCEPT !.value[v] = x] DEF Treaps
<1>4. t.value \in [Vma -> 0..MaxValue]
  BY ONLY <1>1 DEF Treaps
<1>5. u.value \in [Vma -> 0..MaxValue] /\ \A w \in M : u.value[w] = t.value[w]
  BY ONLY <1>1, <1>3, <1>4, v \in Vma, v \notin M, x \in 0..MaxValue
<1>6. u \in Treaps
  BY ONLY <1>1, <1>3, <1>5 DEF Treaps
<1>7. \A w \in M : Same(t, u, w) /\ u.value[w] = t.value[w]
  BY ONLY <1>3, <1>5 DEF Same
<1>8. \A w \in M : t.which_child[w] \in Sides
  BY ONLY <1>1 DEF Treaps
<1>9. Tree(u, M, sub)
  BY ONLY <1>2, <1>3, <1>7, <1>8, SameTree
<1>10. \A w \in Vma \ M : Idle(u, w)
  BY ONLY <1>1, <1>3 DEF Idle
<1> QED BY ONLY <1>1, <1>6, <1>9, <1>10 DEF Sound

(* A new VMA is apart from the others. *)
ApartFrom(t, len, M, x, n) == \A w \in M : t.value[w] + len[w] <= x \/ x + n <= t.value[w]

SameSpans(t, u, len, len2, M) == \A w \in M : u.value[w] = t.value[w] /\ len2[w] = len[w]

LEMMA ApartInsert ==
    ASSUME NEW t, NEW u, NEW len, NEW len2, NEW M, NEW v, NEW x, NEW n, Apart(t, len, M),
           v \notin M, u.value[v] = x, len2[v] = n,
           SameSpans(t, u, len, len2, M), ApartFrom(t, len, M, x, n)
    PROVE  Apart(u, len2, M \cup {v})
<1> SUFFICES ASSUME NEW a \in M \cup {v}, NEW b \in M \cup {v}, a # b
             PROVE  u.value[a] + len2[a] <= u.value[b] \/ u.value[b] + len2[b] <= u.value[a]
  BY DEF Apart
<1>1. CASE a \in M /\ b \in M
  BY ONLY <1>1, a # b, Apart(t, len, M), SameSpans(t, u, len, len2, M)
     DEF Apart, SameSpans
<1>2. CASE a = v /\ b \in M
  BY ONLY <1>2, u.value[v] = x, len2[v] = n, SameSpans(t, u, len, len2, M),
          ApartFrom(t, len, M, x, n) DEF SameSpans, ApartFrom
<1>3. CASE a \in M /\ b = v
  BY ONLY <1>3, u.value[v] = x, len2[v] = n, SameSpans(t, u, len, len2, M),
          ApartFrom(t, len, M, x, n) DEF SameSpans, ApartFrom
<1> QED BY ONLY <1>1, <1>2, <1>3, a \in M \cup {v}, b \in M \cup {v}, a # b

LEMMA InitInv == Init => Inv
<1> SUFFICES ASSUME Init PROVE Inv
  OBVIOUS
<1>1. PICK A : A = {0} \cup {PriorityOf(rnd) : rnd \in Draws}
  OBVIOUS
<1>2. 0 \in 0..MaxValue /\ 0 \in A
  BY <1>1, TreapConstants
<1>3. PICK k : k = [c \in Sides |-> NULL]
  OBVIOUS
<1>4. k \in [Sides -> Vma \cup {NULL}] /\ \A s \in Sides : k[s] = NULL
  BY ONLY <1>3
<1>5. T = [root |-> NULL, value |-> [v \in Vma |-> 0], which_child |-> [v \in Vma |-> LEFT_CHILD],
           priority |-> [v \in Vma |-> 0], parent |-> [v \in Vma |-> NULL],
           child |-> [v \in Vma |-> k]]
  BY <1>3 DEF Init
<1>6. LEFT_CHILD \in Sides
  BY DEF Sides
<1>7. T \in Treaps
  BY ONLY <1>1, <1>2, <1>4, <1>5, <1>6 DEF Treaps
<1>8. \A v \in Vma : Idle(T, v)
  BY ONLY <1>4, <1>5 DEF Idle
<1>9. \A sub : Tree(T, {}, sub)
  BY ONLY <1>5 DEF Tree, Linked, Spans, Sorted
<1>10. members = {} /\ size \in [Vma -> Nat \ {0}]
  BY DEF Init
<1> QED BY ONLY <1>7, <1>8, <1>9, <1>10 DEF Inv, Sound, Apart

LEMMA InsertInv ==
    ASSUME NEW v, NEW x, NEW len, NEW rnd, Inv, v \in Vma, x \in 0..MaxValue, len \in Lengths,
           rnd \in Draws, Insert(v, x, len, rnd)
    PROVE  Inv'
<1>1. /\ Sound(T, members) /\ size \in [Vma -> Nat \ {0}]
      /\ which = "BY_ADDR" => Apart(T, size, members)
  BY DEF Inv
<1>2. /\ v \notin members /\ members' = members \cup {v} /\ which' = which
      /\ size' = [size EXCEPT ![v] = len]
      /\ T' = treap_insert(treap_init(T, v, x), v, rnd)
  BY DEF Insert
<1>3. which = "BY_ADDR" => \A w \in members : T.value[w] + size[w] <= x \/ x + len <= T.value[w]
  BY DEF Insert, MayInsert, HasRoom
<1>4. PICK t : t = treap_init(T, v, x)
  OBVIOUS
<1>5. Sound(t, members) /\ \A w \in Vma : t.value[w] = IF w = v THEN x ELSE T.value[w]
  BY ONLY <1>1, <1>2, <1>4, v \in Vma, x \in 0..MaxValue, SoundInit
<1>6. PICK u : u = treap_insert(t, v, rnd)
  OBVIOUS
<1>7. Sound(u, members \cup {v}) /\ u.value = t.value
  <2>1. Sound(t, members)
    BY ONLY <1>5
  <2>2. v \notin members
    BY ONLY <1>2
  <2> QED BY ONLY <1>6, <2>1, <2>2, v \in Vma, rnd \in Draws, SoundInsert
<1>8. T' = u
  BY ONLY <1>2, <1>4, <1>6
<1>9. len \in Nat \ {0}
  BY TreapConstants DEF Lengths
<1>10. size' \in [Vma -> Nat \ {0}] /\ \A w \in Vma : size'[w] = IF w = v THEN len ELSE size[w]
  BY ONLY <1>1, <1>2, <1>9, v \in Vma
<1>11. ASSUME which = "BY_ADDR"
       PROVE  Apart(u, size', members \cup {v})
  <2>1. members \subseteq Vma
    BY ONLY <1>1 DEF Sound
  <2>2. u.value[v] = x /\ size'[v] = len
    BY ONLY <1>5, <1>7, <1>10, v \in Vma
  <2>3. \A w \in members : u.value[w] = T.value[w] /\ size'[w] = size[w]
    BY ONLY <1>2, <1>5, <1>7, <1>10, <2>1
  <2>4. PICK l2 : l2 = size'
    OBVIOUS
  <2>5. Apart(u, l2, members \cup {v})
    <3>1. Apart(T, size, members)
      BY ONLY <1>1, <1>11
    <3>3. ApartFrom(T, size, members, x, len)
      BY ONLY <1>3, <1>11 DEF ApartFrom
    <3>4. SameSpans(T, u, size, l2, members)
      BY ONLY <2>3, <2>4 DEF SameSpans
    <3>5. u.value[v] = x /\ l2[v] = len
      BY ONLY <2>2, <2>4
    <3>2. v \notin members
      BY ONLY <1>2
    <3> QED BY ONLY <3>1, <3>2, <3>3, <3>4, <3>5, ApartInsert
  <2> QED BY ONLY <2>4, <2>5
<1>12. Sound(T', members')
  BY ONLY <1>2, <1>7, <1>8
<1>13. which' = "BY_ADDR" => Apart(T', size', members')
  BY ONLY <1>2, <1>8, <1>11
<1> QED BY ONLY <1>10, <1>12, <1>13 DEF Inv

LEMMA ReinsertInv ==
    ASSUME NEW v, NEW x, NEW rnd, Inv, v \in Vma, x \in 0..MaxValue, rnd \in Draws,
           Reinsert(v, x, rnd)
    PROVE  Inv'
<1>1. Sound(T, members) /\ size \in [Vma -> Nat \ {0}]
  BY DEF Inv
<1>2. /\ which = "BY_SIZE" /\ which' = which /\ size' = size /\ members' = members /\ v \in members
      /\ T' = treap_insert([treap_remove(T, v) EXCEPT !.value[v] = x], v, rnd)
  BY DEF Reinsert
<1>3. PICK t, u, y : /\ t = treap_remove(T, v) /\ u = [t EXCEPT !.value[v] = x]
                     /\ y = treap_insert(u, v, rnd)
  OBVIOUS
<1>4. PICK N : N = members \ {v}
  OBVIOUS
<1>5. Sound(t, N)
  <2>1. Sound(t, members \ {v}) /\ t.value = T.value
    BY ONLY <1>1, <1>2, <1>3, SoundRemove
  <2> QED BY ONLY <1>4, <2>1
<1>6. v \notin N /\ N \cup {v} = members
  BY ONLY <1>2, <1>4
<1>7. Sound(u, N)
  BY ONLY <1>3, <1>5, <1>6, v \in Vma, x \in 0..MaxValue, SoundValue
<1>8. Sound(y, N \cup {v}) /\ y.value = u.value
  <2>1. v \notin N /\ y = treap_insert(u, v, rnd)
    BY ONLY <1>3, <1>6
  <2> QED BY ONLY <1>7, <2>1, v \in Vma, rnd \in Draws, SoundInsert
<1>9. T' = y
  BY ONLY <1>2, <1>3
<1>10. Sound(T', members')
  BY ONLY <1>2, <1>6, <1>8, <1>9
<1>11. which' # "BY_ADDR"
  BY ONLY <1>2
<1> QED BY ONLY <1>1, <1>2, <1>10, <1>11 DEF Inv

LEMMA SetSizeInv ==
    ASSUME NEW v, NEW len, Inv, v \in Vma, len \in Lengths, SetSize(v, len)
    PROVE  Inv'
<1>1. /\ Sound(T, members) /\ size \in [Vma -> Nat \ {0}]
      /\ which = "BY_ADDR" => Apart(T, size, members)
  BY DEF Inv
<1>2. /\ which = "BY_ADDR" /\ v \in members /\ size' = [size EXCEPT ![v] = len]
      /\ T' = T /\ members' = members
  BY DEF SetSize
<1>3. PICK N : N = members \ {v}
  OBVIOUS
<1>4. PICK x : x = T.value[v]
  OBVIOUS
<1>5. ApartFrom(T, size, N, x, len)
  BY <1>3, <1>4 DEF SetSize, HasRoom, ApartFrom
<1>6. len \in Nat \ {0}
  BY TreapConstants DEF Lengths
<1>7. PICK l2 : l2 = size'
  OBVIOUS
<1>8. l2 \in [Vma -> Nat \ {0}] /\ \A w \in Vma : l2[w] = IF w = v THEN len ELSE size[w]
  BY ONLY <1>1, <1>2, <1>6, <1>7, v \in Vma
<1>9. members \subseteq Vma
  BY ONLY <1>1 DEF Sound
<1>10. SameSpans(T, T, size, l2, N) /\ l2[v] = len
  BY ONLY <1>3, <1>8, <1>9, v \in Vma DEF SameSpans
<1>11. Apart(T, size, N)
  BY ONLY <1>1, <1>2, <1>3 DEF Apart
<1>12. v \notin N /\ N \cup {v} = members
  BY ONLY <1>2, <1>3
<1>13. Apart(T, l2, N \cup {v})
  <2>1. T.value[v] = x /\ l2[v] = len /\ v \notin N /\ SameSpans(T, T, size, l2, N)
    BY ONLY <1>4, <1>10, <1>12
  <2> QED BY ONLY <1>5, <1>11, <2>1, ApartInsert
<1>14. Sound(T', members') /\ Apart(T', size', members')
  BY ONLY <1>1, <1>2, <1>7, <1>12, <1>13
<1>15. size' \in [Vma -> Nat \ {0}]
  BY ONLY <1>7, <1>8
<1> QED BY ONLY <1>14, <1>15 DEF Inv

LEMMA RemoveInv ==
    ASSUME NEW v, Inv, v \in Vma, Remove(v)
    PROVE  Inv'
<1>1. /\ Sound(T, members) /\ size \in [Vma -> Nat \ {0}]
      /\ which = "BY_ADDR" => Apart(T, size, members)
  BY DEF Inv
<1>2. which' = which /\ size' = size /\ v \in members
  BY DEF Remove
<1>3. CASE T' = T /\ members' = members
  BY ONLY <1>1, <1>2, <1>3 DEF Inv
<1>4. CASE T' = treap_remove(T, v) /\ members' = members \ {v}
  <2>1. PICK t : t = treap_remove(T, v)
    OBVIOUS
  <2>2. Sound(t, members \ {v}) /\ t.value = T.value
    BY ONLY <1>1, <1>2, <2>1, SoundRemove
  <2>3. Apart(T, size, members) => Apart(t, size, members \ {v})
    BY ONLY <2>2 DEF Apart
  <2>4. T' = t
    BY ONLY <1>4, <2>1
  <2>5. Sound(T', members') /\ (which' = "BY_ADDR" => Apart(T', size', members'))
    BY ONLY <1>1, <1>2, <1>4, <2>2, <2>3, <2>4
  <2> QED BY ONLY <1>1, <1>2, <2>5 DEF Inv
<1> QED BY <1>3, <1>4 DEF Remove

(* Every step keeps the invariant. *)
LEMMA NextInv == Inv /\ [Next]_vars => Inv'
<1> SUFFICES ASSUME Inv, [Next]_vars PROVE Inv'
  OBVIOUS
<1>1. CASE UNCHANGED vars
  BY <1>1 DEF vars, Inv, Halt
<1>2. ASSUME NEW v \in Vma, NEW x \in 0..MaxValue, NEW rnd \in Draws, NEW len \in Lengths,
             Insert(v, x, len, rnd)
      PROVE  Inv'
  BY ONLY <1>2, Inv, InsertInv
<1>3. ASSUME NEW v \in Vma, NEW x \in 0..MaxValue, NEW rnd \in Draws, Reinsert(v, x, rnd)
      PROVE  Inv'
  BY ONLY <1>3, Inv, ReinsertInv
<1>4. ASSUME NEW v \in Vma, Remove(v)
      PROVE  Inv'
  BY ONLY <1>4, Inv, RemoveInv
<1>5. ASSUME NEW v \in Vma, NEW len \in Lengths, SetSize(v, len)
      PROVE  Inv'
  BY ONLY <1>5, Inv, SetSizeInv
<1>6. CASE Halt
  BY <1>1, <1>6 DEF Halt
<1> QED BY <1>1, <1>2, <1>3, <1>4, <1>5, <1>6 DEF Next

THEOREM InvTheorem == Spec => []Inv
BY InitInv, NextInv, PTL DEF Spec

(* After any sequence of insertions and removals, with any draws, parent   *)
(* and child pointers and which_child agree.                               *)
THEOREM LinksAgreeTheorem == Spec => []LinksAgree
BY InvTheorem, InvLinks, PTL

(* The nodes that are reached from the root are the members; the structs   *)
(* outside are as treap_insert asserts.                                    *)
THEOREM HoldsMembersTheorem == Spec => []HoldsMembers
BY InvTheorem, InvHolds, PTL

(* vma_find returns the VMA that contains the address, if there is one.    *)
THEOREM FindIsRightTheorem == Spec => []FindIsRight
BY InvTheorem, InvFinds, PTL

(* The search of vma_alloc returns a smallest VMA that is large enough, if *)
(* there is one.                                                           *)
THEOREM BestFitIsRightTheorem == Spec => []BestFitIsRight
BY InvTheorem, InvFits, PTL
=============================================================================
