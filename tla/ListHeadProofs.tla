--------------------------- MODULE ListHeadProofs ---------------------------
(* What the list functions of include/list.h do to whole lists, for every  *)
(* memory of list_heads: the lemmas that the proofs about the structures   *)
(* threaded on such lists rest on.                                         *)
EXTENDS ListHead, TLAPS

(* list_unshift links a self-linked node right after x, touches the links  *)
(* of x and of its successor only, and leaves well formed lists.           *)
LEMMA UnshiftLemma ==
    ASSUME NEW N, NEW L \in LinkType(N), NEW S \in SUBSET N, Linked(L, S),
           NEW x \in S, NEW e \in N \ S
    PROVE  /\ list_unshift(L, x, e) \in LinkType(N)
           /\ Linked(list_unshift(L, x, e), S \cup {e})
           /\ \A y \in N : list_unshift(L, x, e).next[y] =
                 IF y = x THEN e ELSE IF y = e THEN L.next[x] ELSE L.next[y]
           /\ \A y \in N : list_unshift(L, x, e).prev[y] =
                 IF y = L.next[x] THEN e ELSE IF y = e THEN x ELSE L.prev[y]
<1> DEFINE M == list_unshift(L, x, e)
<1>1. /\ L.prev \in [N -> N] /\ L.next \in [N -> N]
      /\ L.next[x] \in S /\ L.next[x] \in N /\ x \in N
  BY DEF LinkType, Linked
<1>2. /\ M.prev = [[L.prev EXCEPT ![e] = x] EXCEPT ![L.next[x]] = e]
      /\ M.next = [[L.next EXCEPT ![e] = L.next[x]] EXCEPT ![x] = e]
      /\ M = [prev |-> M.prev, next |-> M.next]
  BY DEF list_unshift
<1> HIDE DEF M
<1>3. M.prev \in [N -> N] /\ M.next \in [N -> N]
  BY <1>1, <1>2
<1>4. M \in LinkType(N)
  BY <1>2, <1>3 DEF LinkType
<1>5. \A y \in N : M.next[y] = IF y = x THEN e
                               ELSE IF y = e THEN L.next[x] ELSE L.next[y]
  BY <1>1, <1>2
<1>6. \A y \in N : M.prev[y] = IF y = L.next[x] THEN e
                               ELSE IF y = e THEN x ELSE L.prev[y]
  BY <1>1, <1>2
<1>7. Linked(M, S \cup {e})
  <2>1. ASSUME NEW y \in S \cup {e}
        PROVE  /\ M.next[y] \in S \cup {e} /\ M.prev[y] \in S \cup {e}
               /\ M.prev[M.next[y]] = y /\ M.next[M.prev[y]] = y
    BY <1>1, <1>5, <1>6 DEF Linked
  <2>2. ASSUME NEW y \in N \ (S \cup {e})
        PROVE  M.next[y] = y /\ M.prev[y] = y
    BY <1>1, <1>5, <1>6 DEF Linked
  <2> QED BY <1>3, <2>1, <2>2 DEF Linked
<1> QED BY <1>4, <1>5, <1>6, <1>7 DEF M

(* list_remove joins the neighbours of e, self-links e, and leaves well    *)
(* formed lists.                                                           *)
LEMMA RemoveLemma ==
    ASSUME NEW N, NEW L \in LinkType(N), NEW S \in SUBSET N, Linked(L, S),
           NEW e \in S, L.next[e] # e
    PROVE  /\ list_remove(L, e) \in LinkType(N)
           /\ Linked(list_remove(L, e), S \ {e})
           /\ \A y \in N : list_remove(L, e).next[y] =
                 IF y = e THEN e ELSE IF y = L.prev[e] THEN L.next[e] ELSE L.next[y]
           /\ \A y \in N : list_remove(L, e).prev[y] =
                 IF y = e THEN e ELSE IF y = L.next[e] THEN L.prev[e] ELSE L.prev[y]
<1> DEFINE M == list_remove(L, e)
<1>1. /\ L.prev \in [N -> N] /\ L.next \in [N -> N]
      /\ L.next[e] \in S /\ L.prev[e] \in S /\ e \in N
  BY DEF LinkType, Linked
<1>2. /\ M.prev = [[L.prev EXCEPT ![L.next[e]] = L.prev[e]] EXCEPT ![e] = e]
      /\ M.next = [[L.next EXCEPT ![L.prev[e]] = L.next[e]] EXCEPT ![e] = e]
      /\ M = [prev |-> M.prev, next |-> M.next]
  BY DEF list_remove, LIST_INIT
<1> HIDE DEF M
<1>3. M.prev \in [N -> N] /\ M.next \in [N -> N]
  BY <1>1, <1>2
<1>4. M \in LinkType(N)
  BY <1>2, <1>3 DEF LinkType
<1>5. \A y \in N : M.next[y] = IF y = e THEN e
                               ELSE IF y = L.prev[e] THEN L.next[e] ELSE L.next[y]
  BY <1>1, <1>2
<1>6. \A y \in N : M.prev[y] = IF y = e THEN e
                               ELSE IF y = L.next[e] THEN L.prev[e] ELSE L.prev[y]
  BY <1>1, <1>2
<1>7. Linked(M, S \ {e})
  <2>1. L.prev[e] # e
    BY <1>1 DEF Linked
  <2>2. ASSUME NEW y \in S \ {e}
        PROVE  /\ M.next[y] \in S \ {e} /\ M.prev[y] \in S \ {e}
               /\ M.prev[M.next[y]] = y /\ M.next[M.prev[y]] = y
    BY <1>1, <1>5, <1>6, <2>1 DEF Linked
  <2>3. ASSUME NEW y \in N \ (S \ {e})
        PROVE  M.next[y] = y /\ M.prev[y] = y
    BY <1>1, <1>5, <1>6 DEF Linked
  <2> QED BY <1>3, <2>2, <2>3 DEF Linked
<1> QED BY <1>4, <1>5, <1>6, <1>7 DEF M
-----------------------------------------------------------------------------
(* L holds the lists of the owners D, and P[d] are the nodes of E that are *)
(* on the list of d: no node is on two lists, and one that is on none is   *)
(* self-linked.                                                            *)
Lists(L, D, E, P) ==
    /\ D \cap E = {}
    /\ L \in LinkType(D \cup E)
    /\ P \in [D -> SUBSET E]
    /\ \A d1, d2 \in D : d1 # d2 => P[d1] \cap P[d2] = {}
    /\ \A x \in D \cup E : L.prev[L.next[x]] = x /\ L.next[L.prev[x]] = x
    /\ \A x \in E : (\A d \in D : x \notin P[d]) => L.next[x] = x /\ L.prev[x] = x
    /\ \A d \in D : \A x \in P[d] \cup {d} : /\ L.next[x] \in P[d] \cup {d}
                                             /\ L.prev[x] \in P[d] \cup {d}
    /\ \A d \in D : \A S \in SUBSET E : ClosedList(L, d, S) => P[d] \subseteq S

(* The nodes that following the list of d leads to are those of P[d].      *)
LEMMA ListOfLemma ==
    ASSUME NEW D, NEW E, NEW L, NEW P, Lists(L, D, E, P), NEW d \in D
    PROVE  ListOf(L, d, E) = P[d]
<1>1. P[d] \in SUBSET E /\ ClosedList(L, d, P[d])
  BY DEF Lists, ClosedList
<1>2. ASSUME NEW x \in P[d], NEW S \in SUBSET (E \ {x}), ClosedList(L, d, S)
      PROVE  FALSE
  BY <1>2 DEF Lists
<1>3. ASSUME NEW x \in E, x \notin P[d]
      PROVE  \E S \in SUBSET (E \ {x}) : ClosedList(L, d, S)
  BY <1>1, <1>3
<1> QED BY <1>1, <1>2, <1>3 DEF ListOf

(* The lists and their owners are well formed, in the sense of Linked.     *)
LEMMA ListsAreLinked ==
    ASSUME NEW D, NEW E, NEW L, NEW P, Lists(L, D, E, P),
           NEW S, S \subseteq D \cup E, D \subseteq S,
           \A x \in E : x \in S <=> \E d \in D : x \in P[d]
    PROVE  Linked(L, S)
<1>1. /\ DOMAIN L.next = D \cup E
      /\ \A d \in D : P[d] \subseteq E
  BY DEF Lists, LinkType
<1>2. ASSUME NEW x \in S
      PROVE  L.next[x] \in S /\ L.prev[x] \in S
  <2>1. PICK d \in D : x \in P[d] \cup {d}
    BY <1>2
  <2>2. L.next[x] \in P[d] \cup {d} /\ L.prev[x] \in P[d] \cup {d}
    BY <2>1 DEF Lists
  <2> QED BY <1>1, <2>2
<1>3. ASSUME NEW x \in S
      PROVE  L.prev[L.next[x]] = x /\ L.next[L.prev[x]] = x
  BY DEF Lists
<1>4. ASSUME NEW x \in DOMAIN L.next \ S
      PROVE  L.next[x] = x /\ L.prev[x] = x
  BY <1>1 DEF Lists
<1> QED BY <1>2, <1>3, <1>4 DEF Linked

(* A list is empty exactly if nothing is on it; otherwise list->next is.   *)
LEMMA EmptyLemma ==
    ASSUME NEW D, NEW E, NEW L, NEW P, Lists(L, D, E, P), NEW d \in D
    PROVE  /\ list_is_empty(L, d) <=> P[d] = {}
           /\ P[d] # {} => L.next[d] \in P[d]
<1>1. /\ L.next[d] \in P[d] \cup {d} /\ L.prev[d] \in P[d] \cup {d}
      /\ L.prev[L.next[d]] = d /\ L.next[L.prev[d]] = d
  BY DEF Lists
<1>2. ASSUME L.next[d] = d PROVE P[d] = {}
  <2>1. ClosedList(L, d, {})
    BY <1>2 DEF ClosedList
  <2> QED BY <2>1 DEF Lists
<1> QED BY <1>1, <1>2 DEF list_is_empty

(* A node on a list is linked to others than itself, and if its neighbours *)
(* are two, or the same node, there is more on the list or there is not.   *)
LEMMA MemberLemma ==
    ASSUME NEW D, NEW E, NEW L, NEW P, NEW d, NEW e,
           Lists(L, D, E, P), d \in D, e \in P[d]
    PROVE  /\ L.next[e] # e /\ L.prev[e] # e
           /\ ~list_is_empty(L, e)
           /\ L.prev[e] # L.next[e] => P[d] # {e}
<1>1. /\ e \in E /\ e # d /\ P[d] \subseteq E
      /\ L.next[e] \in P[d] \cup {d} /\ L.prev[e] \in P[d] \cup {d}
      /\ L.prev[L.next[e]] = e /\ L.next[L.prev[e]] = e
  BY DEF Lists
<1>2. ASSUME L.next[e] = e PROVE FALSE
  <2>1. ASSUME NEW x \in (P[d] \ {e}) \cup {d}
        PROVE  L.next[x] \in (P[d] \ {e}) \cup {d}
    <3>1. /\ L.next[x] \in P[d] \cup {d} /\ L.prev[L.next[x]] = x
      BY <1>1 DEF Lists
    <3>2. L.prev[e] = e
      BY <1>1, <1>2
    <3> QED BY <1>1, <3>1, <3>2
  <2>2. ClosedList(L, d, P[d] \ {e})
    BY <2>1 DEF ClosedList
  <2> QED BY <1>1, <2>2 DEF Lists
<1>3. L.prev[e] # e
  BY <1>1, <1>2
<1> QED BY <1>1, <1>2, <1>3 DEF list_is_empty

(* LIST_INIT leaves the memory as it is if the node is on no list. *)
LEMMA ListInitLemma ==
    ASSUME NEW D, NEW E, NEW L, NEW P, Lists(L, D, E, P),
           NEW e \in E, \A d \in D : e \notin P[d]
    PROVE  LIST_INIT(L, e) = L
<1>1. /\ L = [prev |-> L.prev, next |-> L.next]
      /\ L.prev \in [D \cup E -> D \cup E] /\ L.next \in [D \cup E -> D \cup E]
  BY DEF Lists, LinkType
<1>2. L.prev[e] = e /\ L.next[e] = e
  BY DEF Lists
<1>3. [L.prev EXCEPT ![e] = e] = L.prev /\ [L.next EXCEPT ![e] = e] = L.next
  BY <1>1, <1>2
<1> QED BY <1>1, <1>3 DEF LIST_INIT

(* list_push of a node that is on no list puts it on the list of d, and    *)
(* changes no other list.                                                  *)
LEMMA PushLemma ==
    ASSUME NEW D, NEW E, NEW L, NEW P, NEW d, NEW e, NEW Q,
           Lists(L, D, E, P), d \in D, e \in E, \A c \in D : e \notin P[c],
           Q \in [D -> SUBSET E], Q[d] = P[d] \cup {e},
           \A c \in D \ {d} : Q[c] = P[c]
    PROVE  Lists(list_push(L, d, e), D, E, Q)
<1> DEFINE K == list_push(L, d, e)
           N == D \cup E
<1>1. /\ D \cap E = {} /\ D \in SUBSET N
      /\ L.prev \in [N -> N] /\ L.next \in [N -> N]
      /\ P \in [D -> SUBSET E]
      /\ L.prev[e] = e /\ L.next[e] = e /\ e # d
  BY DEF Lists, LinkType
<1>20. \A x \in N : L.prev[L.next[x]] = x /\ L.next[L.prev[x]] = x
  BY DEF Lists
<1>2. /\ K.prev = [[L.prev EXCEPT ![e] = L.prev[d]] EXCEPT ![d] = e]
      /\ K.next = [[L.next EXCEPT ![e] = d] EXCEPT ![L.prev[d]] = e]
      /\ K = [prev |-> K.prev, next |-> K.next]
  BY DEF list_push
<1> HIDE DEF K
<1>21. d \in N /\ e \in N /\ L.prev[d] \in N
  BY <1>1
<1>3. K.prev \in [N -> N] /\ K.next \in [N -> N]
  <2> HIDE DEF N
  <2> QED BY <1>1, <1>2, <1>21
<1>30. K \in LinkType(N)
  BY <1>2, <1>3 DEF LinkType
<1>4. L.prev[d] \in N /\ L.prev[d] # e /\ L.next[L.prev[d]] = d
  BY <1>1, <1>20
<1>5. ASSUME NEW x \in N
      PROVE  /\ K.prev[x] = IF x = d THEN e ELSE IF x = e THEN L.prev[d] ELSE L.prev[x]
             /\ K.next[x] = IF x = L.prev[d] THEN e ELSE IF x = e THEN d ELSE L.next[x]
  BY <1>1, <1>20, <1>2, <1>4
<1>6. ASSUME NEW x \in N
      PROVE  K.prev[K.next[x]] = x /\ K.next[K.prev[x]] = x
  <2>1. L.next[x] \in N /\ L.prev[x] \in N
    BY <1>1, <1>20
  <2>2. x # e => L.next[x] # e /\ L.prev[x] # e
    BY <1>1, <1>20
  <2>3. L.next[x] = d => x = L.prev[d]
    BY <1>1, <1>20
  <2>4. L.prev[x] = L.prev[d] => x = d
    BY <1>1, <1>20
  <2> QED BY <1>1, <1>20, <1>4, <1>5, <2>1, <2>2, <2>3, <2>4
<1>7. ASSUME NEW x \in E, \A c \in D : x \notin Q[c]
      PROVE  K.next[x] = x /\ K.prev[x] = x
  <2>1. x # e /\ \A c \in D : x \notin P[c]
    BY <1>7
  <2>2. L.prev[d] \in P[d] \cup {d}
    BY DEF Lists
  <2>3. x # d /\ x # L.prev[d]
    BY <1>1, <1>20, <2>1, <2>2
  <2>4. L.next[x] = x /\ L.prev[x] = x
    BY <2>1 DEF Lists
  <2> QED BY <1>5, <2>1, <2>3, <2>4
<1>8. ASSUME NEW c \in D, NEW x \in Q[c] \cup {c}
      PROVE  K.next[x] \in Q[c] \cup {c} /\ K.prev[x] \in Q[c] \cup {c}
  <2>0. x \in N
    BY <1>8
  <2>1. CASE c = d
    <3>1. \A y \in P[d] \cup {d} : L.next[y] \in P[d] \cup {d} /\ L.prev[y] \in P[d] \cup {d}
      BY DEF Lists
    <3> QED BY <1>5, <2>0, <2>1, <3>1
  <2>2. CASE c # d
    <3>1. L.next[x] \in P[c] \cup {c} /\ L.prev[x] \in P[c] \cup {c} /\ x \in P[c] \cup {c}
      BY <2>2 DEF Lists
    <3>2. L.prev[d] \in P[d] \cup {d} /\ P[c] \cap P[d] = {} /\ P[d] \subseteq E /\ P[c] \subseteq E
      BY <2>2 DEF Lists
    <3>3. x # e /\ x # d /\ x # L.prev[d]
      BY <1>1, <1>20, <2>2, <3>1, <3>2
    <3> QED BY <1>5, <2>0, <2>2, <3>1, <3>3
  <2> QED BY <2>1, <2>2
<1>9. ASSUME NEW c \in D, NEW S \in SUBSET E, ClosedList(K, c, S)
      PROVE  Q[c] \subseteq S
  <2>0. \A x \in S \cup {c} : x \in N /\ K.next[x] \in S \cup {c}
    BY <1>9 DEF ClosedList
  <2>1. CASE c = d
    <3>1. ASSUME NEW x \in (S \ {e}) \cup {d}
          PROVE  L.next[x] \in (S \ {e}) \cup {d}
      <4>1. x \in N /\ x # e /\ K.next[x] \in S \cup {d} /\ L.next[x] # e
        BY <1>1, <1>20, <2>0, <2>1
      <4> QED BY <1>1, <1>20, <1>4, <1>5, <4>1
    <3>2. ClosedList(L, d, S \ {e})
      BY <3>1 DEF ClosedList
    <3>3. P[d] \subseteq S \ {e}
      BY <3>2 DEF Lists
    <3>4. L.prev[d] \in S \cup {d}
      BY <3>3 DEF Lists
    <3>5. e \in S
      BY <1>1, <1>20, <1>4, <1>5, <2>0, <2>1, <3>4
    <3> QED BY <2>1, <3>3, <3>5
  <2>2. CASE c # d
    <3>1. /\ P[c] \subseteq E /\ P[c] \cap P[d] = {} /\ P[d] \subseteq E
          /\ L.prev[d] \in P[d] \cup {d}
      BY <2>2 DEF Lists
    <3>2. ASSUME NEW x \in (S \cap P[c]) \cup {c}
          PROVE  L.next[x] \in (S \cap P[c]) \cup {c}
      <4>1. x # e /\ x # L.prev[d] /\ x \in N
        BY <1>1, <1>20, <2>0, <2>2, <3>1
      <4>2. K.next[x] = L.next[x]
        BY <1>5, <4>1
      <4>3. L.next[x] \in P[c] \cup {c}
        BY DEF Lists
      <4> QED BY <2>0, <4>2, <4>3
    <3>3. ClosedList(L, c, S \cap P[c])
      BY <3>2 DEF ClosedList
    <3>4. P[c] \subseteq S \cap P[c]
      BY <3>3 DEF Lists
    <3> QED BY <2>2, <3>4
  <2> QED BY <2>1, <2>2
<1>10. \A d1, d2 \in D : d1 # d2 => Q[d1] \cap Q[d2] = {}
  BY DEF Lists
<1>11. Lists(K, D, E, Q)
  BY <1>30, <1>6, <1>7, <1>8, <1>9, <1>10 DEF Lists
<1> QED BY <1>11 DEF K

(* What list_remove does to the links. *)
LEMMA RemoveLinks ==
    ASSUME NEW N, NEW L \in LinkType(N), NEW e \in N
    PROVE  /\ list_remove(L, e) \in LinkType(N)
           /\ \A y \in N : list_remove(L, e).next[y] =
                 IF y = e THEN e ELSE IF y = L.prev[e] THEN L.next[e] ELSE L.next[y]
           /\ \A y \in N : list_remove(L, e).prev[y] =
                 IF y = e THEN e ELSE IF y = L.next[e] THEN L.prev[e] ELSE L.prev[y]
<1> DEFINE K == list_remove(L, e)
<1>1. /\ L.prev \in [N -> N] /\ L.next \in [N -> N]
      /\ L.next[e] \in N /\ L.prev[e] \in N
  BY DEF LinkType
<1>2. /\ K.prev = [[L.prev EXCEPT ![L.next[e]] = L.prev[e]] EXCEPT ![e] = e]
      /\ K.next = [[L.next EXCEPT ![L.prev[e]] = L.next[e]] EXCEPT ![e] = e]
      /\ K = [prev |-> K.prev, next |-> K.next]
  BY DEF list_remove, LIST_INIT
<1> HIDE DEF K
<1>3. K.prev \in [N -> N] /\ K.next \in [N -> N]
  BY <1>1, <1>2
<1>4. K \in LinkType(N)
  BY <1>2, <1>3 DEF LinkType
<1>5. \A y \in N : K.next[y] = IF y = e THEN e
                               ELSE IF y = L.prev[e] THEN L.next[e] ELSE L.next[y]
  BY <1>1, <1>2
<1>6. \A y \in N : K.prev[y] = IF y = e THEN e
                               ELSE IF y = L.next[e] THEN L.prev[e] ELSE L.prev[y]
  BY <1>1, <1>2
<1> QED BY <1>4, <1>5, <1>6 DEF K

(* list_remove of a node takes it from its list, and changes no other. *)
LEMMA RemoveFromLists ==
    ASSUME NEW D, NEW E, NEW L, NEW P, NEW d, NEW e, NEW Q,
           Lists(L, D, E, P), d \in D, e \in P[d],
           Q \in [D -> SUBSET E], Q[d] = P[d] \ {e},
           \A c \in D \ {d} : Q[c] = P[c]
    PROVE  Lists(list_remove(L, e), D, E, Q)
<1>0. L.next[e] # e /\ L.prev[e] # e
  BY ONLY Lists(L, D, E, P), d \in D, e \in P[d], MemberLemma
<1> DEFINE N == D \cup E
           K == list_remove(L, e)
<1>1. /\ D \cap E = {} /\ D \in SUBSET N
      /\ L \in LinkType(N) /\ L.prev \in [N -> N] /\ L.next \in [N -> N]
      /\ P \in [D -> SUBSET E] /\ e \in E /\ e \in N /\ e # d
  BY DEF Lists, LinkType
<1>3. \A x \in N : L.prev[L.next[x]] = x /\ L.next[L.prev[x]] = x
  BY DEF Lists
<1>2. L.next[e] # e /\ L.prev[e] # e
  BY <1>0
<1> HIDE DEF N
<1>4. /\ K \in LinkType(N)
      /\ \A x \in N : K.next[x] =
            IF x = e THEN e ELSE IF x = L.prev[e] THEN L.next[e] ELSE L.next[x]
      /\ \A x \in N : K.prev[x] =
            IF x = e THEN e ELSE IF x = L.next[e] THEN L.prev[e] ELSE L.prev[x]
  <2>1. L \in LinkType(N) /\ e \in N
    BY <1>1
  <2> QED BY ONLY <2>1, RemoveLinks
<1> HIDE DEF K
<1> USE DEF N
<1>5. /\ L.next[e] \in P[d] \cup {d} /\ L.prev[e] \in P[d] \cup {d}
      /\ L.next[e] \in N /\ L.prev[e] \in N
  BY <1>1 DEF Lists
<1>6. ASSUME NEW x \in N
      PROVE  K.prev[K.next[x]] = x /\ K.next[K.prev[x]] = x
  <2>1. L.next[x] \in N /\ L.prev[x] \in N
    BY <1>1, <1>3
  <2>2. /\ L.next[x] = e => x = L.prev[e]
        /\ L.prev[x] = e => x = L.next[e]
        /\ L.next[x] = L.next[e] => x = e
        /\ L.prev[x] = L.prev[e] => x = e
    BY <1>1, <1>3
  <2> QED BY <1>1, <1>3, <1>2, <1>4, <1>5, <2>1, <2>2
<1>7. ASSUME NEW x \in E, \A c \in D : x \notin Q[c]
      PROVE  K.next[x] = x /\ K.prev[x] = x
  <2>1. CASE x = e
    BY <1>1, <1>3, <1>4, <2>1
  <2>2. CASE x # e
    <3>1. \A c \in D : x \notin P[c]
      BY <1>7, <2>2
    <3>2. x # L.prev[e] /\ x # L.next[e]
      BY <1>1, <1>3, <1>5, <3>1
    <3>3. L.next[x] = x /\ L.prev[x] = x
      BY <3>1 DEF Lists
    <3> QED BY <1>4, <2>2, <3>2, <3>3
  <2> QED BY <2>1, <2>2
<1>8. ASSUME NEW c \in D, NEW x \in Q[c] \cup {c}
      PROVE  K.next[x] \in Q[c] \cup {c} /\ K.prev[x] \in Q[c] \cup {c}
  <2>0. x \in N /\ x \in P[c] \cup {c} /\ P[c] \subseteq E
    BY <1>1, <1>3
  <2>1. L.next[x] \in P[c] \cup {c} /\ L.prev[x] \in P[c] \cup {c}
    BY <2>0 DEF Lists
  <2>2. CASE c = d
    <3>1. x # e /\ Q[c] = P[d] \ {e}
      BY <1>1, <1>3, <2>2
    <3>2. L.next[x] = e => x = L.prev[e]
      BY <1>1, <1>3, <2>0
    <3>3. L.prev[x] = e => x = L.next[e]
      BY <1>1, <1>3, <2>0
    <3> QED BY <1>2, <1>4, <1>5, <2>0, <2>1, <2>2, <3>1, <3>2, <3>3
  <2>3. CASE c # d
    <3>1. P[c] \cap P[d] = {} /\ P[d] \subseteq E
      BY <2>3 DEF Lists
    <3>2. x # e /\ x # L.prev[e] /\ x # L.next[e]
      BY <1>1, <1>3, <1>5, <2>0, <2>3, <3>1
    <3> QED BY <1>4, <2>0, <2>1, <2>3, <3>2
  <2> QED BY <2>2, <2>3
<1>9. ASSUME NEW c \in D, NEW S \in SUBSET E, ClosedList(K, c, S)
      PROVE  Q[c] \subseteq S
  <2>0. \A x \in S \cup {c} : x \in N /\ K.next[x] \in S \cup {c}
    BY <1>9 DEF ClosedList
  <2>1. CASE c = d
    <3>1. CASE L.prev[e] \in S \cup {d}
      <4>1. ASSUME NEW x \in (S \cup {e}) \cup {d}
            PROVE  L.next[x] \in (S \cup {e}) \cup {d}
        <5>1. CASE x = e
          BY <1>2, <1>4, <1>5, <2>0, <2>1, <3>1, <5>1
        <5>2. CASE x # e
          <6>1. x \in N /\ K.next[x] \in S \cup {d}
            BY <2>0, <2>1, <5>2
          <6>2. x = L.prev[e] => L.next[x] = e
            BY <1>1, <1>3
          <6> QED BY <1>4, <5>2, <6>1, <6>2
        <5> QED BY <5>1, <5>2
      <4>2. ClosedList(L, d, S \cup {e}) /\ S \cup {e} \in SUBSET E
        BY <1>1, <1>3, <4>1 DEF ClosedList
      <4>3. P[d] \subseteq S \cup {e}
        BY <4>2 DEF Lists
      <4> QED BY <2>1, <4>3
    <3>2. CASE L.prev[e] \notin S \cup {d}
      <4>1. ASSUME NEW x \in (S \ {e}) \cup {d}
            PROVE  L.next[x] \in (S \ {e}) \cup {d}
        <5>1. x # e /\ x # L.prev[e] /\ x \in N /\ K.next[x] \in S \cup {d}
          BY <1>1, <1>3, <2>0, <2>1, <3>2
        <5>2. L.next[x] # e
          BY <1>1, <1>3, <5>1
        <5> QED BY <1>4, <5>1, <5>2
      <4>2. ClosedList(L, d, S \ {e}) /\ S \ {e} \in SUBSET E
        BY <4>1 DEF ClosedList
      <4>3. P[d] \subseteq S \ {e}
        BY <4>2 DEF Lists
      <4> QED BY <4>3
    <3> QED BY <3>1, <3>2
  <2>2. CASE c # d
    <3>1. P[c] \subseteq E /\ P[c] \cap P[d] = {} /\ P[d] \subseteq E
      BY <2>2 DEF Lists
    <3>2. ASSUME NEW x \in (S \cap P[c]) \cup {c}
          PROVE  L.next[x] \in (S \cap P[c]) \cup {c}
      <4>1. x # e /\ x # L.prev[e] /\ x \in N
        BY <1>1, <1>3, <1>5, <2>0, <2>2, <3>1
      <4>2. K.next[x] = L.next[x]
        BY <1>4, <4>1
      <4>3. L.next[x] \in P[c] \cup {c}
        BY DEF Lists
      <4> QED BY <2>0, <4>2, <4>3
    <3>3. ClosedList(L, c, S \cap P[c])
      BY <3>2 DEF ClosedList
    <3>4. P[c] \subseteq S \cap P[c]
      BY <3>3 DEF Lists
    <3> QED BY <2>2, <3>4
  <2> QED BY <2>1, <2>2
<1>10. \A d1, d2 \in D : d1 # d2 => Q[d1] \cap Q[d2] = {}
  BY DEF Lists
<1>11. Lists(K, D, E, Q)
  BY <1>4, <1>6, <1>7, <1>8, <1>9, <1>10 DEF Lists
<1> QED BY <1>11 DEF K
=============================================================================
