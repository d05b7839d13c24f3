------------------------------ MODULE ListHead ------------------------------
(***************************************************************************)
(* The intrusive, circular, doubly linked lists of include/list.h, as      *)
(* operators on the memory that holds the links.                           *)
(*                                                                         *)
(* L is a record [prev, next] of two functions on list_head addresses: the *)
(* two fields of every `struct list_head'.  An operator returns the memory *)
(* after the C function of the same name has run; the asserts of the C     *)
(* function are the preconditions CanInsert and CanRemove.                 *)
(***************************************************************************)

(* The memory of the list_heads N. *)
LinkType(N) == [prev : [N -> N], next : [N -> N]]

(* S is a union of whole lists: links do not leave it, each has its        *)
(* inverse, and the nodes outside it are self-linked.                      *)
Linked(L, S) ==
    /\ \A x \in S : /\ L.next[x] \in S /\ L.prev[x] \in S
                    /\ L.prev[L.next[x]] = x /\ L.next[L.prev[x]] = x
    /\ \A x \in DOMAIN L.next \ S : L.next[x] = x /\ L.prev[x] = x

(* Whoever follows the links from `list' stays in S until back at `list'.  *)
ClosedList(L, list, S) ==
    L.next[list] \in S \cup {list} /\ \A x \in S : L.next[x] \in S \cup {list}

(* The nodes of N on the list of `list': those that nobody who follows it  *)
(* can avoid.                                                              *)
ListOf(L, list, N) == {x \in N : \A S \in SUBSET (N \ {x}) : ~ClosedList(L, list, S)}

(* elem == elem->prev && elem == elem->next: list.h:91, 102. *)
CanInsert(L, elem) == L.prev[elem] = elem /\ L.next[elem] = elem

(* elem != elem->prev && elem != elem->next: list.h:113, 125, 138. *)
CanRemove(L, elem) == L.prev[elem] # elem /\ L.next[elem] # elem

LIST_INIT(L, elem) ==
    [prev |-> [L.prev EXCEPT ![elem] = elem],
     next |-> [L.next EXCEPT ![elem] = elem]]

list_is_empty(L, list) == list = L.prev[list] \/ list = L.next[list]

(* Links elem right after list: at the start, when list is the owner. *)
list_unshift(L, list, elem) ==
    [prev |-> [L.prev EXCEPT ![elem] = list, ![L.next[list]] = elem],
     next |-> [L.next EXCEPT ![elem] = L.next[list], ![list] = elem]]

(* Links elem right before list: at the end, when list is the owner. *)
list_push(L, list, elem) ==
    [prev |-> [L.prev EXCEPT ![elem] = L.prev[list], ![list] = elem],
     next |-> [L.next EXCEPT ![elem] = list, ![L.prev[list]] = elem]]

list_remove(L, elem) ==
    LIST_INIT([prev |-> [L.prev EXCEPT ![L.next[elem]] = L.prev[elem]],
               next |-> [L.next EXCEPT ![L.prev[elem]] = L.next[elem]]],
              elem)

(* The element list_shift returns is list->next, the one list_pop returns  *)
(* is list->prev; both leave that element self-linked.                     *)
list_shift(L, list) == list_remove(L, L.next[list])
list_pop(L, list)   == list_remove(L, L.prev[list])
=============================================================================
