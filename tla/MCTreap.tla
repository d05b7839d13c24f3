------------------------------- MODULE MCTreap -------------------------------
(* Treap on few structs and few values. *)
EXTENDS Treap, TLC

(* Structs are interchangeable. *)
Structs == Permutations(Vma)
=============================================================================
