--------------------------- MODULE MCVirtualAlloc ---------------------------
(* VirtualAlloc on a small range of pages.  No more VMAs than pages can be *)
(* in the list, so Hi - Lo structs never run out unless the heap refuses.  *)
EXTENDS VirtualAlloc, TLC

(* At most one of the first draws of a call leaves a priority of zero. *)
NoZeroDraw == {{}}
OneZeroDraw == {{}} \cup {{k} : k \in 1..15}

(* Structs are interchangeable: no property names one. *)
Structs == Permutations(Vma)
=============================================================================
