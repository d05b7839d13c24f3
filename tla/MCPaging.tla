------------------------------ MODULE MCPaging ------------------------------
EXTENDS Paging

(* Two devices: one that is a page, one that starts in the middle of a     *)
(* page and ends in the next.                                              *)
TwoRegions == {<<40, 2>>, <<45, 2>>}

Booted == <<4, 2, 3, 5>>

Unreserved == <<6, 7>>
=============================================================================
