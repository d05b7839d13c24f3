------------------------------- MODULE MCHeap -------------------------------
EXTENDS Heap, TLC

(* What the virtual memory allocator calls back: any frees, and the        *)
(* longest course of vma_alloc_aligned, or a course with one struct too.   *)
AllFrees == AllFreeCalls
LongestCourse == {<<"alloc", "free", "alloc", "free", "alloc", "alloc">>}
TwoCourses == {<<"alloc">>} \cup LongestCourse

(* No block of a page is told apart from the others: whichever Init takes  *)
(* for the first struct vma, the others give the same states renamed.      *)
BlockSymmetry == Permutations(Block)
=============================================================================
